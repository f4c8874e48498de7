--------------------------- MODULE PartnerProofs ---------------------------
(***************************************************************************)
(* Proofs about PartnerGuard and PartnerKeys, for any partners, keys,      *)
(* requests, copies of them and rotations, and all settings that satisfy   *)
(* RateAssumption.  PassesOnce needs NonceOutlivesTimestamps besides.      *)
(***************************************************************************)
EXTENDS PartnerGuard, FiniteSetTheorems, TLAPS

-----------------------------------------------------------------------------
(* Keys. *)

\* A key belongs to somebody as soon as it exists.
KeysAreOwned ==
  \A k \in Key : secret[k].status = "absent" <=> secret[k].owner = NoPartner

\* A rotation that has made its key knows that key and those there were before.
RotationsKnowKeys ==
  \A a \in Rotation : rotation[a].step # "idle" =>
    /\ rotation[a].partner \in Partner
    /\ rotation[a].key \in KeysOf(rotation[a].partner)
    /\ rotation[a].older \subseteq KeysOf(rotation[a].partner) \ {rotation[a].key}

OlderIsRevoked ==
  \A a \in Rotation : rotation[a].step = "done" /\ rotation[a].revokeOld =>
    \A k \in rotation[a].older : secret[k].status = "REVOKED"

OneRevokes ==
  \A p \in Partner : ~raced[p] =>
    \A a, b \in Rotation : Revoking(a, p) /\ Revoking(b, p) => a = b

OwnKeyLives ==
  \A a \in Rotation : rotation[a].step = "created" /\ ~raced[rotation[a].partner] =>
    secret[rotation[a].key].status = "ACTIVE"

KeysInv ==
  /\ KeysTypeOK /\ KeysAreOwned /\ RotationsKnowKeys
  /\ OlderIsRevoked /\ OneRevokes /\ OwnKeyLives /\ KeepsAKey

\* What no step undoes: a key stays with its partner, and stays revoked.
KeysStay ==
  \A k \in Key : secret[k].status # "absent" =>
    /\ secret'[k].status # "absent" /\ secret'[k].owner = secret[k].owner
    /\ secret[k].status = "REVOKED" => secret'[k].status = "REVOKED"

LEMMA KeysInitInv == KeysInit => KeysInv
<1> SUFFICES ASSUME KeysInit  PROVE KeysInv
  OBVIOUS
<1> USE DEF KeysInit
<1>1. KeysTypeOK
  BY DEF KeysTypeOK, Row, Secret, Call
<1>2. KeysAreOwned /\ RotationsKnowKeys /\ OlderIsRevoked /\ OneRevokes /\ OwnKeyLives
  BY DEF KeysAreOwned, RotationsKnowKeys, OlderIsRevoked, OneRevokes, OwnKeyLives, Revoking
<1>3. KeepsAKey
  BY DEF KeepsAKey, Exists
<1> QED BY <1>1, <1>2, <1>3 DEF KeysInv

\* A partner with a key that works keeps it unless it is revoked.
LEMMA CreateStep ==
  ASSUME KeysInv, NEW p \in Partner, NEW k \in Key, CreatePartner(p, k)
  PROVE  KeysInv' /\ KeysStay
<1>1. PICK row \in Row : row.status # "none" /\ partner' = [partner EXCEPT ![p] = row]
  BY DEF CreatePartner
<1>2. /\ secret[k].status = "absent"
      /\ secret' = [secret EXCEPT ![k] = [owner |-> p, status |-> "ACTIVE"]]
      /\ rotation' = rotation /\ raced' = raced /\ crowd' = crowd
  BY DEF CreatePartner, NewKey
<1>3. KeysTypeOK'
  BY <1>1, <1>2 DEF KeysInv, KeysTypeOK, Secret
<1>4. KeysStay
  BY <1>2 DEF KeysStay, KeysInv, KeysTypeOK
<1>5. KeysAreOwned'
  BY <1>2, KeysAssumption DEF KeysInv, KeysTypeOK, Secret, KeysAreOwned
<1>6. \A q \in Partner : KeysOf(q) \subseteq KeysOf(q)' /\ k \notin KeysOf(q)
  BY <1>2, KeysAssumption DEF KeysInv, KeysTypeOK, Secret, KeysAreOwned, KeysOf
<1>7. RotationsKnowKeys'
  BY <1>2, <1>6 DEF KeysInv, RotationsKnowKeys
<1>8. OlderIsRevoked' /\ OneRevokes' /\ OwnKeyLives'
  <2>1. OlderIsRevoked'
    BY <1>2, <1>4 DEF KeysInv, KeysTypeOK, Call, OlderIsRevoked, KeysStay
  <2>2. OneRevokes'
    BY <1>2 DEF KeysInv, OneRevokes, Revoking
  <2>3. OwnKeyLives'
    BY <1>2, <1>6 DEF KeysInv, KeysTypeOK, RotationsKnowKeys, OwnKeyLives, KeysOf
  <2> QED BY <2>1, <2>2, <2>3
<1>9. KeepsAKey'
  <2> SUFFICES ASSUME NEW q \in Partner, Exists(q)', ~raced'[q]  PROVE ActiveKeys(q)' # {}
    BY DEF KeepsAKey
  <2>1. CASE q = p
    <3>1. k \in ActiveKeys(q)'
      BY <1>2, <2>1 DEF ActiveKeys, KeysOf, KeysInv, KeysTypeOK
    <3> QED BY <3>1
  <2>2. CASE q # p
    <3>1. PICK l \in Key : secret[l].owner = q /\ secret[l].status = "ACTIVE"
      BY <1>1, <1>2, <2>2 DEF KeysInv, KeysTypeOK, KeepsAKey, Exists, ActiveKeys, KeysOf
    <3>2. l \in ActiveKeys(q)'
      BY <1>2, <3>1 DEF ActiveKeys, KeysOf, KeysInv, KeysTypeOK
    <3> QED BY <3>2
  <2> QED BY <2>1, <2>2
<1> QED BY <1>3, <1>4, <1>5, <1>7, <1>8, <1>9 DEF KeysInv

\* The settings of a partner do not touch its keys.
LEMMA SettingsStep ==
  ASSUME KeysInv, NEW p \in Partner, UpdatePartner(p) \/ UpdateStatus(p)
  PROVE  KeysInv' /\ KeysStay
<1>1. /\ secret' = secret /\ rotation' = rotation /\ raced' = raced /\ crowd' = crowd
      /\ Exists(p)
  BY DEF UpdatePartner, UpdateStatus
<1>2. partner' \in [Partner -> Row] /\ \A q \in Partner \ {p} : partner'[q] = partner[q]
  BY DEF UpdatePartner, UpdateStatus, KeysInv, KeysTypeOK, Row
<1>3. \A q \in Partner : Exists(q)' => Exists(q)
  BY <1>1, <1>2 DEF Exists
<1>4. KeysTypeOK' /\ KeysStay
  BY <1>1, <1>2 DEF KeysInv, KeysTypeOK, KeysStay
<1>5. KeysAreOwned' /\ RotationsKnowKeys' /\ OlderIsRevoked' /\ OneRevokes' /\ OwnKeyLives'
  BY <1>1 DEF KeysInv, KeysAreOwned, RotationsKnowKeys, OlderIsRevoked, OneRevokes,
              OwnKeyLives, Revoking, KeysOf
<1>6. KeepsAKey'
  BY <1>1, <1>3 DEF KeysInv, KeepsAKey, ActiveKeys, KeysOf
<1> QED BY <1>4, <1>5, <1>6 DEF KeysInv

LEMMA RotateStep ==
  ASSUME KeysInv, NEW a \in Rotation, NEW p \in Partner, NEW k \in Key,
         NEW revokeOld \in BOOLEAN, RotateSecret(a, p, k, revokeOld)
  PROVE  KeysInv' /\ KeysStay
<1> DEFINE new == [step |-> IF revokeOld THEN "created" ELSE "done",
                   partner |-> p, revokeOld |-> revokeOld, key |-> k, older |-> KeysOf(p)]
<1>1. /\ secret[k].status = "absent" /\ rotation[a].step = "idle" /\ Exists(p)
      /\ secret' = [secret EXCEPT ![k] = [owner |-> p, status |-> "ACTIVE"]]
      /\ rotation' = [rotation EXCEPT ![a] = new]
      /\ raced' = [raced EXCEPT ![p] = @ \/ (revokeOld /\ \E b \in Rotation : Revoking(b, p))]
      /\ partner' = partner /\ crowd' = crowd
  BY DEF RotateSecret, NewKey
<1>2. KeysOf(p) \subseteq Key /\ new \in Call
  BY DEF KeysOf, Call
<1>3. KeysTypeOK'
  <2>1. rotation' \in [Rotation -> Call]
    BY <1>1, <1>2 DEF KeysInv, KeysTypeOK
  <2>2. secret' \in [Key -> Secret]
    BY <1>1 DEF KeysInv, KeysTypeOK, Secret
  <2>3. raced' \in [Partner -> BOOLEAN] /\ partner' \in [Partner -> Row]
    BY <1>1 DEF KeysInv, KeysTypeOK
  <2> QED BY <2>1, <2>2, <2>3 DEF KeysTypeOK
<1>4. KeysStay
  BY <1>1 DEF KeysStay, KeysInv, KeysTypeOK
<1>5. KeysAreOwned'
  BY <1>1, KeysAssumption DEF KeysInv, KeysTypeOK, Secret, KeysAreOwned
<1>6. \A q \in Partner : KeysOf(q) \subseteq KeysOf(q)' /\ k \notin KeysOf(q)
  BY <1>1, KeysAssumption DEF KeysInv, KeysTypeOK, Secret, KeysAreOwned, KeysOf
<1>7. rotation'[a] = new /\ \A b \in Rotation \ {a} : rotation'[b] = rotation[b]
  BY <1>1 DEF KeysInv, KeysTypeOK
<1>8. k \in KeysOf(p)' /\ secret'[k].status = "ACTIVE"
  BY <1>1 DEF KeysInv, KeysTypeOK, KeysOf
<1>9. RotationsKnowKeys'
  <2> SUFFICES ASSUME NEW b \in Rotation, rotation'[b].step # "idle"
               PROVE  /\ rotation'[b].partner \in Partner
                      /\ rotation'[b].key \in KeysOf(rotation[b].partner)'
                      /\ rotation'[b].older \subseteq KeysOf(rotation[b].partner)' \ {rotation'[b].key}
    BY DEF RotationsKnowKeys, KeysOf
  <2>1. CASE b = a
    BY <2>1, <1>7, <1>8, <1>6
  <2>2. CASE b # a
    BY <2>2, <1>7, <1>6 DEF KeysInv, RotationsKnowKeys
  <2> QED BY <2>1, <2>2
<1>10. OlderIsRevoked'
  <2> SUFFICES ASSUME NEW b \in Rotation, rotation'[b].step = "done", rotation'[b].revokeOld,
                      NEW l \in rotation'[b].older
               PROVE  secret'[l].status = "REVOKED"
    BY DEF OlderIsRevoked
  <2>1. b # a
    BY <1>7
  <2>2. l \in Key /\ secret[l].status = "REVOKED"
    BY <2>1, <1>7 DEF KeysInv, OlderIsRevoked, KeysTypeOK, Call
  <2> QED BY <2>2, <1>4 DEF KeysStay
<1>11. OneRevokes'
  <2> SUFFICES ASSUME NEW q \in Partner, ~raced'[q], NEW b \in Rotation, NEW c \in Rotation,
                      Revoking(b, q)', Revoking(c, q)'
               PROVE  b = c
    BY DEF OneRevokes
  <2>1. ~raced[q]
    BY <1>1 DEF KeysInv, KeysTypeOK
  <2>2. \A d \in Rotation \ {a} : Revoking(d, q)' => Revoking(d, q)
    BY <1>7 DEF Revoking
  <2>3. Revoking(a, q)' => q = p /\ revokeOld
    BY <1>7 DEF Revoking
  <2>4. q = p /\ revokeOld => \A d \in Rotation : ~Revoking(d, q)
    BY <1>1 DEF KeysInv, KeysTypeOK
  <2>5. CASE b = a /\ c # a
    BY <2>5, <2>2, <2>3, <2>4
  <2>6. CASE b # a /\ c = a
    BY <2>6, <2>2, <2>3, <2>4
  <2>7. CASE b # a /\ c # a
    BY <2>7, <2>1, <2>2 DEF KeysInv, OneRevokes
  <2> QED BY <2>5, <2>6, <2>7
<1>12. OwnKeyLives'
  <2> SUFFICES ASSUME NEW b \in Rotation, rotation'[b].step = "created",
                      ~raced'[rotation'[b].partner]
               PROVE  secret'[rotation'[b].key].status = "ACTIVE"
    BY DEF OwnKeyLives
  <2>1. CASE b = a
    BY <2>1, <1>7, <1>8
  <2>2. CASE b # a
    <3>1. /\ rotation[b].partner \in Partner /\ rotation[b].key \in KeysOf(rotation[b].partner)
          /\ rotation[b].step = "created" /\ rotation'[b] = rotation[b]
      BY <2>2, <1>7 DEF KeysInv, RotationsKnowKeys
    <3>2. ~raced[rotation[b].partner]
      BY <3>1, <1>1 DEF KeysInv, KeysTypeOK
    <3>3. secret[rotation[b].key].status = "ACTIVE" /\ rotation[b].key \in Key \ {k}
      BY <3>1, <3>2, <1>6 DEF KeysInv, OwnKeyLives, KeysOf
    <3> QED BY <3>1, <3>3, <1>1 DEF KeysInv, KeysTypeOK
  <2> QED BY <2>1, <2>2
<1>13. KeepsAKey'
  <2> SUFFICES ASSUME NEW q \in Partner, Exists(q)', ~raced'[q]  PROVE ActiveKeys(q)' # {}
    BY DEF KeepsAKey
  <2>1. ~raced[q] /\ Exists(q)
    BY <1>1 DEF KeysInv, KeysTypeOK, Exists
  <2>2. PICK l \in Key : secret[l].owner = q /\ secret[l].status = "ACTIVE"
    BY <2>1 DEF KeysInv, KeepsAKey, ActiveKeys, KeysOf
  <2>3. l \in ActiveKeys(q)'
    BY <1>1, <2>2 DEF ActiveKeys, KeysOf, KeysInv, KeysTypeOK
  <2> QED BY <2>3
<1> QED BY <1>3, <1>4, <1>5, <1>9, <1>10, <1>11, <1>12, <1>13 DEF KeysInv

LEMMA RevokeStep ==
  ASSUME KeysInv, NEW a \in Rotation, RevokeOld(a)
  PROVE  KeysInv' /\ KeysStay
<1> DEFINE p == rotation[a].partner
<1>1. /\ rotation[a].step = "created" /\ p \in Partner /\ rotation[a].key \in KeysOf(p)
      /\ rotation[a].older \subseteq KeysOf(p) \ {rotation[a].key}
  BY DEF RevokeOld, KeysInv, RotationsKnowKeys
<1>2. /\ secret' = [k \in Key |-> IF k \in ToRevoke(a)
                                  THEN [secret[k] EXCEPT !.status = "REVOKED"] ELSE secret[k]]
      /\ rotation' = [rotation EXCEPT ![a].step = "done"]
      /\ partner' = partner /\ raced' = raced /\ crowd' = crowd
  BY DEF RevokeOld
<1>3. ToRevoke(a) \subseteq KeysOf(p) /\ rotation[a].key \notin ToRevoke(a)
      /\ KeysOf(p) \ {rotation[a].key} \subseteq ToRevoke(a)
  BY DEF ToRevoke
<1>4. \A k \in Key : /\ secret'[k].owner = secret[k].owner
                     /\ k \in ToRevoke(a) => secret'[k].status = "REVOKED" /\ secret[k].status # "absent"
                     /\ k \notin ToRevoke(a) => secret'[k] = secret[k]
  <2>1. \A k \in ToRevoke(a) : secret[k].owner # NoPartner
    BY <1>1, <1>3, KeysAssumption DEF KeysOf
  <2> QED BY <1>2, <2>1 DEF KeysInv, KeysTypeOK, Secret, KeysAreOwned
<1>5. /\ \A b \in Rotation \ {a} : rotation'[b] = rotation[b]
      /\ rotation'[a].step = "done" /\ rotation'[a].partner = p
      /\ rotation'[a].key = rotation[a].key /\ rotation'[a].older = rotation[a].older
  BY <1>2 DEF KeysInv, KeysTypeOK, Call
<1>6. KeysTypeOK'
  <2>1. secret' \in [Key -> Secret]
    BY <1>2 DEF KeysInv, KeysTypeOK, Secret
  <2>2. rotation' \in [Rotation -> Call]
    BY <1>2 DEF KeysInv, KeysTypeOK, Call
  <2> QED BY <1>2, <2>1, <2>2 DEF KeysInv, KeysTypeOK
<1>7. KeysStay /\ KeysAreOwned'
  BY <1>4 DEF KeysStay, KeysInv, KeysAreOwned
<1>8. \A q \in Partner : KeysOf(q)' = KeysOf(q)
  BY <1>4 DEF KeysOf
<1>9. RotationsKnowKeys'
  BY <1>1, <1>5, <1>8 DEF KeysInv, RotationsKnowKeys
<1>10. OlderIsRevoked'
  <2> SUFFICES ASSUME NEW b \in Rotation, rotation'[b].step = "done", rotation'[b].revokeOld,
                      NEW l \in rotation'[b].older
               PROVE  secret'[l].status = "REVOKED"
    BY DEF OlderIsRevoked
  <2>1. CASE b = a
    <3>1. l \in ToRevoke(a) /\ l \in Key
      BY <2>1, <1>1, <1>3, <1>5 DEF KeysOf
    <3> QED BY <3>1, <1>4
  <2>2. CASE b # a
    <3>1. l \in Key /\ secret[l].status = "REVOKED"
      BY <2>2, <1>5 DEF KeysInv, OlderIsRevoked, KeysTypeOK, Call
    <3> QED BY <3>1, <1>7 DEF KeysStay
  <2> QED BY <2>1, <2>2
<1>11. \A b \in Rotation, q \in Partner : Revoking(b, q)' => b # a /\ Revoking(b, q)
  BY <1>5 DEF Revoking
<1>12. OneRevokes'
  BY <1>2, <1>11 DEF KeysInv, OneRevokes
<1>13. OwnKeyLives'
  <2> SUFFICES ASSUME NEW b \in Rotation, rotation'[b].step = "created",
                      ~raced'[rotation'[b].partner]
               PROVE  secret'[rotation'[b].key].status = "ACTIVE"
    BY DEF OwnKeyLives
  <2>1. /\ b # a /\ rotation'[b] = rotation[b]
        /\ rotation[b].partner \in Partner /\ rotation[b].key \in KeysOf(rotation[b].partner)
        /\ secret[rotation[b].key].status = "ACTIVE"
    BY <1>2, <1>5 DEF KeysInv, RotationsKnowKeys, OwnKeyLives
  <2>2. rotation[b].partner # p
    BY <1>1, <1>2, <2>1 DEF KeysInv, OneRevokes, Revoking
  <2>3. rotation[b].key \notin ToRevoke(a)
    BY <2>1, <2>2, <1>3 DEF KeysOf
  <2> QED BY <2>1, <2>3, <1>4 DEF KeysOf
<1>14. KeepsAKey'
  <2> SUFFICES ASSUME NEW q \in Partner, Exists(q)', ~raced'[q]  PROVE ActiveKeys(q)' # {}
    BY DEF KeepsAKey
  <2>1. ~raced[q] /\ Exists(q)
    BY <1>2 DEF Exists
  <2>2. CASE q = p
    <3>1. secret[rotation[a].key].status = "ACTIVE" /\ rotation[a].key \in Key
      BY <1>1, <2>1, <2>2 DEF KeysInv, OwnKeyLives, KeysOf
    <3>2. rotation[a].key \in ActiveKeys(q)'
      BY <1>1, <1>3, <1>4, <1>8, <2>2, <3>1 DEF ActiveKeys
    <3> QED BY <3>2
  <2>3. CASE q # p
    <3>1. PICK l \in Key : secret[l].owner = q /\ secret[l].status = "ACTIVE"
      BY <2>1 DEF KeysInv, KeepsAKey, ActiveKeys, KeysOf
    <3>2. l \notin ToRevoke(a)
      BY <3>1, <2>3, <1>3 DEF KeysOf
    <3>3. l \in ActiveKeys(q)'
      BY <3>1, <3>2, <1>4 DEF ActiveKeys, KeysOf
    <3> QED BY <3>3
  <2> QED BY <2>2, <2>3
<1> QED BY <1>6, <1>7, <1>9, <1>10, <1>12, <1>13, <1>14 DEF KeysInv

LEMMA RotationFailsStep ==
  ASSUME KeysInv, NEW a \in Rotation, RotationFails(a)
  PROVE  KeysInv' /\ KeysStay
<1>1. /\ rotation[a].step = "created"
      /\ rotation' = [rotation EXCEPT ![a].step = "failed"]
      /\ partner' = partner /\ secret' = secret /\ raced' = raced /\ crowd' = crowd
  BY DEF RotationFails
<1>2. /\ \A b \in Rotation \ {a} : rotation'[b] = rotation[b]
      /\ rotation'[a].step = "failed" /\ rotation'[a].partner = rotation[a].partner
      /\ rotation'[a].key = rotation[a].key /\ rotation'[a].older = rotation[a].older
      /\ rotation' \in [Rotation -> Call]
  BY <1>1 DEF KeysInv, KeysTypeOK, Call
<1>3. KeysTypeOK' /\ KeysStay /\ KeysAreOwned' /\ KeepsAKey'
  BY <1>1, <1>2 DEF KeysInv, KeysTypeOK, KeysStay, KeysAreOwned, KeepsAKey, Exists,
                    ActiveKeys, KeysOf
<1>4. RotationsKnowKeys'
  BY <1>1, <1>2 DEF KeysInv, RotationsKnowKeys, KeysOf
<1>5. OlderIsRevoked' /\ OneRevokes' /\ OwnKeyLives'
  BY <1>1, <1>2 DEF KeysInv, OlderIsRevoked, OneRevokes, OwnKeyLives, Revoking
<1> QED BY <1>3, <1>4, <1>5 DEF KeysInv

LEMMA KeysNextInv == KeysInv /\ [KeysNext]_keysVars => KeysInv' /\ KeysStay
<1> SUFFICES ASSUME KeysInv, [KeysNext]_keysVars  PROVE KeysInv' /\ KeysStay
  OBVIOUS
<1>1. CASE KeysNext
  BY <1>1, CreateStep, SettingsStep, RotateStep, RevokeStep, RotationFailsStep DEF KeysNext
<1>2. CASE UNCHANGED keysVars
  BY <1>2 DEF keysVars, KeysInv, KeysTypeOK, KeysStay, KeysAreOwned, KeepsAKey, Exists,
              ActiveKeys, KeysOf, RotationsKnowKeys, OlderIsRevoked, OneRevokes, OwnKeyLives,
              Revoking
<1> QED BY <1>1, <1>2

-----------------------------------------------------------------------------
(* Settings and clock. *)

LEMMA Settings ==
  /\ Second \in Nat /\ Second >= 1 /\ Minute \in Nat /\ Minute >= 1
  /\ Skew \in Nat /\ Ahead \in Nat /\ Stall \in Nat /\ Horizon \in Nat
  /\ NonceTtl * Second \in Nat /\ RateTtl * Second \in Nat
  /\ (Skew + 1) * Second \in Nat
  /\ Never \in Nat /\ Horizon + RateTtl * Second < Never /\ Horizon < Never
<1>1. /\ Second \in Nat \ {0} /\ Minute \in Nat \ {0} /\ Skew \in Nat /\ Ahead \in Nat
      /\ Stall \in Nat /\ Horizon \in Nat /\ NonceTtl \in Nat /\ RateTtl \in Nat
  BY ClockAssumption
<1>2. \A m, n \in Nat : m * n \in Nat
  OBVIOUS
<1>3. NonceTtl * Second \in Nat /\ RateTtl * Second \in Nat /\ (Skew + 1) * Second \in Nat
  BY <1>1, <1>2
<1>4. Never = Horizon + NonceTtl * Second + RateTtl * Second + 1
  <2>1. \A x, y, z \in Nat : (x + y) * z = x * z + y * z
    OBVIOUS
  <2>2. (NonceTtl + RateTtl) * Second = NonceTtl * Second + RateTtl * Second
    BY <1>1, <2>1
  <2> QED BY <1>1, <1>3, <2>2 DEF Never
<1> QED BY <1>1, <1>3, <1>4

LEMMA Quotient ==
  ASSUME NEW x \in Nat, NEW u \in Nat \ {0}
  PROVE  /\ x \div u \in Nat
         /\ (x \div u) * u <= x /\ x < (x \div u) * u + u
  OBVIOUS

LEMMA Scaled ==
  ASSUME NEW x \in Int, NEW y \in Int, NEW u \in Nat, x <= y
  PROVE  x * u <= y * u
  OBVIOUS

LEMMA QuotientMonotone ==
  ASSUME NEW x \in Nat, NEW y \in Nat, x <= y, NEW u \in Nat \ {0}
  PROVE  x \div u <= y \div u
<1> DEFINE p == x \div u
           q == y \div u
<1>1. p \in Nat /\ q \in Nat /\ p * u <= x /\ y < q * u + u
  BY Quotient
<1> HIDE DEF p, q
<1>2. ASSUME q < p  PROVE FALSE
  <2>1. (q + 1) * u <= p * u
    BY <1>1, <1>2, Scaled
  <2>2. (q + 1) * u = q * u + u
    BY <1>1
  <2> QED BY <1>1, <2>1, <2>2
<1>3. p <= q
  BY <1>1, <1>2
<1> QED BY <1>3 DEF p, q

-----------------------------------------------------------------------------
(* Types. *)

RequestsAreSigned ==
  \A r \in Request : IsSigned(r) =>
    /\ sent[r].key \in Key /\ sent[r].client \in Partner
    /\ secret[sent[r].key].status # "absent"
    /\ sent[r].timestamp * Second <= now + Ahead

CopiesAreSigned ==
  \A d \in Delivery : delivery[d].step # "none" => IsSigned(delivery[d].request)

GuardInv == GuardTypeOK /\ RequestsAreSigned /\ CopiesAreSigned

\* One step of one handler: what it leaves alone.
Moves(d) ==
  /\ delivery[d].step \in InFlight
  /\ delivery' \in [Delivery -> Handler]
  /\ \A e \in Delivery \ {d} : delivery'[e] = delivery[e]
  /\ delivery'[d].step \notin {"none", "find"}
  /\ delivery'[d].request = delivery[d].request
  /\ delivery'[d].intact = delivery[d].intact
  /\ delivery'[d].late = delivery[d].late
  /\ UNCHANGED <<keysVars, now, sent>>

LEMMA ClockType == GuardInv => now \in Nat /\ now <= Horizon /\ BucketOf(now) \in Bucket
<1> SUFFICES ASSUME GuardInv  PROVE now \in Nat /\ now <= Horizon /\ BucketOf(now) \in Bucket
  OBVIOUS
<1>1. now \in Nat /\ now <= Horizon
  BY Settings DEF GuardInv, GuardTypeOK
<1>2. now \div Minute \in Nat /\ now \div Minute <= Horizon \div Minute
  BY <1>1, Settings, Quotient, QuotientMonotone
<1>3. Horizon \div Minute \in Nat
  <2>1. Horizon \in Nat /\ Minute \in Nat \ {0}
    BY Settings
  <2> QED BY <2>1, Quotient
<1>4. now \div Minute \in 0 .. Horizon \div Minute
  <2> DEFINE q == now \div Minute
             b == Horizon \div Minute
  <2>1. q \in Nat /\ b \in Nat /\ q <= b
    BY <1>2, <1>3
  <2> HIDE DEF q, b
  <2>2. q \in 0 .. b
    BY <2>1
  <2> QED BY <2>2 DEF q, b
<1> QED BY <1>1, <1>4 DEF BucketOf, Bucket

LEMMA GoesOn ==
  ASSUME GuardInv, NEW d \in Delivery, delivery[d].step \in InFlight,
         NEW step \in {"check", "claim", "passed", "refused", "limited", "failed"}, Goes(d, step),
         UNCHANGED <<keysVars, now, sent>>
  PROVE  /\ Moves(d)
         /\ delivery'[d] = [delivery[d] EXCEPT !.step = step, !.read = IF Waits(step) THEN @ ELSE 0]
<1>1. step \in InFlight \cup {"none", "passed", "refused", "limited", "failed"}
      /\ step \notin {"none", "find"}
  BY DEF InFlight
<1>2. delivery[d] \in Handler /\ delivery \in [Delivery -> Handler]
  BY DEF GuardInv, GuardTypeOK
<1>3. delivery' = [delivery EXCEPT ![d] =
                     [delivery[d] EXCEPT !.step = step, !.read = IF Waits(step) THEN @ ELSE 0]]
  BY <1>2 DEF Goes, Handler
<1>4. [delivery[d] EXCEPT !.step = step, !.read = IF Waits(step) THEN @ ELSE 0] \in Handler
  <2> DEFINE h == delivery[d]
             read == IF Waits(step) THEN h.read ELSE 0
  <2>1. read \in 0 .. Horizon
    BY <1>2, Settings DEF Handler
  <2> HIDE DEF read
  <2>2. [h EXCEPT !.step = step, !.read = read] \in Handler
    BY <1>1, <1>2, <2>1 DEF Handler
  <2> QED BY <2>2 DEF read
<1> QED BY <1>1, <1>2, <1>3, <1>4 DEF Moves, Handler

\* Every step of a handler in terms of the record it leaves.
LEMMA FindMoves ==
  ASSUME GuardInv, NEW d \in Delivery, NEW from, FindPartner(d, from)
  PROVE  /\ Moves(d) /\ counter' = counter /\ nonce' = nonce
         /\ \/ /\ delivery'[d].step = "refused"
               /\ delivery'[d].limit = delivery[d].limit
               /\ delivery'[d].place = delivery[d].place
            \/ /\ delivery'[d].step \in {"check", "count"}
               /\ delivery'[d].step = "check" => delivery'[d].limit = 0
               /\ delivery'[d].bucket = BucketOf(now)
               /\ delivery'[d].read = IF delivery'[d].step = "count" THEN now ELSE 0
               /\ delivery'[d].place = delivery[d].place
<1> DEFINE p == ClientOf(d)
           limit == partner[p].rateLimit
           new == [delivery[d] EXCEPT !.step = IF limit = 0 THEN "check" ELSE "count",
                                      !.limit = limit,
                                      !.bucket = BucketOf(now),
                                      !.read = IF limit = 0 THEN 0 ELSE now]
<1>1. /\ delivery[d].step = "find" /\ UNCHANGED <<keysVars, now, sent, counter, nonce>>
      /\ delivery[d] \in Handler /\ delivery \in [Delivery -> Handler]
  BY DEF FindPartner, GuardInv, GuardTypeOK
<1>2. CASE Goes(d, "refused")
  <2>1. Moves(d) /\ delivery'[d] = [delivery[d] EXCEPT !.step = "refused", !.read = 0]
    BY <1>1, <1>2, GoesOn DEF InFlight, Waits
  <2> QED BY <1>1, <2>1 DEF Handler
<1>3. CASE partner[p].status = "ACTIVE" /\ isAllowedIp(from, p)
  <2>1. delivery' = [delivery EXCEPT ![d] = new]
    BY <1>1, <1>3 DEF FindPartner, Handler
  <2>2. p \in Partner
    BY <1>1 DEF GuardInv, RequestsAreSigned, CopiesAreSigned, ClientOf, Handler
  <2>3. limit \in Limit \cup {0} /\ now \in 0 .. Horizon /\ BucketOf(now) \in Bucket
    BY <2>2, ClockType DEF GuardInv, GuardTypeOK, KeysTypeOK, Row
  <2>4. new \in Handler
    <3> HIDE DEF limit, p
    <3>1. (IF limit = 0 THEN 0 ELSE now) \in 0 .. Horizon
      BY <2>3, Settings
    <3> DEFINE read == IF limit = 0 THEN 0 ELSE now
    <3> HIDE DEF read
    <3>2. [delivery[d] EXCEPT !.step = IF limit = 0 THEN "check" ELSE "count",
                              !.limit = limit, !.bucket = BucketOf(now), !.read = read] \in Handler
      BY <1>1, <2>3, <3>1 DEF Handler, InFlight, read
    <3> QED BY <3>2 DEF read
  <2>5. delivery'[d] = new /\ \A e \in Delivery \ {d} : delivery'[e] = delivery[e]
    BY <1>1, <2>1
  <2> HIDE DEF p, limit
  <2>6. /\ new.step = IF limit = 0 THEN "check" ELSE "count"
        /\ new.limit = limit /\ new.bucket = BucketOf(now)
        /\ new.read = IF limit = 0 THEN 0 ELSE now
        /\ new.place = delivery[d].place /\ new.request = delivery[d].request
        /\ new.intact = delivery[d].intact /\ new.late = delivery[d].late
    BY <1>1 DEF Handler
  <2>7. delivery' \in [Delivery -> Handler]
    BY <1>1, <2>1, <2>4
  <2> HIDE DEF new
  <2>8. Moves(d)
    BY <1>1, <2>5, <2>6, <2>7 DEF Moves, InFlight
  <2> QED BY <1>1, <2>5, <2>6, <2>8
<1> QED BY <1>2, <1>3 DEF FindPartner

CounterType == [Partner -> [Bucket -> [count : Nat, expires : 0 .. Never]]]

\* No counter but that of client p and minute b changes.
OthersCount(p, b) ==
  \A q \in Partner, c \in Bucket : q # p \/ c # b => counter'[q][c] = counter[q][c]

Cells == [count : Nat, expires : 0 .. Never]

LEMMA SetCell ==
  ASSUME NEW c \in Cells, NEW n \in Nat, NEW x \in 0 .. Never
  PROVE  [c EXCEPT !.count = n, !.expires = x] \in Cells
<1> DEFINE Times == 0 .. Never
<1>1. c \in [count : Nat, expires : Times] /\ x \in Times
  BY DEF Cells
<1> HIDE DEF Times
<1>2. [c EXCEPT !.count = n, !.expires = x] \in [count : Nat, expires : Times]
  BY <1>1
<1> QED BY <1>2 DEF Times, Cells

LEMMA SetCounter ==
  ASSUME counter \in CounterType, NEW p \in Partner, NEW b \in Bucket, NEW cell \in Cells,
         counter' = [counter EXCEPT ![p] = [counter[p] EXCEPT ![b] = cell]]
  PROVE  counter' \in CounterType /\ counter'[p][b] = cell /\ OthersCount(p, b)
<1> DEFINE row == [counter[p] EXCEPT ![b] = cell]
<1>1. counter[p] \in [Bucket -> Cells]
  BY DEF CounterType, Cells
<1>2. row \in [Bucket -> Cells] /\ row[b] = cell /\ \A c \in Bucket \ {b} : row[c] = counter[p][c]
  BY <1>1
<1>3. counter' = [counter EXCEPT ![p] = row]
  OBVIOUS
<1> HIDE DEF row
<1>4. counter' \in CounterType /\ counter'[p] = row
      /\ \A q \in Partner \ {p} : counter'[q] = counter[q]
  BY <1>2, <1>3 DEF CounterType, Cells
<1> QED BY <1>2, <1>4 DEF OthersCount

LEMMA IncrMoves ==
  ASSUME GuardInv, NEW d \in Delivery, Incr(d)
  PROVE  LET p == ClientOf(d)
             b == delivery[d].bucket
             place == Count(p, b) + 1
         IN  /\ Moves(d) /\ nonce' = nonce /\ p \in Partner /\ b \in Bucket /\ place \in Nat
             /\ delivery'[d].step =
                  IF place = 1 THEN "expire" ELSE AfterCount(place, delivery[d].limit)
             /\ delivery'[d].limit = delivery[d].limit /\ delivery'[d].bucket = b
             /\ delivery'[d].place = place
             /\ counter' \in CounterType /\ OthersCount(p, b)
             /\ counter'[p][b].count = place
             /\ counter'[p][b].expires = IF place = 1 THEN Never ELSE counter[p][b].expires
<1> DEFINE p == ClientOf(d)
           b == delivery[d].bucket
           place == Count(p, b) + 1
           step == IF place = 1 THEN "expire" ELSE AfterCount(place, delivery[d].limit)
           new == [delivery[d] EXCEPT !.step = step, !.place = place, !.read = 0]
           expires == IF place = 1 THEN Never ELSE counter[p][b].expires
<1>1. /\ delivery[d].step = "count" /\ UNCHANGED <<keysVars, now, sent, nonce>>
      /\ delivery[d] \in Handler /\ delivery \in [Delivery -> Handler]
      /\ counter \in CounterType
  BY DEF Incr, GuardInv, GuardTypeOK, CounterType
<1>2. p \in Partner /\ b \in Bucket
  BY <1>1 DEF GuardInv, RequestsAreSigned, CopiesAreSigned, ClientOf, Handler
<1>3. place \in Nat
  BY <1>1, <1>2 DEF Count, CounterType
<1>4. step \in {"expire", "check", "limited"}
  BY DEF AfterCount
<1>5. delivery' = [delivery EXCEPT ![d] = new]
  BY <1>1 DEF Incr, Handler
<1>6. counter' = [counter EXCEPT ![p] = [counter[p] EXCEPT ![b] =
                    [counter[p][b] EXCEPT !.count = place, !.expires = expires]]]
  BY <1>1, <1>2 DEF Incr, CounterType
<1> HIDE DEF p, b, place, step
<1>7. new \in Handler
  <2>1. delivery[d] \in Handler /\ 0 \in 0 .. Horizon
        /\ step \in InFlight \cup {"none", "passed", "refused", "limited", "failed"}
    BY <1>1, <1>4, Settings DEF InFlight
  <2> QED BY <2>1, <1>3 DEF Handler
<1>8. /\ new.step = step /\ new.limit = delivery[d].limit /\ new.bucket = delivery[d].bucket
      /\ new.place = place /\ new.request = delivery[d].request
      /\ new.intact = delivery[d].intact /\ new.late = delivery[d].late
  BY <1>1 DEF Handler
<1> HIDE DEF new
<1>9. delivery'[d] = new /\ (\A e \in Delivery \ {d} : delivery'[e] = delivery[e])
      /\ delivery' \in [Delivery -> Handler]
  BY <1>1, <1>5, <1>7
<1>10. Moves(d)
  BY <1>1, <1>4, <1>8, <1>9 DEF Moves, InFlight
<1>11. expires \in 0 .. Never
  BY <1>1, <1>2, Settings DEF CounterType
<1> HIDE DEF expires
<1> DEFINE cell == [counter[p][b] EXCEPT !.count = place, !.expires = expires]
<1>12. counter[p][b] \in Cells /\ cell \in Cells /\ cell.count = place /\ cell.expires = expires
  <2>1. counter[p][b] \in Cells
    BY <1>1, <1>2 DEF CounterType, Cells
  <2>2. cell \in Cells
    BY <1>3, <1>11, <2>1, SetCell
  <2> QED BY <2>1, <2>2 DEF Cells
<1> HIDE DEF cell
<1>13. counter' \in CounterType /\ counter'[p][b] = cell /\ OthersCount(p, b)
  <2>1. counter' = [counter EXCEPT ![p] = [counter[p] EXCEPT ![b] = cell]]
    BY <1>6 DEF cell
  <2> QED BY <1>1, <1>2, <1>12, <2>1, SetCounter
<1>14. counter'[p][b].count = place /\ counter'[p][b].expires = expires
  BY <1>12, <1>13
<1>15. delivery'[d].bucket = b
  BY <1>8, <1>9 DEF b
<1> QED BY <1>1, <1>2, <1>3, <1>8, <1>9, <1>10, <1>12, <1>13, <1>14, <1>15
        DEF p, b, place, step, expires

LEMMA ExpireMoves ==
  ASSUME GuardInv, NEW d \in Delivery, Expire(d)
  PROVE  LET p == ClientOf(d)
             b == delivery[d].bucket
         IN  /\ Moves(d) /\ nonce' = nonce /\ p \in Partner /\ b \in Bucket
             /\ delivery'[d].step = AfterCount(delivery[d].place, delivery[d].limit)
             /\ delivery'[d].limit = delivery[d].limit /\ delivery'[d].bucket = b
             /\ delivery'[d].place = delivery[d].place
             /\ counter' \in CounterType /\ OthersCount(p, b)
             /\ counter'[p][b].count = counter[p][b].count
             /\ counter'[p][b].expires \in {counter[p][b].expires, now + RateTtl * Second}
<1> DEFINE p == ClientOf(d)
           b == delivery[d].bucket
           step == AfterCount(delivery[d].place, delivery[d].limit)
<1>1. /\ delivery[d].step = "expire" /\ UNCHANGED <<keysVars, now, sent, nonce>>
      /\ delivery[d] \in Handler
      /\ counter \in CounterType /\ Goes(d, step)
  BY DEF Expire, GuardInv, GuardTypeOK, CounterType
<1>2. p \in Partner /\ b \in Bucket
  BY <1>1 DEF GuardInv, RequestsAreSigned, CopiesAreSigned, ClientOf, Handler
<1>3. step \in {"check", "limited"} /\ ~Waits(step)
  BY DEF AfterCount, Waits
<1>4. Moves(d) /\ delivery'[d] = [delivery[d] EXCEPT !.step = step, !.read = 0]
  <2> HIDE DEF step
  <2> QED BY <1>1, <1>3, GoesOn DEF InFlight
<1>5. /\ delivery'[d].step = step
      /\ delivery'[d].limit = delivery[d].limit /\ delivery'[d].bucket = b
      /\ delivery'[d].place = delivery[d].place
  BY <1>1, <1>4 DEF Handler
<1>6. /\ counter' \in CounterType /\ OthersCount(p, b)
      /\ counter'[p][b].count = counter[p][b].count
      /\ counter'[p][b].expires \in {counter[p][b].expires, now + RateTtl * Second}
  <2>1. CASE counter' = counter
    BY <2>1, <1>1 DEF OthersCount
  <2>2. CASE counter' = [counter EXCEPT ![p][b].expires = now + RateTtl * Second]
    <3> DEFINE expires == now + RateTtl * Second
    <3>1. expires \in 0 .. Never
      BY ClockType, Settings
    <3>2. counter' = [counter EXCEPT ![p] = [counter[p] EXCEPT ![b] =
                        [counter[p][b] EXCEPT !.expires = expires]]]
      BY <2>2, <1>1, <1>2 DEF CounterType
    <3> DEFINE cell == [counter[p][b] EXCEPT !.expires = expires]
    <3> HIDE DEF expires, p, b
    <3>3. /\ cell \in Cells /\ cell.expires = expires
          /\ cell.count = counter[p][b].count
      <4>1. counter[p][b] \in Cells
        BY <1>1, <1>2 DEF CounterType, Cells
      <4> DEFINE Times == 0 .. Never
      <4>2. counter[p][b] \in [count : Nat, expires : Times] /\ expires \in Times
        BY <3>1, <4>1 DEF Cells
      <4> HIDE DEF Times
      <4>3. cell \in [count : Nat, expires : Times]
        BY <4>2
      <4>4. cell.expires = expires /\ cell.count = counter[p][b].count
        BY <4>2
      <4> QED BY <4>3, <4>4 DEF Times, Cells
    <3> HIDE DEF cell
    <3>4. counter' \in CounterType /\ counter'[p][b] = cell /\ OthersCount(p, b)
      <4>1. counter' = [counter EXCEPT ![p] = [counter[p] EXCEPT ![b] = cell]]
        BY <3>2 DEF cell
      <4> QED BY <1>1, <1>2, <3>3, <4>1, SetCounter
    <3> QED BY <3>3, <3>4 DEF expires
  <2> QED BY <2>1, <2>2 DEF Expire
<1> QED BY <1>1, <1>2, <1>4, <1>5, <1>6

\* The step of a handler that only looks at the clock or the database.
LEMMA TimestampMoves ==
  ASSUME GuardInv, NEW d \in Delivery, CheckTimestamp(d)
  PROVE  /\ delivery[d].step = "check"
         /\ Moves(d) /\ counter' = counter /\ nonce' = nonce
         /\ delivery'[d].limit = delivery[d].limit /\ delivery'[d].bucket = delivery[d].bucket
         /\ delivery'[d].place = delivery[d].place
         /\ \/ delivery'[d].step = "refused"
            \/ /\ delivery'[d].step = "secret" /\ delivery'[d].read = now
               /\ Abs(now \div Second - sent[delivery[d].request].timestamp) <= Skew
<1>1. /\ delivery[d].step = "check" /\ UNCHANGED <<keysVars, now, sent, counter, nonce>>
      /\ delivery[d] \in Handler /\ delivery \in [Delivery -> Handler]
  BY DEF CheckTimestamp, GuardInv, GuardTypeOK
<1>2. CASE Goes(d, "refused")
  <2>1. Moves(d) /\ delivery'[d] = [delivery[d] EXCEPT !.step = "refused", !.read = 0]
    BY <1>1, <1>2, GoesOn DEF InFlight, Waits
  <2> QED BY <1>1, <2>1 DEF Handler
<1>3. CASE ~(Abs(now \div Second - sent[delivery[d].request].timestamp) > Skew)
  <2> DEFINE age == Abs(now \div Second - sent[delivery[d].request].timestamp)
             new == [delivery[d] EXCEPT !.step = "secret", !.read = now]
  <2>1. delivery' = [delivery EXCEPT ![d] = new]
    BY <1>1, <1>3 DEF CheckTimestamp, Handler
  <2>2. new \in Handler
    BY <1>1 DEF Handler, InFlight, GuardInv, GuardTypeOK
  <2>3. /\ new.step = "secret" /\ new.read = now /\ new.limit = delivery[d].limit
        /\ new.bucket = delivery[d].bucket /\ new.place = delivery[d].place
        /\ new.request = delivery[d].request
        /\ new.intact = delivery[d].intact /\ new.late = delivery[d].late
    BY <1>1 DEF Handler
  <2> HIDE DEF new
  <2>4. delivery'[d] = new /\ (\A e \in Delivery \ {d} : delivery'[e] = delivery[e])
        /\ delivery' \in [Delivery -> Handler]
    BY <1>1, <2>1, <2>2
  <2>5. Moves(d)
    BY <1>1, <2>3, <2>4 DEF Moves, InFlight
  <2>6. age <= Skew
    <3>1. sent[delivery[d].request].timestamp \in Nat
      BY <1>1 DEF GuardInv, GuardTypeOK, Handler, Signed
    <3>2. now \div Second \in Nat
      BY ClockType, Settings, Quotient
    <3>3. age \in Int
      BY <3>1, <3>2 DEF Abs
    <3> HIDE DEF age
    <3> QED BY <1>3, <3>3, Settings DEF age
  <2> QED BY <1>1, <2>3, <2>4, <2>5, <2>6
<1> QED BY <1>2, <1>3 DEF CheckTimestamp

LEMMA VerifyMoves ==
  ASSUME GuardInv, NEW d \in Delivery, VerifySignature(d)
  PROVE  /\ delivery[d].step = "secret"
         /\ Moves(d) /\ counter' = counter /\ nonce' = nonce
         /\ delivery'[d].limit = delivery[d].limit /\ delivery'[d].bucket = delivery[d].bucket
         /\ delivery'[d].place = delivery[d].place
         /\ \/ delivery'[d].step = "refused"
            \/ delivery'[d].step = "claim" /\ delivery'[d].read = delivery[d].read /\ Verified(d)
<1> DEFINE step == IF Verified(d) THEN "claim" ELSE "refused"
<1>1. /\ delivery[d].step = "secret" /\ UNCHANGED <<keysVars, now, sent, counter, nonce>>
      /\ delivery[d] \in Handler /\ Goes(d, step)
  BY DEF VerifySignature, GuardInv, GuardTypeOK
<1>2. step \in {"claim", "refused"} /\ (step = "claim" => Verified(d))
  OBVIOUS
<1> HIDE DEF step
<1>3. /\ Moves(d)
      /\ delivery'[d] = [delivery[d] EXCEPT !.step = step, !.read = IF Waits(step) THEN @ ELSE 0]
  BY <1>1, <1>2, GoesOn DEF InFlight
<1>4. /\ delivery'[d].step = step
      /\ step = "claim" => delivery'[d].read = delivery[d].read
      /\ delivery'[d].limit = delivery[d].limit /\ delivery'[d].bucket = delivery[d].bucket
      /\ delivery'[d].place = delivery[d].place
  BY <1>1, <1>2, <1>3 DEF Handler, Waits
<1> QED BY <1>1, <1>2, <1>3, <1>4

LEMMA ClaimMoves ==
  ASSUME GuardInv, NEW d \in Delivery, ClaimNonce(d)
  PROVE  LET r == delivery[d].request
         IN  /\ delivery[d].step = "claim" /\ r \in Request
             /\ Moves(d) /\ counter' = counter
             /\ delivery'[d].limit = delivery[d].limit
             /\ delivery'[d].bucket = delivery[d].bucket
             /\ delivery'[d].place = delivery[d].place
             /\ \/ delivery'[d].step = "refused" /\ nonce' = nonce
                \/ /\ delivery'[d].step = "passed" /\ delivery'[d].read = now /\ IsFresh(r)
                   /\ nonce' = [nonce EXCEPT ![r] = now + NonceTtl * Second]
<1> DEFINE r == delivery[d].request
<1>1. /\ delivery[d].step = "claim" /\ UNCHANGED <<keysVars, now, sent, counter>>
      /\ delivery[d] \in Handler /\ delivery \in [Delivery -> Handler] /\ r \in Request
  BY DEF ClaimNonce, GuardInv, GuardTypeOK, Handler
<1>2. CASE ~IsFresh(r)
  <2>1. Goes(d, "refused") /\ nonce' = nonce
    BY <1>2 DEF ClaimNonce
  <2>2. Moves(d) /\ delivery'[d] = [delivery[d] EXCEPT !.step = "refused", !.read = 0]
    BY <1>1, <2>1, GoesOn DEF InFlight, Waits
  <2> QED BY <1>1, <2>1, <2>2 DEF Handler
<1>3. CASE IsFresh(r)
  <2> DEFINE new == [delivery[d] EXCEPT !.step = "passed", !.read = now]
  <2>1. /\ delivery' = [delivery EXCEPT ![d] = new]
        /\ nonce' = [nonce EXCEPT ![r] = now + NonceTtl * Second]
    BY <1>1, <1>3 DEF ClaimNonce, Handler
  <2>2. new \in Handler
    BY <1>1 DEF Handler, InFlight, GuardInv, GuardTypeOK
  <2>3. /\ new.step = "passed" /\ new.read = now /\ new.limit = delivery[d].limit
        /\ new.bucket = delivery[d].bucket /\ new.place = delivery[d].place
        /\ new.request = delivery[d].request
        /\ new.intact = delivery[d].intact /\ new.late = delivery[d].late
    BY <1>1 DEF Handler
  <2> HIDE DEF new
  <2>4. delivery'[d] = new /\ (\A e \in Delivery \ {d} : delivery'[e] = delivery[e])
        /\ delivery' \in [Delivery -> Handler]
    BY <1>1, <2>1, <2>2
  <2>5. Moves(d)
    BY <1>1, <2>3, <2>4 DEF Moves, InFlight
  <2> QED BY <1>1, <1>3, <2>1, <2>3, <2>4, <2>5
<1> QED BY <1>2, <1>3

LEMMA FailMoves ==
  ASSUME GuardInv, NEW d \in Delivery, HandlerFails(d)
  PROVE  /\ Moves(d) /\ counter' = counter /\ nonce' = nonce
         /\ delivery'[d].step = "failed"
         /\ delivery'[d].limit = delivery[d].limit /\ delivery'[d].bucket = delivery[d].bucket
         /\ delivery'[d].place = delivery[d].place
<1>1. /\ delivery[d].step \in InFlight /\ UNCHANGED <<keysVars, now, sent, counter, nonce>>
      /\ delivery[d] \in Handler /\ Goes(d, "failed")
  BY DEF HandlerFails, GuardInv, GuardTypeOK
<1>2. Moves(d) /\ delivery'[d] = [delivery[d] EXCEPT !.step = "failed", !.read = 0]
  BY <1>1, GoesOn DEF Waits
<1> QED BY <1>1, <1>2 DEF Handler

\* A copy of request r comes in.
ComesIn(d, r) ==
  /\ delivery[d].step = "none" /\ IsSigned(r)
  /\ delivery' \in [Delivery -> Handler]
  /\ \A e \in Delivery \ {d} : delivery'[e] = delivery[e]
  /\ delivery'[d].step \in {"find", "refused"} /\ delivery'[d].request = r
  /\ delivery'[d].late =
       IF delivery'[d].step = "find" THEN RotatedOut(sent[r].key) ELSE delivery[d].late
  /\ delivery'[d].place = delivery[d].place
  /\ UNCHANGED <<keysVars, now, sent, counter, nonce>>

LEMMA ArriveMoves ==
  ASSUME GuardInv, NEW d \in Delivery, NEW r \in Request, Arrive(d, r) \/ ArriveMalformed(d, r)
  PROVE  ComesIn(d, r)
<1>1. /\ delivery[d].step = "none" /\ IsSigned(r)
      /\ UNCHANGED <<keysVars, now, sent, counter, nonce>>
      /\ delivery[d] \in Handler /\ delivery \in [Delivery -> Handler]
  BY DEF Arrive, ArriveMalformed, GuardInv, GuardTypeOK
<1>2. CASE Arrive(d, r)
  <2> DEFINE out == RotatedOut(sent[r].key)
  <2>1. out \in BOOLEAN
    BY DEF RotatedOut
  <2>2. PICK intact \in BOOLEAN :
          delivery' = [delivery EXCEPT ![d].step = "find", ![d].request = r,
                                       ![d].intact = intact, ![d].late = out]
    BY <1>2 DEF Arrive
  <2> HIDE DEF out
  <2> DEFINE new == [delivery[d] EXCEPT !.step = "find", !.request = r, !.intact = intact,
                                        !.late = out]
  <2>3. delivery' = [delivery EXCEPT ![d] = new]
    BY <1>1, <2>2 DEF Handler
  <2>4. new \in Handler
    BY <1>1, <2>1 DEF Handler, InFlight
  <2>5. new.step = "find" /\ new.request = r /\ new.late = out /\ new.place = delivery[d].place
    BY <1>1 DEF Handler
  <2> HIDE DEF new
  <2>6. /\ delivery' \in [Delivery -> Handler] /\ delivery'[d] = new
        /\ \A e \in Delivery \ {d} : delivery'[e] = delivery[e]
    BY <1>1, <2>3, <2>4
  <2> QED BY <1>1, <2>5, <2>6 DEF ComesIn, out
<1>3. CASE ArriveMalformed(d, r)
  <2> DEFINE new == [delivery[d] EXCEPT !.step = "refused", !.request = r]
  <2>1. delivery' = [delivery EXCEPT ![d] = new]
    BY <1>1, <1>3 DEF ArriveMalformed, Handler
  <2>2. new \in Handler
    BY <1>1 DEF Handler
  <2>3. /\ new.step = "refused" /\ new.request = r /\ new.late = delivery[d].late
        /\ new.place = delivery[d].place
    BY <1>1 DEF Handler
  <2> HIDE DEF new
  <2>4. /\ delivery' \in [Delivery -> Handler] /\ delivery'[d] = new
        /\ \A e \in Delivery \ {d} : delivery'[e] = delivery[e]
    BY <1>1, <2>1, <2>2
  <2> QED BY <1>1, <2>3, <2>4 DEF ComesIn
<1> QED BY <1>2, <1>3

LEMMA SignMoves ==
  ASSUME KeysInv, GuardInv, NEW r \in Request, NEW k \in Key, Sign(r, k)
  PROVE  /\ ~IsSigned(r) /\ UNCHANGED <<keysVars, now, delivery, counter, nonce>>
         /\ sent' \in [Request -> Signed \cup {[key |-> NoKey, client |-> NoPartner, timestamp |-> 0]}]
         /\ \A s \in Request \ {r} : sent'[s] = sent[s]
         /\ sent'[r].key = k /\ secret[k].status # "absent"
         /\ sent'[r].client \in Partner /\ sent'[r].timestamp * Second <= now + Ahead
<1>1. PICK ts \in 0 .. (now + Ahead) \div Second :
        sent' = [sent EXCEPT ![r] = [key |-> k, client |-> secret[k].owner, timestamp |-> ts]]
  BY DEF Sign
<1>2. ~IsSigned(r) /\ UNCHANGED <<keysVars, now, delivery, counter, nonce>>
      /\ secret[k].status # "absent"
  BY DEF Sign
<1>3. secret[k].owner \in Partner
  BY <1>2 DEF KeysInv, KeysTypeOK, KeysAreOwned, Secret
<1>4. ts \in Nat /\ ts * Second <= now + Ahead
  <2> DEFINE q == (now + Ahead) \div Second
  <2>1. now + Ahead \in Nat /\ Second \in Nat \ {0}
    BY ClockType, Settings
  <2>2. q \in Nat /\ q * Second <= now + Ahead
    BY <2>1, Quotient
  <2>3. ts \in 0 .. q
    OBVIOUS
  <2> HIDE DEF q
  <2>4. ts \in Nat /\ ts <= q
    BY <2>2, <2>3
  <2>5. ts * Second <= q * Second
    BY <2>1, <2>2, <2>4, Scaled
  <2>6. ts * Second \in Int /\ q * Second \in Int
    BY <2>1, <2>2, <2>4
  <2> QED BY <2>1, <2>2, <2>4, <2>5, <2>6
<1> QED BY <1>1, <1>2, <1>3, <1>4 DEF GuardInv, GuardTypeOK, Signed

LEMMA TickMoves ==
  ASSUME GuardInv, Tick
  PROVE  /\ now' = now + 1 /\ now' <= Horizon
         /\ UNCHANGED <<keysVars, sent, delivery, counter, nonce>>
         /\ \A d \in Delivery : Waits(delivery[d].step) => now' <= delivery[d].read + Stall
<1>1. /\ now < Horizon /\ now' = now + 1 /\ UNCHANGED <<keysVars, sent, delivery, counter, nonce>>
      /\ \A d \in Delivery : Waits(delivery[d].step) => now < delivery[d].read + Stall
  BY DEF Tick
<1>2. \A d \in Delivery : delivery[d].read \in Nat
  BY Settings DEF GuardInv, GuardTypeOK, Handler
<1> QED BY <1>1, <1>2, ClockType, Settings

-----------------------------------------------------------------------------
(* Every step is one of a few kinds, which the invariants below go by. *)

HandlerSteps(d) ==
  \/ \E from \in SUBSET Ip : FindPartner(d, from)
  \/ Incr(d) \/ Expire(d) \/ CheckTimestamp(d) \/ VerifySignature(d) \/ ClaimNonce(d)
  \/ HandlerFails(d)

LEMMA Kinds ==
  ASSUME KeysInv, GuardInv, [Next]_partnerVars
  PROVE  \/ [KeysNext]_keysVars /\ UNCHANGED guardVars
         \/ \E r \in Request, k \in Key : Sign(r, k)
         \/ \E d \in Delivery, r \in Request : ComesIn(d, r)
         \/ \E d \in Delivery : HandlerSteps(d)
         \/ Tick
  BY ArriveMoves DEF Next, HandlerSteps, partnerVars

LEMMA StepsMove ==
  ASSUME GuardInv, NEW d \in Delivery, HandlerSteps(d)
  PROVE  Moves(d)
  BY FindMoves, IncrMoves, ExpireMoves, TimestampMoves, VerifyMoves, ClaimMoves, FailMoves
     DEF HandlerSteps

LEMMA KeysStepInv == KeysInv /\ GuardInv /\ [Next]_partnerVars => KeysInv' /\ KeysStay
<1> SUFFICES ASSUME KeysInv, GuardInv, [Next]_partnerVars  PROVE [KeysNext]_keysVars
  BY KeysNextInv
<1>1. CASE \E r \in Request, k \in Key : Sign(r, k)
  BY <1>1 DEF Sign
<1>2. CASE \E d \in Delivery, r \in Request : ComesIn(d, r)
  BY <1>2 DEF ComesIn
<1>3. CASE \E d \in Delivery : HandlerSteps(d)
  BY <1>3, StepsMove DEF Moves
<1>4. CASE Tick
  BY <1>4 DEF Tick
<1> QED BY <1>1, <1>2, <1>3, <1>4, Kinds

\* Counters and nonces keep their types.
LEMMA StoresType ==
  ASSUME GuardInv, NEW d \in Delivery, HandlerSteps(d)
  PROVE  counter' \in CounterType /\ nonce' \in [Request -> Nat]
<1>1. counter \in CounterType /\ nonce \in [Request -> Nat]
  BY DEF GuardInv, GuardTypeOK, CounterType
<1>2. now + NonceTtl * Second \in Nat
  BY ClockType, Settings
<1>3. CASE ClaimNonce(d)
  BY <1>1, <1>2, <1>3, ClaimMoves
<1>4. CASE Incr(d)
  BY <1>1, <1>4, IncrMoves
<1>5. CASE Expire(d)
  BY <1>1, <1>5, ExpireMoves
<1>6. CASE (\E from \in SUBSET Ip : FindPartner(d, from)) \/ CheckTimestamp(d)
           \/ VerifySignature(d) \/ HandlerFails(d)
  BY <1>1, <1>6, FindMoves, TimestampMoves, VerifyMoves, FailMoves
<1> QED BY <1>3, <1>4, <1>5, <1>6 DEF HandlerSteps

LEMMA GuardNextInv == KeysInv /\ GuardInv /\ [Next]_partnerVars => GuardInv'
<1> SUFFICES ASSUME KeysInv, GuardInv, [Next]_partnerVars  PROVE GuardInv'
  OBVIOUS
<1>1. KeysTypeOK' /\ KeysStay
  BY KeysStepInv DEF KeysInv
<1>2. CASE [KeysNext]_keysVars /\ UNCHANGED guardVars
  <2>1. GuardTypeOK'
    BY <1>1, <1>2 DEF guardVars, GuardInv, GuardTypeOK
  <2>2. RequestsAreSigned'
    BY <1>1, <1>2 DEF guardVars, GuardInv, RequestsAreSigned, IsSigned, KeysStay
  <2>3. CopiesAreSigned'
    BY <1>2 DEF guardVars, GuardInv, CopiesAreSigned, IsSigned
  <2> QED BY <2>1, <2>2, <2>3 DEF GuardInv
<1>3. ASSUME NEW r \in Request, NEW k \in Key, Sign(r, k)  PROVE GuardInv'
  <2>1. /\ ~IsSigned(r) /\ UNCHANGED <<keysVars, now, delivery, counter, nonce>>
        /\ sent' \in [Request -> Signed \cup {[key |-> NoKey, client |-> NoPartner, timestamp |-> 0]}]
        /\ \A s \in Request \ {r} : sent'[s] = sent[s]
        /\ sent'[r].key = k /\ secret[k].status # "absent"
        /\ sent'[r].client \in Partner /\ sent'[r].timestamp * Second <= now + Ahead
    BY <1>3, SignMoves
  <2>2. GuardTypeOK'
    BY <1>1, <2>1 DEF GuardInv, GuardTypeOK
  <2>3. RequestsAreSigned'
    BY <2>1 DEF GuardInv, RequestsAreSigned, IsSigned, keysVars
  <2>4. CopiesAreSigned'
    BY <2>1, KeysAssumption DEF GuardInv, GuardTypeOK, CopiesAreSigned, IsSigned, Handler
  <2> QED BY <2>2, <2>3, <2>4 DEF GuardInv
<1>4. ASSUME NEW d \in Delivery, NEW r \in Request, ComesIn(d, r)  PROVE GuardInv'
  <2>1. GuardTypeOK'
    BY <1>1, <1>4 DEF ComesIn, GuardInv, GuardTypeOK
  <2>2. RequestsAreSigned'
    BY <1>4 DEF ComesIn, GuardInv, RequestsAreSigned, IsSigned, keysVars
  <2>3. CopiesAreSigned'
    BY <1>4 DEF ComesIn, GuardInv, CopiesAreSigned, IsSigned
  <2> QED BY <2>1, <2>2, <2>3 DEF GuardInv
<1>5. ASSUME NEW d \in Delivery, HandlerSteps(d)  PROVE GuardInv'
  <2>1. Moves(d) /\ counter' \in CounterType /\ nonce' \in [Request -> Nat]
    BY <1>5, StepsMove, StoresType
  <2>2. GuardTypeOK'
    BY <1>1, <2>1 DEF Moves, GuardInv, GuardTypeOK, CounterType
  <2>3. RequestsAreSigned'
    BY <2>1 DEF Moves, GuardInv, RequestsAreSigned, IsSigned, keysVars
  <2>4. CopiesAreSigned'
    BY <2>1 DEF Moves, GuardInv, CopiesAreSigned, IsSigned, InFlight
  <2> QED BY <2>2, <2>3, <2>4 DEF GuardInv
<1>6. CASE Tick
  <2>1. /\ now' = now + 1 /\ now' <= Horizon
        /\ UNCHANGED <<keysVars, sent, delivery, counter, nonce>>
    BY <1>6, TickMoves
  <2>2. GuardTypeOK'
    BY <1>1, <2>1, Settings, ClockType DEF GuardInv, GuardTypeOK
  <2>3. RequestsAreSigned'
    <3> SUFFICES ASSUME NEW s \in Request, IsSigned(s)'
                 PROVE  /\ sent[s].key \in Key /\ sent[s].client \in Partner
                        /\ secret'[sent[s].key].status # "absent"
                        /\ sent[s].timestamp * Second <= now' + Ahead
      BY <2>1 DEF RequestsAreSigned
    <3>1. IsSigned(s) /\ sent[s].timestamp * Second <= now + Ahead
      BY <2>1 DEF GuardInv, RequestsAreSigned, IsSigned
    <3>2. sent[s].timestamp * Second \in Int
      <4>1. sent[s].timestamp \in Nat
        BY DEF GuardInv, GuardTypeOK, Signed
      <4> QED BY <4>1, Settings
    <3> QED BY <2>1, <3>1, <3>2, ClockType, Settings DEF GuardInv, RequestsAreSigned, keysVars
  <2>4. CopiesAreSigned'
    BY <2>1 DEF GuardInv, CopiesAreSigned, IsSigned
  <2> QED BY <2>2, <2>3, <2>4 DEF GuardInv
<1> QED BY <1>2, <1>3, <1>4, <1>5, <1>6, Kinds

LEMMA InitInv == Init => KeysInv /\ GuardInv
<1> SUFFICES ASSUME Init  PROVE KeysInv /\ GuardInv
  OBVIOUS
<1>1. KeysInv
  BY KeysInitInv DEF Init
<1> USE DEF Init, GuardInit
<1>2. 0 \in Bucket
  <2> DEFINE b == Horizon \div Minute
  <2>1. Horizon \in Nat /\ Minute \in Nat \ {0}
    BY Settings
  <2>2. b \in Nat
    BY <2>1, Quotient
  <2> HIDE DEF b
  <2>3. 0 \in 0 .. b
    BY <2>2
  <2> QED BY <2>3 DEF b, Bucket
<1>3. delivery \in [Delivery -> Handler]
  <2>1. 0 \in 0 .. Horizon
    BY Settings
  <2> DEFINE Times == 0 .. Horizon
  <2> HIDE DEF Times
  <2>2. 0 \in Times
    BY <2>1 DEF Times
  <2> DEFINE Steps == InFlight \cup {"none", "passed", "refused", "limited", "failed"}
  <2> HIDE DEF Steps
  <2>3. "none" \in Steps
    BY DEF Steps
  <2>4. \A r \in Request :
          [step |-> "none", request |-> r, intact |-> TRUE, limit |-> 0, bucket |-> 0,
           place |-> 0, read |-> 0, late |-> FALSE]
            \in [step : Steps, request : Request, intact : BOOLEAN, limit : Limit \cup {0},
                 bucket : Bucket, place : Nat, read : Times, late : BOOLEAN]
    BY <1>2, <2>2, <2>3
  <2>5. \A r \in Request :
          [step |-> "none", request |-> r, intact |-> TRUE, limit |-> 0, bucket |-> 0,
           place |-> 0, read |-> 0, late |-> FALSE] \in Handler
    BY <2>4 DEF Times, Steps, Handler
  <2> QED BY <2>5
<1>4. now \in 0 .. Horizon /\ nonce \in [Request -> Nat]
  BY Settings
<1>5. counter \in [Partner -> [Bucket -> [count : Nat, expires : 0 .. Never]]]
  <2> DEFINE Times == 0 .. Never
  <2>1. Never \in Times
    BY Settings
  <2> HIDE DEF Times
  <2>2. counter \in [Partner -> [Bucket -> [count : Nat, expires : Times]]]
    BY <2>1
  <2> QED BY <2>2 DEF Times
<1>6. GuardTypeOK
  BY <1>1, <1>3, <1>4, <1>5 DEF GuardTypeOK, KeysInv
<1>7. RequestsAreSigned /\ CopiesAreSigned
  BY DEF RequestsAreSigned, CopiesAreSigned, IsSigned
<1> QED BY <1>1, <1>6, <1>7 DEF GuardInv

LEMMA Types == Spec => [](KeysInv /\ GuardInv)
<1>1. KeysInv /\ GuardInv /\ [Next]_partnerVars => (KeysInv /\ GuardInv)'
  BY KeysStepInv, GuardNextInv
<1> QED BY <1>1, InitInv, PTL DEF Spec

\* The guard, its stores and the tables it reads keep their types.
THEOREM GuardTypeCorrect == Spec => []GuardTypeOK
<1>1. GuardInv => GuardTypeOK
  BY DEF GuardInv
<1> QED BY <1>1, Types, PTL

\* Whatever rotations interleave and fail halfway, a partner keeps a key it can sign
\* with unless two revoking rotations of it overlapped.
THEOREM KeyIsKept == Spec => []KeepsAKey
<1>1. KeysInv => KeepsAKey
  BY DEF KeysInv
<1> QED BY <1>1, Types, PTL

-----------------------------------------------------------------------------
(* Signatures. *)

\* A copy that came after its key was rotated out meets a revoked key for good.
LateIsRevoked ==
  \A d \in Delivery : delivery[d].late =>
    delivery[d].step # "none" /\ secret[KeyOf(d)].status = "REVOKED"

ClaimsAreSound ==
  \A d \in Delivery : delivery[d].step \in {"claim", "passed"} =>
    ~delivery[d].late /\ delivery[d].intact

SignedInv == LateIsRevoked /\ ClaimsAreSound /\ NonceNeedsSignature

\* The steps of a handler that matter to nonces.
LEMMA NonceKinds ==
  ASSUME GuardInv, NEW d \in Delivery, HandlerSteps(d)
  PROVE  LET r == delivery[d].request
         IN  \/ /\ delivery[d].step = "claim" /\ delivery'[d].step = "passed"
                /\ delivery'[d].read = now /\ IsFresh(r)
                /\ nonce' = [nonce EXCEPT ![r] = now + NonceTtl * Second]
             \/ /\ delivery[d].step = "secret" /\ delivery'[d].step = "claim" /\ Verified(d)
                /\ delivery'[d].read = delivery[d].read /\ nonce' = nonce
             \/ /\ delivery[d].step = "check" /\ delivery'[d].step = "secret"
                /\ delivery'[d].read = now /\ nonce' = nonce
                /\ Abs(now \div Second - sent[r].timestamp) <= Skew
             \/ delivery'[d].step \notin {"secret", "claim", "passed"} /\ nonce' = nonce
<1>1. CASE \E from \in SUBSET Ip : FindPartner(d, from)
  BY <1>1, FindMoves
<1>2. CASE Incr(d)
  BY <1>2, IncrMoves DEF AfterCount
<1>3. CASE Expire(d)
  BY <1>3, ExpireMoves DEF AfterCount
<1>4. CASE CheckTimestamp(d)
  BY <1>4, TimestampMoves
<1>5. CASE VerifySignature(d)
  BY <1>5, VerifyMoves
<1>6. CASE ClaimNonce(d)
  BY <1>6, ClaimMoves
<1>7. CASE HandlerFails(d)
  BY <1>7, FailMoves
<1> QED BY <1>1, <1>2, <1>3, <1>4, <1>5, <1>6, <1>7 DEF HandlerSteps

\* What was signed stays as it was signed.
LEMMA SignedStays ==
  ASSUME KeysInv, GuardInv, [Next]_partnerVars, NEW r \in Request, IsSigned(r)
  PROVE  sent'[r] = sent[r]
<1>1. CASE [KeysNext]_keysVars /\ UNCHANGED guardVars
  BY <1>1 DEF guardVars
<1>2. CASE \E s \in Request, k \in Key : Sign(s, k)
  BY <1>2, SignMoves
<1>3. CASE \E d \in Delivery, s \in Request : ComesIn(d, s)
  BY <1>3 DEF ComesIn
<1>4. CASE \E d \in Delivery : HandlerSteps(d)
  BY <1>4, StepsMove DEF Moves
<1>5. CASE Tick
  BY <1>5 DEF Tick
<1> QED BY <1>1, <1>2, <1>3, <1>4, <1>5, Kinds

LEMMA LateNext ==
  ASSUME KeysInv, GuardInv, LateIsRevoked, [Next]_partnerVars  PROVE LateIsRevoked'
<1> SUFFICES ASSUME NEW d \in Delivery, delivery'[d].late
             PROVE  delivery'[d].step # "none" /\ secret'[sent'[delivery'[d].request].key].status = "REVOKED"
  BY DEF LateIsRevoked, KeyOf
<1>1. KeysStay
  BY KeysStepInv
<1>2. ASSUME delivery[d].late, delivery'[d].request = delivery[d].request, delivery'[d].step # "none"
      PROVE  secret'[sent'[delivery'[d].request].key].status = "REVOKED"
  <2> DEFINE r == delivery[d].request
  <2>1. r \in Request /\ IsSigned(r) /\ secret[sent[r].key].status = "REVOKED"
    BY <1>2 DEF LateIsRevoked, KeyOf, GuardInv, GuardTypeOK, Handler, CopiesAreSigned
  <2>2. sent[r].key \in Key
    BY <2>1 DEF GuardInv, RequestsAreSigned
  <2>3. secret'[sent[r].key].status = "REVOKED"
    BY <1>1, <2>1, <2>2 DEF KeysStay
  <2>4. sent'[r] = sent[r]
    BY <2>1, SignedStays
  <2> QED BY <1>2, <2>3, <2>4
<1>3. CASE delivery' = delivery
  BY <1>2, <1>3 DEF LateIsRevoked
<1>4. ASSUME NEW e \in Delivery, NEW r \in Request, ComesIn(e, r)
      PROVE  delivery'[d].step # "none" /\ secret'[sent'[delivery'[d].request].key].status = "REVOKED"
  <2>1. CASE d # e
    BY <1>2, <1>4, <2>1 DEF LateIsRevoked, ComesIn
  <2>2. CASE d = e
    <3>1. ~delivery[d].late
      BY <1>4, <2>2 DEF LateIsRevoked, ComesIn
    <3>2. delivery'[d].step = "find" /\ RotatedOut(sent[r].key)
          /\ delivery'[d].request = r /\ sent' = sent /\ secret' = secret
      BY <1>4, <2>2, <3>1 DEF ComesIn, keysVars
    <3>3. secret[sent[r].key].status = "REVOKED"
      BY <3>2 DEF RotatedOut, KeysInv, OlderIsRevoked
    <3> QED BY <3>2, <3>3
  <2> QED BY <2>1, <2>2
<1>5. ASSUME NEW e \in Delivery, HandlerSteps(e)
      PROVE  delivery'[d].step # "none" /\ secret'[sent'[delivery'[d].request].key].status = "REVOKED"
  <2>1. Moves(e)
    BY <1>5, StepsMove
  <2>2. delivery[d].late /\ delivery'[d].request = delivery[d].request
    BY <2>1 DEF Moves
  <2>3. delivery'[d].step # "none"
    BY <2>1, <2>2 DEF Moves, LateIsRevoked
  <2> QED BY <1>2, <2>2, <2>3
<1>6. CASE \E r \in Request, k \in Key : Sign(r, k)
  BY <1>3, <1>6 DEF Sign
<1>7. CASE ([KeysNext]_keysVars /\ UNCHANGED guardVars) \/ Tick
  BY <1>3, <1>7 DEF guardVars, Tick
<1> QED BY <1>4, <1>5, <1>6, <1>7, Kinds

LEMMA SignedNext ==
  ASSUME KeysInv, GuardInv, SignedInv, [Next]_partnerVars  PROVE SignedInv'
<1>1. LateIsRevoked'
  BY LateNext DEF SignedInv
<1>2. CASE delivery' = delivery /\ nonce' = nonce
  <2>1. ClaimsAreSound'
    BY <1>2 DEF SignedInv, ClaimsAreSound
  <2>2. NonceNeedsSignature'
    BY <1>2 DEF SignedInv, NonceNeedsSignature, Passed
  <2> QED BY <1>1, <2>1, <2>2 DEF SignedInv
<1>3. ASSUME NEW d \in Delivery, NEW r \in Request, ComesIn(d, r)  PROVE SignedInv'
  <2>1. ClaimsAreSound'
    BY <1>3 DEF SignedInv, ClaimsAreSound, ComesIn
  <2>2. NonceNeedsSignature'
    <3> SUFFICES ASSUME NEW s \in Request, nonce'[s] # 0
                 PROVE  \E e \in Delivery : delivery'[e].step = "passed"
                                            /\ delivery'[e].request = s /\ delivery'[e].intact
      BY DEF NonceNeedsSignature, Passed
    <3>1. PICK e \in Delivery : delivery[e].step = "passed" /\ delivery[e].request = s
                                /\ delivery[e].intact
      BY <1>3 DEF SignedInv, NonceNeedsSignature, Passed, ComesIn
    <3>2. delivery'[e] = delivery[e]
      BY <1>3, <3>1 DEF ComesIn
    <3> QED BY <3>1, <3>2
  <2> QED BY <1>1, <2>1, <2>2 DEF SignedInv
<1>4. ASSUME NEW d \in Delivery, HandlerSteps(d)  PROVE SignedInv'
  <2> DEFINE r == delivery[d].request
  <2>1. Moves(d)
    BY <1>4, StepsMove
  <2>2. delivery'[d].step \in {"claim", "passed"} => ~delivery'[d].late /\ delivery'[d].intact
    <3>1. delivery'[d].late = delivery[d].late /\ delivery'[d].intact = delivery[d].intact
      BY <2>1 DEF Moves
    <3>2. CASE delivery[d].step = "claim"
      BY <3>1, <3>2 DEF SignedInv, ClaimsAreSound
    <3>3. CASE Verified(d)
      <4>1. secret[KeyOf(d)].status = "ACTIVE" /\ delivery[d].intact
        BY <3>3 DEF Verified, ActiveKeys
      <4>2. delivery[d].late \in BOOLEAN
        BY DEF GuardInv, GuardTypeOK, Handler
      <4> QED BY <3>1, <4>1, <4>2 DEF SignedInv, LateIsRevoked
    <3> QED BY <1>4, <3>2, <3>3, NonceKinds
  <2>3. ClaimsAreSound'
    BY <2>1, <2>2 DEF SignedInv, ClaimsAreSound, Moves
  <2>4. NonceNeedsSignature'
    <3> SUFFICES ASSUME NEW s \in Request, nonce'[s] # 0
                 PROVE  \E e \in Delivery : delivery'[e].step = "passed"
                                            /\ delivery'[e].request = s /\ delivery'[e].intact
      BY DEF NonceNeedsSignature, Passed
    <3>1. CASE nonce[s] # 0
      <4>1. PICK e \in Delivery : delivery[e].step = "passed" /\ delivery[e].request = s
                                  /\ delivery[e].intact
        BY <3>1 DEF SignedInv, NonceNeedsSignature, Passed
      <4>2. delivery'[e] = delivery[e]
        BY <2>1, <4>1 DEF Moves, InFlight
      <4> QED BY <4>1, <4>2
    <3>2. CASE nonce[s] = 0
      <4>1. nonce \in [Request -> Nat]
        BY DEF GuardInv, GuardTypeOK
      <4>2. delivery'[d].step = "passed" /\ s = r
        BY <1>4, <3>2, <4>1, NonceKinds
      <4> QED BY <2>1, <2>2, <4>2 DEF Moves
    <3> QED BY <3>1, <3>2
  <2> QED BY <1>1, <2>3, <2>4 DEF SignedInv
<1>5. CASE \E r \in Request, k \in Key : Sign(r, k)
  BY <1>2, <1>5 DEF Sign
<1>6. CASE ([KeysNext]_keysVars /\ UNCHANGED guardVars) \/ Tick
  BY <1>2, <1>6 DEF guardVars, Tick
<1> QED BY <1>3, <1>4, <1>5, <1>6, Kinds

LEMMA Signatures == Spec => []SignedInv
<1>1. Init => SignedInv
  BY DEF Init, GuardInit, SignedInv, LateIsRevoked, ClaimsAreSound, NonceNeedsSignature
<1>2. KeysInv /\ GuardInv /\ SignedInv /\ [Next]_partnerVars => SignedInv'
  BY SignedNext
<1> QED BY <1>1, <1>2, Types, PTL DEF Spec

\* A request that arrives after the rotation that took its key away was answered is
\* not let in.
THEOREM RotatedOutIsStopped == Spec => []RotatedOutStops
<1>1. SignedInv => RotatedOutStops
  BY DEF SignedInv, ClaimsAreSound, RotatedOutStops, Passed
<1> QED BY <1>1, Signatures, PTL

\* Only a copy whose content is what was signed uses up the nonce of its request.
THEOREM MangledCopiesLeaveTheNonce == Spec => []NonceNeedsSignature
<1>1. SignedInv => NonceNeedsSignature
  BY DEF SignedInv
<1> QED BY <1>1, Signatures, PTL

-----------------------------------------------------------------------------
(* Nonces. *)

\* The first moment at which the timestamp of request r is out of date.
End(r) == (sent[r].timestamp + Skew + 1) * Second

\* A copy that has passed leaves a nonce for as long as the settings say.
PassedLeavesNonce ==
  \A d \in Delivery : Passed(d) =>
    /\ nonce[delivery[d].request] >= delivery[d].read + NonceTtl * Second
    /\ delivery[d].read <= now

ReadInTime ==
  \A d \in Delivery : delivery[d].step \in {"secret", "claim"} =>
    /\ delivery[d].read < End(delivery[d].request)
    /\ delivery[d].read <= now /\ now <= delivery[d].read + Stall

\* A copy passes while its timestamp is good, or a little later.
PassedInTime ==
  \A d \in Delivery : Passed(d) =>
    /\ sent[delivery[d].request].timestamp * Second <= delivery[d].read + Ahead
    /\ delivery[d].read < End(delivery[d].request) + Stall

NonceInv == PassedLeavesNonce /\ ReadInTime /\ PassedInTime /\ PassesAreApart

LEMMA EndType ==
  ASSUME GuardInv, NEW r \in Request
  PROVE  End(r) \in Nat /\ End(r) = sent[r].timestamp * Second + (Skew + 1) * Second
         /\ sent[r].timestamp \in Nat /\ sent[r].timestamp * Second \in Nat
<1>1. sent[r].timestamp \in Nat
  BY DEF GuardInv, GuardTypeOK, Signed
<1>2. \A x, y, z \in Nat :
        /\ (x + y + 1) * z = x * z + (y + 1) * z
        /\ x * z \in Nat /\ (x + y + 1) * z \in Nat
  OBVIOUS
<1> QED BY <1>1, <1>2, Settings DEF End

\* A timestamp is found good only before its end.
LEMMA GoodBeforeEnd ==
  ASSUME GuardInv, NEW r \in Request, Abs(now \div Second - sent[r].timestamp) <= Skew
  PROVE  now < End(r)
<1> DEFINE q == now \div Second
           ts == sent[r].timestamp
<1>1. ts \in Nat /\ now \in Nat /\ Second \in Nat \ {0} /\ Skew \in Nat
  BY EndType, ClockType, Settings
<1>2. q \in Nat /\ now < q * Second + Second
  BY <1>1, Quotient
<1>3. Abs(q - ts) <= Skew
  OBVIOUS
<1> HIDE DEF q, ts
<1>4. q - ts <= Skew
  BY <1>1, <1>2, <1>3 DEF Abs
<1>5. q + 1 <= ts + Skew + 1
  BY <1>1, <1>2, <1>4
<1>6. (q + 1) * Second <= (ts + Skew + 1) * Second
  BY <1>1, <1>2, <1>5, Scaled
<1>7. (q + 1) * Second = q * Second + Second /\ q * Second \in Nat /\ (ts + Skew + 1) * Second \in Nat
  <2>1. \A x, y \in Nat : (x + 1) * y = x * y + y /\ x * y \in Nat
    OBVIOUS
  <2> QED BY <1>1, <1>2, <2>1
<1>8. now < (ts + Skew + 1) * Second
  BY <1>1, <1>2, <1>6, <1>7
<1> QED BY <1>8 DEF End, ts

LEMMA NonceNext ==
  ASSUME KeysInv, GuardInv, NonceInv, [Next]_partnerVars  PROVE NonceInv'
<1>1. \A r \in Request : IsSigned(r) => sent'[r] = sent[r] /\ End(r)' = End(r)
  BY SignedStays DEF End
<1>2. \A d \in Delivery : delivery[d].step # "none" =>
        delivery[d].request \in Request /\ IsSigned(delivery[d].request)
  BY DEF GuardInv, GuardTypeOK, Handler, CopiesAreSigned
<1>3. CASE delivery' = delivery /\ nonce' = nonce /\ now' = now
  BY <1>1, <1>2, <1>3
     DEF NonceInv, ReadInTime, PassedLeavesNonce, PassedInTime, PassesAreApart, Passed
<1>4. ASSUME NEW d \in Delivery, NEW r \in Request, ComesIn(d, r)  PROVE NonceInv'
  <2>1. /\ nonce' = nonce /\ now' = now /\ sent' = sent
        /\ delivery'[d].step \in {"find", "refused"}
        /\ \A e \in Delivery \ {d} : delivery'[e] = delivery[e]
    BY <1>4 DEF ComesIn
  <2> QED BY <2>1
     DEF NonceInv, ReadInTime, PassedLeavesNonce, PassedInTime, PassesAreApart, Passed, End
<1>5. ASSUME NEW d \in Delivery, HandlerSteps(d)  PROVE NonceInv'
  <2> DEFINE r == delivery[d].request
  <2>1. /\ delivery[d].step \in InFlight /\ delivery'[d].request = r
        /\ \A e \in Delivery \ {d} : delivery'[e] = delivery[e]
        /\ now' = now /\ sent' = sent /\ r \in Request /\ IsSigned(r)
    BY <1>2, <1>5, StepsMove DEF Moves, InFlight
  <2>2. CASE delivery'[d].step = "passed"
    <3>1. /\ delivery[d].step = "claim" /\ delivery'[d].read = now /\ IsFresh(r)
          /\ nonce' = [nonce EXCEPT ![r] = now + NonceTtl * Second]
      BY <1>5, <2>2, NonceKinds
    <3>2. nonce \in [Request -> Nat] /\ now \in Nat /\ NonceTtl * Second \in Nat
      BY ClockType, Settings DEF GuardInv, GuardTypeOK
    <3>3. /\ nonce'[r] = now + NonceTtl * Second /\ nonce[r] <= now
          /\ \A s \in Request \ {r} : nonce'[s] = nonce[s]
      BY <2>1, <3>1, <3>2 DEF IsFresh
    <3>4. ASSUME NEW e \in Delivery \ {d}, delivery'[e].step = "passed"
          PROVE  /\ Passed(e) /\ delivery'[e] = delivery[e] /\ delivery[e].read \in Nat
                 /\ delivery[e].request \in Request /\ delivery[e].read <= now
                 /\ nonce[delivery[e].request] >= delivery[e].read + NonceTtl * Second
      BY <2>1, <3>4, Settings
         DEF NonceInv, PassedLeavesNonce, Passed, GuardInv, GuardTypeOK, Handler
    <3>5. PassedLeavesNonce'
      <4> SUFFICES ASSUME NEW e \in Delivery, delivery'[e].step = "passed"
                   PROVE  /\ nonce'[delivery'[e].request] >= delivery'[e].read + NonceTtl * Second
                          /\ delivery'[e].read <= now
        BY <2>1 DEF PassedLeavesNonce, Passed
      <4>1. CASE e = d
        BY <2>1, <3>1, <3>2, <3>3, <4>1
      <4>2. CASE e # d /\ delivery[e].request = r
        BY <3>2, <3>3, <3>4, <4>2
      <4>3. CASE e # d /\ delivery[e].request # r
        BY <3>3, <3>4, <4>3
      <4> QED BY <4>1, <4>2, <4>3
    <3>6. ReadInTime'
      BY <2>1, <2>2 DEF NonceInv, ReadInTime, End
    <3>7. PassedInTime'
      <4>1. sent[r].timestamp * Second <= now + Ahead
        BY <2>1 DEF GuardInv, RequestsAreSigned
      <4>2. delivery[d].read < End(r) /\ now <= delivery[d].read + Stall /\ delivery[d].read \in Nat
        BY <3>1, Settings DEF NonceInv, ReadInTime, GuardInv, GuardTypeOK, Handler
      <4>3. now < End(r) + Stall
        BY <2>1, <3>2, <4>2, EndType, Settings
      <4> QED BY <2>1, <3>1, <4>1, <4>3 DEF NonceInv, PassedInTime, Passed, End
    <3>8. ASSUME NEW e \in Delivery \ {d}, delivery'[e].step = "passed", delivery'[e].request = r
          PROVE  delivery'[e].read + NonceTtl * Second <= now
      BY <3>2, <3>3, <3>4, <3>8, <2>1
    <3>9. PassesAreApart'
      <4> SUFFICES ASSUME NEW e \in Delivery, NEW f \in Delivery, e # f,
                          delivery'[e].step = "passed", delivery'[f].step = "passed",
                          delivery'[e].request = delivery'[f].request
                   PROVE  \/ delivery'[e].read + NonceTtl * Second <= delivery'[f].read
                          \/ delivery'[f].read + NonceTtl * Second <= delivery'[e].read
        BY DEF PassesAreApart, Passed
      <4>1. CASE e = d \/ f = d
        BY <2>1, <3>1, <3>8, <4>1
      <4>2. CASE e # d /\ f # d
        BY <2>1, <4>2 DEF NonceInv, PassesAreApart, Passed
      <4> QED BY <4>1, <4>2
    <3> QED BY <3>5, <3>6, <3>7, <3>9 DEF NonceInv
  <2>3. CASE delivery'[d].step # "passed"
    <3>1. /\ nonce' = nonce
          /\ \/ delivery'[d].step \notin {"secret", "claim", "passed"}
             \/ /\ delivery'[d].step = "secret" /\ delivery'[d].read = now
                /\ Abs(now \div Second - sent[r].timestamp) <= Skew
             \/ /\ delivery'[d].step = "claim" /\ delivery[d].step = "secret"
                /\ delivery'[d].read = delivery[d].read
      BY <1>5, <2>3, NonceKinds
    <3>2. delivery'[d].step \in {"secret", "claim"} =>
            /\ delivery'[d].read < End(r)
            /\ delivery'[d].read <= now /\ now <= delivery'[d].read + Stall
      <4>1. now <= now /\ now <= now + Stall
        BY ClockType, Settings
      <4> QED BY <2>1, <3>1, <4>1, GoodBeforeEnd DEF NonceInv, ReadInTime
    <3>3. ReadInTime'
      BY <2>1, <3>2 DEF NonceInv, ReadInTime, End
    <3>4. PassedLeavesNonce' /\ PassedInTime' /\ PassesAreApart'
      BY <2>1, <2>3, <3>1
         DEF NonceInv, PassedLeavesNonce, PassedInTime, PassesAreApart, Passed, End
    <3> QED BY <3>3, <3>4 DEF NonceInv
  <2> QED BY <2>2, <2>3
<1>6. CASE Tick
  <2>1. /\ now' = now + 1 /\ delivery' = delivery /\ nonce' = nonce /\ sent' = sent
        /\ \A d \in Delivery : Waits(delivery[d].step) => now' <= delivery[d].read + Stall
    BY <1>6, TickMoves
  <2>2. ASSUME NEW d \in Delivery, delivery[d].read <= now  PROVE delivery[d].read <= now'
    <3>1. delivery[d].read \in Nat
      BY Settings DEF GuardInv, GuardTypeOK, Handler
    <3> QED BY <2>1, <2>2, <3>1, ClockType
  <2>3. ReadInTime'
    BY <2>1, <2>2 DEF NonceInv, ReadInTime, End, Waits
  <2>4. PassedLeavesNonce'
    BY <2>1, <2>2 DEF NonceInv, PassedLeavesNonce, Passed
  <2>5. PassedInTime' /\ PassesAreApart'
    BY <2>1 DEF NonceInv, PassedInTime, PassesAreApart, Passed, End
  <2> QED BY <2>3, <2>4, <2>5 DEF NonceInv
<1>7. CASE \E r \in Request, k \in Key : Sign(r, k)
  BY <1>3, <1>7 DEF Sign
<1>8. CASE [KeysNext]_keysVars /\ UNCHANGED guardVars
  BY <1>3, <1>8 DEF guardVars
<1> QED BY <1>4, <1>5, <1>6, <1>7, <1>8, Kinds

LEMMA Nonces == Spec => [](KeysInv /\ GuardInv /\ NonceInv)
<1>1. Init => NonceInv
  BY DEF Init, GuardInit, NonceInv, PassedLeavesNonce, ReadInTime, PassedInTime, PassesAreApart,
         Passed
<1>2. KeysInv /\ GuardInv /\ NonceInv /\ [Next]_partnerVars => NonceInv'
  BY NonceNext
<1> QED BY <1>1, <1>2, Types, PTL DEF Spec

\* Between two copies of a request that pass, however late or together they come and
\* however slow their handlers are, lies the time a nonce is kept.
THEOREM PassesKeepApart == Spec => []PassesAreApart
<1>1. NonceInv => PassesAreApart
  BY DEF NonceInv
<1> QED BY <1>1, Nonces, PTL

\* The passes of a request fit into the time its timestamp is good.
LEMMA PassesFit ==
  ASSUME GuardInv, NonceInv, NEW d \in Delivery, NEW e \in Delivery, Passed(d), Passed(e),
         delivery[d].request = delivery[e].request
  PROVE  /\ delivery[d].read \in Nat /\ delivery[e].read \in Nat
         /\ delivery[e].read < delivery[d].read + ((Skew + 1) * Second + Ahead + Stall)
<1> DEFINE r == delivery[d].request
<1>1. r \in Request /\ delivery[d].read \in Nat /\ delivery[e].read \in Nat
  BY Settings DEF GuardInv, GuardTypeOK, Handler
<1>2. /\ sent[r].timestamp * Second <= delivery[d].read + Ahead
      /\ delivery[e].read < End(r) + Stall
  BY DEF NonceInv, PassedInTime
<1>3. /\ End(r) = sent[r].timestamp * Second + (Skew + 1) * Second
      /\ sent[r].timestamp * Second \in Nat
  BY <1>1, EndType
<1> HIDE DEF r
<1> QED BY <1>1, <1>2, <1>3, Settings

\* Where a nonce outlives the timestamps it goes with, a request passes once: a second
\* copy could pass only after its timestamp has gone out of date.
THEOREM PassesOnce ==
  ASSUME NonceOutlivesTimestamps
  PROVE  Spec => []AtMostOnce
<1>1. ASSUME GuardInv, NonceInv  PROVE AtMostOnce
  <2>1. ASSUME NEW d \in Delivery, NEW e \in Delivery, Passed(d), Passed(e),
               delivery[d].request = delivery[e].request
        PROVE  ~(delivery[d].read + NonceTtl * Second <= delivery[e].read)
    BY <1>1, <2>1, PassesFit, Settings DEF NonceOutlivesTimestamps
  <2> QED BY <1>1, <2>1 DEF NonceInv, PassesAreApart, AtMostOnce
<1> QED BY <1>1, Nonces, PTL

\* Where two lives of a nonce outlive its timestamps, a request passes twice at most.
\* The defaults are such for all partners whose clocks are less than five minutes,
\* less Stall and a second, ahead.
THEOREM PassesTwice ==
  ASSUME TwoNoncesOutliveTimestamps
  PROVE  Spec => []AtMostTwice
<1>1. ASSUME GuardInv, NonceInv  PROVE AtMostTwice
  <2> SUFFICES ASSUME NEW r \in Request,
                      NEW d \in Delivery, NEW e \in Delivery, NEW f \in Delivery,
                      Passed(d), Passed(e), Passed(f), d # e, e # f, d # f,
                      delivery[d].request = r, delivery[e].request = r,
                      delivery[f].request = r
               PROVE  FALSE
    BY DEF AtMostTwice
  <2> DEFINE window == (Skew + 1) * Second + Ahead + Stall
             life == NonceTtl * Second
  <2>1. \A g, h \in {d, e, f} :
          /\ delivery[g].read \in Nat /\ delivery[h].read < delivery[g].read + window
          /\ g # h => \/ delivery[g].read + life <= delivery[h].read
                      \/ delivery[h].read + life <= delivery[g].read
    BY <1>1, PassesFit DEF NonceInv, PassesAreApart
  <2>2. life \in Nat /\ window \in Nat /\ life + life >= window
    BY Settings DEF TwoNoncesOutliveTimestamps
  <2> HIDE DEF window, life
  <2> QED BY <2>1, <2>2
<1> QED BY <1>1, Nonces, PTL

-----------------------------------------------------------------------------
(* Rate limit. *)

\* A handler counts itself in the minute it saw, at most Stall later.
CountsSoon ==
  \A d \in Delivery : delivery[d].step = "count" =>
    /\ delivery[d].bucket = BucketOf(delivery[d].read)
    /\ delivery[d].read <= now /\ now <= delivery[d].read + Stall

ExpiresSoon ==
  \A d \in Delivery : delivery[d].step = "expire" =>
    delivery[d].place = 1 /\ delivery[d].bucket * Minute <= now

\* What the places of handlers say.
PlacesFit ==
  \A d \in Delivery :
    /\ delivery[d].place > 0 => delivery[d].step \notin {"none", "find", "count"}
    /\ delivery[d].step \in {"check", "secret", "claim", "passed"} /\ delivery[d].limit > 0 =>
         delivery[d].place > 0 /\ delivery[d].place <= delivery[d].limit
    /\ delivery[d].step = "limited" => delivery[d].place > delivery[d].limit

\* A counter is there as long as a handler may count in it.
CountersLast ==
  \A p \in Partner, b \in Bucket : counter[p][b].expires >= (b + 1) * Minute + Stall

HasPlace(d, p, b, n) ==
  ClientOf(d) = p /\ delivery[d].bucket = b /\ delivery[d].place = n

\* The handlers counted in a minute have the places 1 to what its counter says, ...
PlacesAreTaken ==
  \A p \in Partner, b \in Bucket, n \in Nat \ {0} :
    n <= counter[p][b].count <=> \E d \in Delivery : HasPlace(d, p, b, n)

\* ... and no two have the same.
PlacesDiffer ==
  \A d, e \in Delivery :
    SameMinute(d, e) /\ delivery[d].place > 0 /\ delivery[d].place = delivery[e].place => d = e

RateInv ==
  /\ CountsSoon /\ ExpiresSoon /\ PlacesFit /\ CountersLast /\ PlacesAreTaken /\ PlacesDiffer

LEMMA BucketTypes ==
  ASSUME NEW b \in Bucket
  PROVE  b \in Nat /\ b * Minute \in Nat /\ (b + 1) * Minute = b * Minute + Minute
         /\ b * Minute <= Horizon
<1>1. Horizon \in Nat /\ Minute \in Nat \ {0}
  BY Settings
<1> DEFINE q == Horizon \div Minute
<1>2. q \in Nat /\ q * Minute <= Horizon
  BY <1>1, Quotient
<1>3. b \in 0 .. q
  BY DEF Bucket
<1> HIDE DEF q
<1>4. b \in Nat /\ b <= q
  BY <1>2, <1>3
<1>5. b * Minute <= q * Minute
  BY <1>1, <1>2, <1>4, Scaled
<1>6. \A x, y \in Nat : (x + 1) * y = x * y + y /\ x * y \in Nat
  OBVIOUS
<1> QED BY <1>1, <1>2, <1>4, <1>5, <1>6

LEMMA HandlerTypes ==
  ASSUME GuardInv, NEW d \in Delivery
  PROVE  /\ delivery[d].read \in Nat /\ delivery[d].place \in Nat /\ delivery[d].limit \in Nat
         /\ delivery[d].bucket \in Bucket /\ delivery[d].bucket \in Nat
         /\ delivery[d].request \in Request
         /\ delivery[d].step # "none" => ClientOf(d) \in Partner
<1>1. delivery[d] \in Handler
  BY DEF GuardInv, GuardTypeOK
<1>2. delivery[d].limit \in Nat
  <2>1. delivery[d].limit \in Limit \cup {0}
    BY <1>1 DEF Handler
  <2>2. Limit \cup {0} \subseteq Nat
    BY KeysAssumption
  <2> QED BY <2>1, <2>2
<1>3. delivery[d].bucket \in Nat
  BY <1>1, BucketTypes DEF Handler
<1>4. delivery[d].step # "none" => ClientOf(d) \in Partner
  BY <1>1 DEF Handler, ClientOf, GuardInv, CopiesAreSigned, RequestsAreSigned
<1> QED BY <1>1, <1>2, <1>3, <1>4, Settings DEF Handler

\* Nobody is counted, and who was counted stays where he is.
NobodyCounts ==
  /\ \A p \in Partner, b \in Bucket : counter'[p][b].count = counter[p][b].count
  /\ \A d \in Delivery :
       /\ delivery'[d].place = delivery[d].place
       /\ delivery[d].place > 0 => /\ delivery'[d].bucket = delivery[d].bucket
                                   /\ ClientOf(d)' = ClientOf(d)

LEMMA NobodyCountsKeeps ==
  ASSUME GuardInv, PlacesAreTaken, PlacesDiffer, NobodyCounts
  PROVE  PlacesAreTaken' /\ PlacesDiffer'
<1>1. \A d \in Delivery, p \in Partner, b \in Bucket, n \in Nat \ {0} :
        HasPlace(d, p, b, n)' <=> HasPlace(d, p, b, n)
  BY HandlerTypes DEF NobodyCounts, HasPlace
<1>2. PlacesAreTaken'
  <2> SUFFICES ASSUME NEW p \in Partner, NEW b \in Bucket, NEW n \in Nat \ {0}
               PROVE  n <= counter'[p][b].count <=> \E d \in Delivery : HasPlace(d, p, b, n)'
    BY DEF PlacesAreTaken
  <2> QED BY <1>1 DEF PlacesAreTaken, NobodyCounts
<1>3. PlacesDiffer'
  BY DEF PlacesDiffer, NobodyCounts, SameMinute
<1> QED BY <1>2, <1>3

\* A counter that is used is still there.
LEMMA CountIsCount ==
  ASSUME GuardInv, RateInv, NEW d \in Delivery, delivery[d].step = "count"
  PROVE  Count(ClientOf(d), delivery[d].bucket) = counter[ClientOf(d)][delivery[d].bucket].count
<1> DEFINE p == ClientOf(d)
           b == delivery[d].bucket
           read == delivery[d].read
<1>1. p \in Partner /\ b \in Bucket /\ read \in Nat
  BY HandlerTypes
<1>2. b = BucketOf(read) /\ now <= read + Stall
  BY DEF RateInv, CountsSoon
<1>3. read < b * Minute + Minute
  <2>1. Minute \in Nat \ {0}
    BY Settings
  <2> QED BY <1>1, <1>2, <2>1, Quotient DEF BucketOf
<1>4. counter[p][b].expires >= (b + 1) * Minute + Stall
  BY <1>1 DEF RateInv, CountersLast
<1>5. counter[p][b].expires \in Nat
  BY <1>1, Settings DEF GuardInv, GuardTypeOK
<1> HIDE DEF p, b, read
<1>6. counter[p][b].expires > now
  BY <1>1, <1>2, <1>3, <1>4, <1>5, BucketTypes, ClockType, Settings
<1> QED BY <1>6 DEF Count, p, b

\* The client of a copy that was counted stays the same.
LEMMA ClientStays ==
  ASSUME KeysInv, GuardInv, [Next]_partnerVars, NEW d \in Delivery, delivery[d].step # "none",
         delivery'[d].request = delivery[d].request
  PROVE  ClientOf(d)' = ClientOf(d)
<1>1. delivery[d].request \in Request /\ IsSigned(delivery[d].request)
  BY HandlerTypes DEF GuardInv, CopiesAreSigned
<1>2. sent'[delivery[d].request] = sent[delivery[d].request]
  BY <1>1, SignedStays
<1> QED BY <1>2 DEF ClientOf

\* Steps of others than handlers.
LEMMA RateOthersNext ==
  ASSUME KeysInv, GuardInv, RateInv, [Next]_partnerVars,
         delivery' = delivery, counter' = counter,
         \/ now' = now
         \/ Tick
  PROVE  RateInv'
<1>1. NobodyCounts
  <2>1. \A d \in Delivery : delivery[d].place > 0 => ClientOf(d)' = ClientOf(d)
    BY ClientStays DEF RateInv, PlacesFit
  <2> QED BY <2>1 DEF NobodyCounts
<1>2. PlacesAreTaken' /\ PlacesDiffer'
  BY <1>1, NobodyCountsKeeps DEF RateInv
<1>3. PlacesFit' /\ CountersLast'
  BY DEF RateInv, PlacesFit, CountersLast
<1>4. now' >= now /\ now' \in Nat
      /\ \A d \in Delivery : delivery[d].step = "count" => now' <= delivery[d].read + Stall
  <2>1. CASE now' = now
    BY <2>1, ClockType DEF RateInv, CountsSoon
  <2>2. CASE Tick
    BY <2>2, TickMoves, ClockType DEF Waits
  <2> QED BY <2>1, <2>2
<1>5. CountsSoon'
  <2> SUFFICES ASSUME NEW d \in Delivery, delivery[d].step = "count"
               PROVE  /\ delivery[d].bucket = BucketOf(delivery[d].read)
                      /\ delivery[d].read <= now' /\ now' <= delivery[d].read + Stall
    BY DEF CountsSoon, BucketOf
  <2>1. delivery[d].bucket = BucketOf(delivery[d].read) /\ delivery[d].read <= now
    BY DEF RateInv, CountsSoon
  <2> QED BY <1>4, <2>1, HandlerTypes, ClockType
<1>6. ExpiresSoon'
  <2> SUFFICES ASSUME NEW d \in Delivery, delivery[d].step = "expire"
               PROVE  delivery[d].place = 1 /\ delivery[d].bucket * Minute <= now'
    BY DEF ExpiresSoon
  <2>1. delivery[d].place = 1 /\ delivery[d].bucket * Minute <= now
    BY DEF RateInv, ExpiresSoon
  <2>2. delivery[d].bucket * Minute \in Nat
    BY HandlerTypes, BucketTypes
  <2> QED BY <1>4, <2>1, <2>2, ClockType
<1> QED BY <1>2, <1>3, <1>5, <1>6 DEF RateInv

LEMMA RateComesInNext ==
  ASSUME KeysInv, GuardInv, RateInv, [Next]_partnerVars,
         NEW d \in Delivery, NEW r \in Request, ComesIn(d, r)
  PROVE  RateInv'
<1>1. /\ delivery[d].step = "none" /\ delivery'[d].step \in {"find", "refused"}
      /\ delivery'[d].place = delivery[d].place
      /\ \A e \in Delivery \ {d} : delivery'[e] = delivery[e]
      /\ now' = now /\ counter' = counter /\ sent' = sent
  BY DEF ComesIn
<1>2. ~(delivery[d].place > 0)
  BY <1>1 DEF RateInv, PlacesFit
<1>3. NobodyCounts
  BY <1>1, <1>2 DEF NobodyCounts, ClientOf
<1>4. PlacesAreTaken' /\ PlacesDiffer'
  BY <1>3, NobodyCountsKeeps DEF RateInv
<1>5. PlacesFit' /\ CountersLast'
  BY <1>1, <1>2 DEF RateInv, PlacesFit, CountersLast
<1>6. CountsSoon' /\ ExpiresSoon'
  BY <1>1 DEF RateInv, CountsSoon, ExpiresSoon, BucketOf
<1> QED BY <1>4, <1>5, <1>6 DEF RateInv

LEMMA RateFindNext ==
  ASSUME KeysInv, GuardInv, RateInv, [Next]_partnerVars,
         NEW d \in Delivery, NEW from, FindPartner(d, from)
  PROVE  RateInv'
<1>1. delivery[d].step = "find"
  BY DEF FindPartner
<1>2. /\ counter' = counter /\ now' = now /\ sent' = sent
      /\ \A e \in Delivery \ {d} : delivery'[e] = delivery[e]
      /\ delivery'[d].place = delivery[d].place
      /\ delivery'[d].request = delivery[d].request
      /\ \/ delivery'[d].step = "refused"
         \/ delivery'[d].step = "check" /\ delivery'[d].limit = 0
         \/ /\ delivery'[d].step = "count" /\ delivery'[d].bucket = BucketOf(now)
            /\ delivery'[d].read = now
  BY FindMoves DEF Moves
<1>3. ~(delivery[d].place > 0)
  BY <1>1 DEF RateInv, PlacesFit
<1>4. NobodyCounts
  BY <1>2, <1>3 DEF NobodyCounts, ClientOf
<1>5. PlacesAreTaken' /\ PlacesDiffer'
  BY <1>4, NobodyCountsKeeps DEF RateInv
<1>6. PlacesFit' /\ CountersLast'
  BY <1>2, <1>3 DEF RateInv, PlacesFit, CountersLast
<1>7. CountsSoon'
  <2>1. now <= now /\ now <= now + Stall
    BY ClockType, Settings
  <2> QED BY <1>2, <2>1 DEF RateInv, CountsSoon, BucketOf
<1>8. ExpiresSoon'
  BY <1>2 DEF RateInv, ExpiresSoon
<1> QED BY <1>5, <1>6, <1>7, <1>8 DEF RateInv

LEMMA RateIncrNext ==
  ASSUME KeysInv, GuardInv, RateInv, [Next]_partnerVars, NEW d \in Delivery, Incr(d)
  PROVE  RateInv'
<1> DEFINE p == ClientOf(d)
           b == delivery[d].bucket
           n == counter[p][b].count
<1>1. delivery[d].step = "count" /\ p \in Partner /\ b \in Bucket /\ n \in Nat
  <2>1. delivery[d].step = "count"
    BY DEF Incr
  <2>2. p \in Partner /\ b \in Bucket
    BY <2>1, HandlerTypes
  <2> QED BY <2>1, <2>2 DEF GuardInv, GuardTypeOK
<1>2. Count(p, b) = n
  BY <1>1, CountIsCount
<1>3. /\ now' = now /\ sent' = sent
      /\ \A e \in Delivery \ {d} : delivery'[e] = delivery[e]
      /\ delivery'[d].request = delivery[d].request
      /\ delivery'[d].step = IF n + 1 = 1 THEN "expire" ELSE AfterCount(n + 1, delivery[d].limit)
      /\ delivery'[d].limit = delivery[d].limit /\ delivery'[d].bucket = b
      /\ delivery'[d].place = n + 1
      /\ OthersCount(p, b) /\ counter'[p][b].count = n + 1
      /\ counter'[p][b].expires = IF n + 1 = 1 THEN Never ELSE counter[p][b].expires
  BY <1>2, IncrMoves DEF Moves
<1>4. /\ ClientOf(d)' = p
      /\ \A e \in Delivery \ {d} : ClientOf(e)' = ClientOf(e)
  BY <1>3 DEF ClientOf
<1>5. delivery'[d].step \in {"expire", "check", "limited"}
      /\ (delivery'[d].step = "expire" => n = 0)
      /\ (delivery'[d].step = "check" => n + 1 <= delivery[d].limit)
      /\ (delivery'[d].step = "limited" => n + 1 > delivery[d].limit)
  <2>1. delivery[d].limit \in Nat
    BY HandlerTypes
  <2> HIDE DEF n, b, p
  <2> QED BY <1>1, <1>3, <2>1 DEF AfterCount
<1> HIDE DEF p, b, n
<1>6. CountsSoon'
  BY <1>3, <1>5 DEF RateInv, CountsSoon, BucketOf
<1>7. ExpiresSoon'
  <2>1. b * Minute <= now
    <3>1. b = BucketOf(delivery[d].read) /\ delivery[d].read <= now /\ delivery[d].read \in Nat
      BY <1>1, HandlerTypes DEF RateInv, CountsSoon, b
    <3>2. Minute \in Nat \ {0}
      BY Settings
    <3>3. b * Minute <= delivery[d].read
      BY <3>1, <3>2, Quotient DEF BucketOf
    <3> QED BY <1>1, <3>1, <3>3, BucketTypes, ClockType
  <2> QED BY <1>1, <1>3, <1>5, <2>1 DEF RateInv, ExpiresSoon
<1>8. PlacesFit'
  BY <1>1, <1>3, <1>5 DEF RateInv, PlacesFit
<1>9. CountersLast'
  <2> SUFFICES ASSUME NEW q \in Partner, NEW c \in Bucket
               PROVE  counter'[q][c].expires >= (c + 1) * Minute + Stall
    BY DEF CountersLast
  <2>1. counter[q][c].expires >= (c + 1) * Minute + Stall
    BY DEF RateInv, CountersLast
  <2>2. Never >= (c + 1) * Minute + Stall
    BY BucketTypes, Settings, RateAssumption
  <2>3. CASE q = p /\ c = b
    BY <1>3, <2>1, <2>2, <2>3
  <2>4. CASE q # p \/ c # b
    BY <1>3, <2>1, <2>4 DEF OthersCount
  <2> QED BY <2>3, <2>4
<1>10. /\ ~(delivery[d].place > 0) /\ delivery[d].place \in Nat
       /\ \A e \in Delivery, q \in Partner, c \in Bucket, m \in Nat \ {0} :
            HasPlace(e, q, c, m)' <=> \/ HasPlace(e, q, c, m)
                                      \/ e = d /\ q = p /\ c = b /\ m = n + 1
  <2>1. ~(delivery[d].place > 0) /\ delivery[d].place \in Nat
    BY <1>1, HandlerTypes DEF RateInv, PlacesFit
  <2> SUFFICES ASSUME NEW e \in Delivery, NEW q \in Partner, NEW c \in Bucket, NEW m \in Nat \ {0}
               PROVE  HasPlace(e, q, c, m)' <=> \/ HasPlace(e, q, c, m)
                                                \/ e = d /\ q = p /\ c = b /\ m = n + 1
    BY <2>1
  <2>2. CASE e = d
    <3>1. ~HasPlace(d, q, c, m)
      BY <2>1 DEF HasPlace
    <3>2. HasPlace(d, q, c, m)' <=> q = p /\ c = b /\ m = n + 1
      BY <1>3, <1>4 DEF HasPlace
    <3> QED BY <2>2, <3>1, <3>2
  <2>3. CASE e # d
    BY <1>3, <1>4, <2>3 DEF HasPlace
  <2> QED BY <2>2, <2>3
<1>11. PlacesAreTaken'
  <2> SUFFICES ASSUME NEW q \in Partner, NEW c \in Bucket, NEW m \in Nat \ {0}
               PROVE  m <= counter'[q][c].count <=> \E e \in Delivery : HasPlace(e, q, c, m)'
    BY DEF PlacesAreTaken
  <2>1. m <= counter[q][c].count <=> \E e \in Delivery : HasPlace(e, q, c, m)
    BY DEF RateInv, PlacesAreTaken
  <2>2. CASE q = p /\ c = b
    <3>1. m <= n + 1 <=> m <= n \/ m = n + 1
      BY <1>1
    <3>2. m <= n <=> \E e \in Delivery : HasPlace(e, q, c, m)
      BY <2>1, <2>2 DEF n
    <3> QED BY <1>3, <1>10, <2>2, <3>1, <3>2
  <2>3. CASE q # p \/ c # b
    BY <1>3, <1>10, <2>1, <2>3 DEF OthersCount
  <2> QED BY <2>2, <2>3
<1>12. \A e \in Delivery : ~HasPlace(e, p, b, n + 1)
  <2>1. ~(n + 1 <= n) /\ n + 1 \in Nat \ {0}
    BY <1>1
  <2> QED BY <1>1, <2>1 DEF RateInv, PlacesAreTaken, n
<1>13. PlacesDiffer'
  <2> SUFFICES ASSUME NEW e \in Delivery, NEW f \in Delivery, ClientOf(e)' = ClientOf(f)',
                      delivery'[e].bucket = delivery'[f].bucket, delivery'[e].place > 0,
                      delivery'[e].place = delivery'[f].place
               PROVE  e = f
    BY DEF PlacesDiffer, SameMinute
  <2>1. CASE e = d /\ f # d
    BY <1>3, <1>4, <1>12, <2>1 DEF HasPlace
  <2>2. CASE e # d /\ f = d
    BY <1>3, <1>4, <1>12, <2>2 DEF HasPlace
  <2>3. CASE e # d /\ f # d
    BY <1>3, <1>4, <2>3 DEF RateInv, PlacesDiffer, SameMinute
  <2> QED BY <2>1, <2>2, <2>3
<1> QED BY <1>6, <1>7, <1>8, <1>9, <1>11, <1>13 DEF RateInv

LEMMA RateExpireNext ==
  ASSUME KeysInv, GuardInv, RateInv, [Next]_partnerVars, NEW d \in Delivery, Expire(d)
  PROVE  RateInv'
<1> DEFINE p == ClientOf(d)
           b == delivery[d].bucket
<1>1. /\ delivery[d].step = "expire" /\ delivery[d].place = 1 /\ b * Minute <= now
      /\ p \in Partner /\ b \in Bucket
  <2>1. delivery[d].step = "expire"
    BY DEF Expire
  <2> QED BY <2>1, HandlerTypes DEF RateInv, ExpiresSoon
<1>2. /\ now' = now /\ sent' = sent
      /\ \A e \in Delivery \ {d} : delivery'[e] = delivery[e]
      /\ delivery'[d].request = delivery[d].request
      /\ delivery'[d].step = AfterCount(1, delivery[d].limit)
      /\ delivery'[d].limit = delivery[d].limit /\ delivery'[d].bucket = b
      /\ delivery'[d].place = delivery[d].place
      /\ OthersCount(p, b) /\ counter'[p][b].count = counter[p][b].count
      /\ counter'[p][b].expires \in {counter[p][b].expires, now + RateTtl * Second}
  BY <1>1, ExpireMoves DEF Moves
<1>3. NobodyCounts
  <2>1. \A q \in Partner, c \in Bucket : counter'[q][c].count = counter[q][c].count
    BY <1>2 DEF OthersCount
  <2>2. \A e \in Delivery : ClientOf(e)' = ClientOf(e)
    BY <1>2 DEF ClientOf
  <2> QED BY <1>2, <2>1, <2>2 DEF NobodyCounts
<1>4. PlacesAreTaken' /\ PlacesDiffer'
  BY <1>3, NobodyCountsKeeps DEF RateInv
<1>5. \/ delivery'[d].step = "limited" /\ 1 > delivery[d].limit
      \/ delivery'[d].step = "check" /\ 1 <= delivery[d].limit
  BY <1>2, HandlerTypes DEF AfterCount
<1>6. PlacesFit'
  BY <1>1, <1>2, <1>5 DEF RateInv, PlacesFit
<1>7. CountsSoon' /\ ExpiresSoon'
  BY <1>2, <1>5 DEF RateInv, CountsSoon, ExpiresSoon, BucketOf
<1>8. CountersLast'
  <2> SUFFICES ASSUME NEW q \in Partner, NEW c \in Bucket
               PROVE  counter'[q][c].expires >= (c + 1) * Minute + Stall
    BY DEF CountersLast
  <2>1. counter[q][c].expires >= (c + 1) * Minute + Stall
    BY DEF RateInv, CountersLast
  <2>2. now + RateTtl * Second >= (b + 1) * Minute + Stall
    <3> HIDE DEF b
    <3> QED BY <1>1, BucketTypes, ClockType, Settings, RateAssumption
  <2>3. CASE q = p /\ c = b
    BY <1>2, <2>1, <2>2, <2>3
  <2>4. CASE q # p \/ c # b
    BY <1>2, <2>1, <2>4 DEF OthersCount
  <2> QED BY <2>3, <2>4
<1> QED BY <1>4, <1>6, <1>7, <1>8 DEF RateInv

\* The steps after the count.
LEMMA RateRestNext ==
  ASSUME KeysInv, GuardInv, RateInv, [Next]_partnerVars, NEW d \in Delivery,
         CheckTimestamp(d) \/ VerifySignature(d) \/ ClaimNonce(d) \/ HandlerFails(d)
  PROVE  RateInv'
<1>1. /\ Moves(d) /\ counter' = counter
      /\ delivery'[d].limit = delivery[d].limit /\ delivery'[d].bucket = delivery[d].bucket
      /\ delivery'[d].place = delivery[d].place
      /\ \/ delivery'[d].step \in {"refused", "failed"}
         \/ /\ delivery[d].step \in {"check", "secret", "claim"}
            /\ delivery'[d].step \in {"secret", "claim", "passed"}
  BY TimestampMoves, VerifyMoves, ClaimMoves, FailMoves
<1>2. /\ now' = now /\ sent' = sent /\ delivery'[d].request = delivery[d].request
      /\ \A e \in Delivery \ {d} : delivery'[e] = delivery[e]
  BY <1>1 DEF Moves
<1>3. NobodyCounts
  BY <1>1, <1>2 DEF NobodyCounts, ClientOf
<1>4. PlacesAreTaken' /\ PlacesDiffer'
  BY <1>3, NobodyCountsKeeps DEF RateInv
<1>5. PlacesFit'
  BY <1>1, <1>2 DEF RateInv, PlacesFit
<1>6. CountsSoon' /\ ExpiresSoon' /\ CountersLast'
  BY <1>1, <1>2 DEF RateInv, CountsSoon, ExpiresSoon, BucketOf, CountersLast
<1> QED BY <1>4, <1>5, <1>6 DEF RateInv

LEMMA RateNext ==
  ASSUME KeysInv, GuardInv, RateInv, [Next]_partnerVars  PROVE RateInv'
<1>1. CASE ([KeysNext]_keysVars /\ UNCHANGED guardVars)
           \/ (\E r \in Request, k \in Key : Sign(r, k)) \/ Tick
  BY <1>1, RateOthersNext DEF guardVars, Sign, Tick
<1>2. CASE \E d \in Delivery, r \in Request : ComesIn(d, r)
  BY <1>2, RateComesInNext
<1>3. CASE \E d \in Delivery : HandlerSteps(d)
  BY <1>3, RateFindNext, RateIncrNext, RateExpireNext, RateRestNext DEF HandlerSteps
<1> QED BY <1>1, <1>2, <1>3, Kinds

LEMMA RateInitInv == Init => RateInv
<1> SUFFICES ASSUME Init  PROVE RateInv
  OBVIOUS
<1> USE DEF Init, GuardInit
<1>1. \A d \in Delivery : delivery[d].step = "none" /\ delivery[d].place = 0
  OBVIOUS
<1>2. CountsSoon /\ ExpiresSoon /\ PlacesFit /\ PlacesDiffer
  BY <1>1 DEF CountsSoon, ExpiresSoon, PlacesFit, PlacesDiffer
<1>3. PlacesAreTaken
  BY <1>1 DEF PlacesAreTaken, HasPlace
<1>4. CountersLast
  <2> SUFFICES ASSUME NEW p \in Partner, NEW b \in Bucket
               PROVE  counter[p][b].expires >= (b + 1) * Minute + Stall
    BY DEF CountersLast
  <2>1. counter[p][b].expires = Never
    OBVIOUS
  <2> QED BY <2>1, BucketTypes, Settings, RateAssumption
<1> QED BY <1>2, <1>3, <1>4 DEF RateInv

LEMMA IsInjection ==
  ASSUME NEW S, NEW T, NEW f \in [S -> T], \A a, b \in S : f[a] = f[b] => a = b
  PROVE  f \in Injection(S, T)
  BY DEF Injection, IsInjective

LEMMA Places == Spec => [](GuardInv /\ RateInv)
<1>1. KeysInv /\ GuardInv /\ RateInv /\ [Next]_partnerVars => RateInv'
  BY RateNext
<1> QED BY <1>1, RateInitInv, Types, PTL DEF Spec

\* The places of those within the limit are as many numbers from 1 to the limit.
LEMMA WithinLimit == GuardInv /\ RateInv => RateHolds
<1> SUFFICES ASSUME GuardInv, RateInv, NEW d \in Delivery, delivery[d].limit > 0
             PROVE  Cardinality({e \in Delivery :
                      /\ delivery[e].step \in {"check", "secret", "claim", "passed"}
                      /\ delivery[e].limit \in 1 .. delivery[d].limit
                      /\ SameMinute(d, e)}) <= delivery[d].limit
  BY DEF RateHolds
<1> DEFINE l == delivery[d].limit
           within == {e \in Delivery :
                        /\ delivery[e].step \in {"check", "secret", "claim", "passed"}
                        /\ delivery[e].limit \in 1 .. delivery[d].limit
                        /\ SameMinute(d, e)}
           f == [e \in within |-> delivery[e].place]
<1>1. l \in Nat
  BY HandlerTypes
<1>2. \A e \in within : delivery[e].place \in 1 .. l /\ e \in Delivery
  <2> SUFFICES ASSUME NEW e \in within  PROVE delivery[e].place \in 1 .. l
    OBVIOUS
  <2>1. delivery[e].limit \in 1 .. l /\ delivery[e].step \in {"check", "secret", "claim", "passed"}
    OBVIOUS
  <2>2. delivery[e].limit \in Nat /\ delivery[e].place \in Nat
    BY HandlerTypes
  <2>3. delivery[e].limit > 0 /\ delivery[e].limit <= l
    BY <1>1, <2>1, <2>2
  <2>4. delivery[e].place > 0 /\ delivery[e].place <= delivery[e].limit
    BY <2>1, <2>3 DEF RateInv, PlacesFit
  <2> HIDE DEF l
  <2> QED BY <1>1, <2>2, <2>3, <2>4
<1>3. \A e, g \in within : delivery[e].place = delivery[g].place => e = g
  <2> SUFFICES ASSUME NEW e \in within, NEW g \in within, delivery[e].place = delivery[g].place
               PROVE  e = g
    OBVIOUS
  <2>1. delivery[e].place > 0
    BY <1>1, <1>2
  <2>2. SameMinute(e, g)
    BY DEF SameMinute
  <2> QED BY <2>1, <2>2 DEF RateInv, PlacesDiffer
<1> HIDE DEF l, within
<1>4. f \in Injection(within, 1 .. l)
  <2>1. f \in [within -> 1 .. l] /\ \A e \in within : f[e] = delivery[e].place
    BY <1>2
  <2> HIDE DEF f
  <2> QED BY <1>3, <2>1, IsInjection
<1>5. IsFiniteSet(1 .. l) /\ Cardinality(1 .. l) = l
  BY <1>1, FS_Interval
<1> HIDE DEF f
<1>6. IsFiniteSet(within) /\ Cardinality(within) <= l
  BY <1>4, <1>5, FS_Injection
<1> QED BY <1>6 DEF within, l

\* Who is turned away has a place above the limit, and the places below are taken.
LEMMA FullWhenLimited == GuardInv /\ RateInv => LimitedOnlyWhenFull
<1> SUFFICES ASSUME GuardInv, RateInv, NEW d \in Delivery, delivery[d].step = "limited"
             PROVE  Cardinality({e \in Delivery \ {d} : delivery[e].place > 0 /\ SameMinute(d, e)})
                      >= delivery[d].limit
  BY DEF LimitedOnlyWhenFull
<1> DEFINE l == delivery[d].limit
           p == ClientOf(d)
           b == delivery[d].bucket
           n == counter[p][b].count
           others == {e \in Delivery \ {d} : delivery[e].place > 0 /\ SameMinute(d, e)}
           f == [e \in others |-> delivery[e].place]
           g == [i \in 1 .. l |-> CHOOSE e \in others : delivery[e].place = i]
<1>1. /\ l \in Nat /\ p \in Partner /\ b \in Bucket /\ n \in Nat
      /\ delivery[d].place \in Nat /\ delivery[d].place > l
  <2>1. p \in Partner /\ b \in Bucket
    BY HandlerTypes
  <2>2. delivery[d].place > l
    BY DEF RateInv, PlacesFit
  <2> QED BY <2>1, <2>2, HandlerTypes DEF GuardInv, GuardTypeOK
<1>2. HasPlace(d, p, b, delivery[d].place)
  BY DEF HasPlace
<1>3. delivery[d].place <= n
  <2>1. delivery[d].place \in Nat \ {0}
    BY <1>1
  <2> QED BY <1>1, <1>2, <2>1 DEF RateInv, PlacesAreTaken
<1>4. \A e \in others : /\ e \in Delivery /\ delivery[e].place \in Nat /\ delivery[e].place > 0
                        /\ ClientOf(e) = p /\ delivery[e].bucket = b
  BY HandlerTypes DEF SameMinute
<1>5. \A e \in others : delivery[e].place <= n
  <2> SUFFICES ASSUME NEW e \in others  PROVE delivery[e].place <= n
    OBVIOUS
  <2>1. HasPlace(e, p, b, delivery[e].place) /\ delivery[e].place \in Nat \ {0}
    BY <1>4 DEF HasPlace
  <2> QED BY <1>1, <1>4, <2>1 DEF RateInv, PlacesAreTaken
<1>6. \A e, h \in others : delivery[e].place = delivery[h].place => e = h
  BY <1>4 DEF RateInv, PlacesDiffer, SameMinute
<1>7. \A i \in 1 .. l : \E e \in others : delivery[e].place = i
  <2> SUFFICES ASSUME NEW i \in 1 .. l  PROVE \E e \in others : delivery[e].place = i
    OBVIOUS
  <2> HIDE DEF l, n, p, b
  <2>1. i \in Nat \ {0} /\ i <= n /\ i # delivery[d].place
    BY <1>1, <1>3
  <2>2. PICK e \in Delivery : HasPlace(e, p, b, i)
    BY <1>1, <2>1 DEF RateInv, PlacesAreTaken, n
  <2>3. e # d /\ delivery[e].place = i /\ delivery[e].place > 0 /\ SameMinute(d, e)
    BY <2>1, <2>2 DEF HasPlace, SameMinute, p, b
  <2> QED BY <2>3
<1> HIDE DEF l, n, p, b, others
<1>8. IsFiniteSet(others)
  <2>1. \A e \in others : delivery[e].place \in 1 .. n
    BY <1>1, <1>4, <1>5
  <2>2. f \in [others -> 1 .. n] /\ \A e \in others : f[e] = delivery[e].place
    BY <2>1
  <2> HIDE DEF f
  <2>3. \A e, h \in others : f[e] = f[h] => e = h
    BY <1>6, <2>2
  <2>4. f \in Injection(others, 1 .. n)
    BY <2>2, <2>3, IsInjection
  <2>5. IsFiniteSet(1 .. n)
    BY <1>1, FS_Interval
  <2> QED BY <2>4, <2>5, FS_Injection
<1>9. g \in Injection(1 .. l, others)
  <2>1. \A i \in 1 .. l : g[i] \in others /\ delivery[g[i]].place = i
    BY <1>7
  <2>2. g \in [1 .. l -> others]
    BY <2>1
  <2> HIDE DEF g
  <2> QED BY <2>1, <2>2, IsInjection
<1>10. Cardinality(1 .. l) <= Cardinality(others)
  <2> HIDE DEF g
  <2> QED BY <1>8, <1>9, FS_Injection
<1>11. Cardinality(1 .. l) = l
  BY <1>1, FS_Interval
<1>12. Cardinality(others) \in Nat
  BY <1>8, FS_CardinalityType
<1> QED BY <1>1, <1>10, <1>11, <1>12 DEF others, l

\* In no minute do more requests get by a limit than it says, whatever the handlers
\* do between INCR and EXPIRE and whatever an admin changes meanwhile.
THEOREM LimitHolds == Spec => []RateHolds
  BY WithinLimit, Places, PTL

\* Nobody is turned away before the limit of that minute is used up.
THEOREM TurnedAwayOnlyWhenFull == Spec => []LimitedOnlyWhenFull
  BY FullWhenLimited, Places, PTL
=============================================================================
