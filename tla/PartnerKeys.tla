---------------------------- MODULE PartnerKeys ----------------------------
(***************************************************************************)
(* Second-tier partners and their keys, as AdminPartnersController and     *)
(* PartnerService keep them.  Creating a partner with its first key is one *)
(* statement; a revoking rotation is several, so two rotations of one      *)
(* partner can interleave.  A key here is its keyId: the secret that goes  *)
(* with it is encrypted into the same row and never changes.               *)
(***************************************************************************)
EXTENDS Integers, FiniteSets

CONSTANTS
  Partner,          \* client ids; a row of Partner keeps its id for ever
  Key,              \* key ids, made up by randomUUID
  Ip,               \* addresses requests come from
  Limit,            \* values of rateLimit; 0 is no limit
  Rotation,         \* the rotations admins ask for
  Crowd,            \* bound: sets of those that act in one behaviour
  NoPartner, NoKey

ASSUME KeysAssumption ==
  /\ NoPartner \notin Partner /\ NoKey \notin Key
  /\ Limit \subseteq Nat

VARIABLES
  partner,     \* table Partner
  secret,      \* table PartnerSecret
  rotation,    \* rotateSecret calls
  raced,       \* history: two revoking rotations of the partner overlapped
  crowd        \* who acts in this behaviour

keysVars == <<partner, secret, rotation, raced, crowd>>

Row == [status : {"none", "ACTIVE", "DISABLED"}, rateLimit : Limit \cup {0},
        allowedIps : SUBSET Ip]

Secret == [owner : Partner \cup {NoPartner}, status : {"absent", "ACTIVE", "REVOKED"}]

\* "created" has made its key and still has to revoke; "failed" was answered 500 or
\* not at all.
Call == [step : {"idle", "created", "done", "failed"},
         partner : Partner \cup {NoPartner},
         revokeOld : BOOLEAN,
         key : Key \cup {NoKey},
         older : SUBSET Key]     \* history: the partner's keys when it made its own

KeysInit ==
  /\ partner = [p \in Partner |-> [status |-> "none", rateLimit |-> 0, allowedIps |-> {}]]
  /\ secret = [k \in Key |-> [owner |-> NoPartner, status |-> "absent"]]
  /\ rotation = [a \in Rotation |-> [step |-> "idle", partner |-> NoPartner,
                                     revokeOld |-> FALSE, key |-> NoKey, older |-> {}]]
  /\ raced = [p \in Partner |-> FALSE]
  /\ crowd \in Crowd

Exists(p) == partner[p].status # "none"

KeysOf(p) == {k \in Key : secret[k].owner = p}

\* The partnerSecret rows a signature of partner p may use.
ActiveKeys(p) == {k \in KeysOf(p) : secret[k].status = "ACTIVE"}

NewKey(p, k) ==
  /\ secret[k].status = "absent"
  /\ secret' = [secret EXCEPT ![k] = [owner |-> p, status |-> "ACTIVE"]]

\* A clientId that is taken violates the unique index, and nothing is written.
CreatePartner(p, k) ==
  /\ ~Exists(p)
  /\ \E row \in Row : row.status # "none" /\ partner' = [partner EXCEPT ![p] = row]
  /\ NewKey(p, k)
  /\ UNCHANGED <<rotation, raced, crowd>>

\* Fields that are not given stay as they are.
UpdatePartner(p) ==
  /\ Exists(p)
  /\ \E row \in Row : row.status # "none" /\ partner' = [partner EXCEPT ![p] = row]
  /\ UNCHANGED <<secret, rotation, raced, crowd>>

UpdateStatus(p) ==
  /\ Exists(p)
  /\ \E status \in {"ACTIVE", "DISABLED"} : partner' = [partner EXCEPT ![p].status = status]
  /\ UNCHANGED <<secret, rotation, raced, crowd>>

Revoking(a, p) == rotation[a].partner = p /\ rotation[a].step = "created"

\* The partner is looked up first; no code deletes one, so that the look-up and the
\* insert are one step here.
RotateSecret(a, p, k, revokeOld) ==
  /\ a \in crowd /\ rotation[a].step = "idle"
  /\ Exists(p)
  /\ NewKey(p, k)
  /\ rotation' = [rotation EXCEPT ![a] =
       [step |-> IF revokeOld THEN "created" ELSE "done",
        partner |-> p, revokeOld |-> revokeOld, key |-> k, older |-> KeysOf(p)]]
  /\ raced' = [raced EXCEPT ![p] = @ \/ (revokeOld /\ \E b \in Rotation : Revoking(b, p))]
  /\ UNCHANGED <<partner, crowd>>

\* Fault: updateMany without "keyId: { not: keyId }".
ToRevokeWithOwn(a) == KeysOf(rotation[a].partner)

ToRevoke(a) == KeysOf(rotation[a].partner) \ {rotation[a].key}

RevokeOld(a) ==
  /\ rotation[a].step = "created"
  /\ secret' = [k \in Key |-> IF k \in ToRevoke(a)
                              THEN [secret[k] EXCEPT !.status = "REVOKED"] ELSE secret[k]]
  /\ rotation' = [rotation EXCEPT ![a].step = "done"]
  /\ UNCHANGED <<partner, raced, crowd>>

\* updateMany fails or the process dies after the insert, which stays.
RotationFails(a) ==
  /\ rotation[a].step = "created"
  /\ rotation' = [rotation EXCEPT ![a].step = "failed"]
  /\ UNCHANGED <<partner, secret, raced, crowd>>

KeysNext ==
  \/ \E p \in Partner, k \in Key : CreatePartner(p, k)
  \/ \E p \in Partner : UpdatePartner(p) \/ UpdateStatus(p)
  \/ \E a \in Rotation, p \in Partner, k \in Key, revokeOld \in BOOLEAN :
       RotateSecret(a, p, k, revokeOld)
  \/ \E a \in Rotation : RevokeOld(a) \/ RotationFails(a)

-----------------------------------------------------------------------------
KeysTypeOK ==
  /\ partner \in [Partner -> Row]
  /\ secret \in [Key -> Secret]
  /\ rotation \in [Rotation -> Call]
  /\ raced \in [Partner -> BOOLEAN]

\* A partner is never left without a key it can sign with, whatever rotations fail
\* halfway: only two revoking rotations at once can revoke each other's new key.
KeepsAKey ==
  \A p \in Partner : Exists(p) /\ ~raced[p] => ActiveKeys(p) # {}

\* The same without the exception.  It fails: two revoking rotations at once leave the
\* partner with no key at all, and both answers name one.
KeepsAKeyAlways == \A p \in Partner : Exists(p) => ActiveKeys(p) # {}
=============================================================================
