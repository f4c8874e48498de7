--------------------------- MODULE RefreshTokens ---------------------------
(***************************************************************************)
(* Admin sessions on the server (src/admin-auth/refresh-token.service.ts,  *)
(* src/admin/admin-auth.controller.ts): the AdminRefreshToken table and    *)
(* the handlers of POST /admin/auth/login, refresh, logout, logout-all.    *)
(* A call runs one statement at a time: every await is a point where any   *)
(* other call may run, and where a statement may reject.                   *)
(*                                                                         *)
(* rows[t] is the row of the raw token t.  "aged" is a row revoked more    *)
(* than seven days ago; a "deleted" row keeps its family and admin in the  *)
(* model, for the calls that read it before the nightly pruning.           *)
(***************************************************************************)
EXTENDS Naturals, FiniteSets

CONSTANTS
  Token, Family, Admin, Call,
  NoToken, NoFamily, NoAdmin   \* null values

ASSUME SessionNullsAreDistinct ==
  NoToken \notin Token /\ NoFamily \notin Family /\ NoAdmin \notin Admin

VARIABLES
  rows,    \* the AdminRefreshToken table
  calls,   \* the handlers at work on the server
  burnt    \* history: the families rotate has revoked for reuse

tokenVars == <<rows, calls, burnt>>

TokenRow == [state   : {"absent", "live", "revoked", "aged", "deleted"},
             expired : BOOLEAN,
             family  : Family \cup {NoFamily},
             admin   : Admin \cup {NoAdmin},
             next    : Token \cup {NoToken}]   \* replacedById

(* pc names the statement a call runs next; the last four are answers:     *)
(* "refused" is the 401 of a token that is no good, "failed" a 429 or 500. *)
CallState == [pc    : {"idle", "enter", "find", "reuse", "issue", "mark", "admin",
                       "revoke", "revokeAll", "granted", "cleared", "refused", "failed"},
              token : Token \cup {NoToken},   \* the cookie it was sent with
              new   : Token \cup {NoToken},   \* the token it has issued
              admin : Admin \cup {NoAdmin}]

Idle == [pc |-> "idle", token |-> NoToken, new |-> NoToken, admin |-> NoAdmin]

Absent == [state |-> "absent", expired |-> FALSE, family |-> NoFamily,
           admin |-> NoAdmin, next |-> NoToken]

TokensInit ==
  /\ rows = [t \in Token |-> Absent]
  /\ calls = [c \in Call |-> Idle]
  /\ burnt = {}

Present(t) == t \in Token /\ rows[t].state \in {"live", "revoked", "aged"}

FamilyRows(f) == {t \in Token : rows[t].family = f}

(* updateMany sets revokedAt of every row it matches, revoked or not. *)
RevokeRows(S) ==
  rows' = [t \in Token |-> IF t \in S /\ Present(t)
                             THEN [rows[t] EXCEPT !.state = "revoked"]
                             ELSE rows[t]]

At(c, pc) == calls[c].pc = pc

GoTo(c, pc) == calls' = [calls EXCEPT ![c].pc = pc]

Arrive(c, pc, t, a) ==
  /\ At(c, "idle")
  /\ calls' = [calls EXCEPT ![c] = [Idle EXCEPT !.pc = pc, !.token = t, !.admin = a]]
  /\ UNCHANGED <<rows, burnt>>

(* Seeded fault: the new token starts a family of its own. *)
NewRowAlone(n, f, a) ==
  \E g \in {g \in Family : FamilyRows(g) = {}} :
    rows' = [rows EXCEPT ![n] = [Absent EXCEPT !.state = "live", !.family = g, !.admin = a]]

(* INSERT of a raw token of 32 random bytes nobody has drawn before. *)
NewRow(n, f, a) ==
  rows' = [rows EXCEPT ![n] = [Absent EXCEPT !.state = "live", !.family = f, !.admin = a]]

-----------------------------------------------------------------------------
(* POST login, the password verified: a login opens a new family. *)
Login(c, a) == Arrive(c, "enter", NoToken, a)

Enter(c, n, f) ==
  /\ At(c, "enter")
  /\ rows[n].state = "absent"
  /\ FamilyRows(f) = {}
  /\ NewRow(n, f, calls[c].admin)
  /\ calls' = [calls EXCEPT ![c].pc = "granted", ![c].new = n]
  /\ UNCHANGED burnt

(* POST refresh with the cookie t, or with none. *)
Refresh(c, t) == Arrive(c, "find", t, NoAdmin)

FindNone(c) ==
  /\ At(c, "find")
  /\ ~Present(calls[c].token)
  /\ GoTo(c, "refused")
  /\ UNCHANGED <<rows, burnt>>

FindRevoked(c) ==
  /\ At(c, "find")
  /\ Present(calls[c].token)
  /\ rows[calls[c].token].state # "live"
  /\ GoTo(c, "reuse")
  /\ UNCHANGED <<rows, burnt>>

(* Reuse detected: the whole family is revoked. *)
RevokeFamily(c) ==
  /\ At(c, "reuse")
  /\ LET f == rows[calls[c].token].family
     IN RevokeRows(FamilyRows(f)) /\ burnt' = burnt \cup {f}
  /\ GoTo(c, "refused")

FindExpired(c) ==
  /\ At(c, "find")
  /\ Present(calls[c].token)
  /\ rows[calls[c].token].state = "live"
  /\ rows[calls[c].token].expired
  /\ GoTo(c, "refused")
  /\ UNCHANGED <<rows, burnt>>

(* Seeded fault: rotate does not look at revokedAt. *)
FindLiveOrRevoked(c) ==
  /\ At(c, "find")
  /\ Present(calls[c].token)
  /\ ~rows[calls[c].token].expired
  /\ GoTo(c, "issue")
  /\ UNCHANGED <<rows, burnt>>

(* Seeded fault: the old token is revoked before the new one is inserted.  *)
FindLiveMarkFirst(c) ==
  /\ At(c, "find")
  /\ Present(calls[c].token)
  /\ rows[calls[c].token].state = "live"
  /\ ~rows[calls[c].token].expired
  /\ GoTo(c, "mark")
  /\ UNCHANGED <<rows, burnt>>

FindLive(c) ==
  /\ At(c, "find")
  /\ Present(calls[c].token)
  /\ rows[calls[c].token].state = "live"
  /\ ~rows[calls[c].token].expired
  /\ GoTo(c, "issue")
  /\ UNCHANGED <<rows, burnt>>

(* The new token is inserted first, the old one revoked afterwards. *)
Issue(c, n) ==
  /\ At(c, "issue")
  /\ rows[n].state = "absent"
  /\ LET old == rows[calls[c].token] IN NewRow(n, old.family, old.admin)
  /\ calls' = [calls EXCEPT ![c].pc = "mark", ![c].new = n]
  /\ UNCHANGED burnt

(* UPDATE by id, after the row of the new token was looked up. *)
MarkRotated(c) ==
  /\ At(c, "mark")
  /\ Present(calls[c].token)
  /\ rows' = [rows EXCEPT ![calls[c].token].state = "revoked",
                          ![calls[c].token].next  = calls[c].new]
  /\ GoTo(c, "admin")
  /\ UNCHANGED burnt

(* Pruned meanwhile: the UPDATE finds no record and rejects. *)
MarkPruned(c) ==
  /\ At(c, "mark")
  /\ ~Present(calls[c].token)
  /\ GoTo(c, "failed")
  /\ UNCHANGED <<rows, burnt>>

(* getAdminForToken looks only whether the new row is there. *)
FindAdmin(c) ==
  /\ At(c, "admin")
  /\ GoTo(c, IF Present(calls[c].new) THEN "granted" ELSE "refused")
  /\ UNCHANGED <<rows, burnt>>

-----------------------------------------------------------------------------
(* POST logout, the guards passed; without a refresh cookie it only clears *)
(* the others.                                                             *)
Logout(c, t) == Arrive(c, "revoke", t, NoAdmin)

Revoke(c) ==
  /\ At(c, "revoke")
  /\ RevokeRows({calls[c].token})
  /\ GoTo(c, "cleared")
  /\ UNCHANGED burnt

(* POST logout-all, the guards passed. *)
LogoutAll(c, a) == Arrive(c, "revokeAll", NoToken, a)

RevokeAllForAdmin(c) ==
  /\ At(c, "revokeAll")
  /\ RevokeRows({t \in Token : rows[t].admin = calls[c].admin})
  /\ GoTo(c, "cleared")
  /\ UNCHANGED burnt

(* A statement rejects, or the process dies: the caller sees an error and  *)
(* nothing that was written before is undone.                              *)
Fails(c) ==
  /\ calls[c].pc \notin {"idle", "granted", "cleared", "refused", "failed"}
  /\ GoTo(c, "failed")
  /\ UNCHANGED <<rows, burnt>>

(* The answer has reached the caller, or nobody waits for it any more. *)
Leave(c) ==
  /\ calls[c].pc \in {"granted", "cleared", "refused", "failed"}
  /\ calls' = [calls EXCEPT ![c] = Idle]
  /\ UNCHANGED <<rows, burnt>>

(* The handlers' own steps: everything but arrival and answer. *)
Serve(c) ==
  \/ \E n \in Token, f \in Family : Enter(c, n, f)
  \/ FindNone(c) \/ FindRevoked(c) \/ RevokeFamily(c) \/ FindExpired(c)
  \/ FindLive(c) \/ (\E n \in Token : Issue(c, n))
  \/ MarkRotated(c) \/ MarkPruned(c) \/ FindAdmin(c)
  \/ Revoke(c) \/ RevokeAllForAdmin(c)

(* expiresAt passes. *)
Expire(t) ==
  /\ Present(t)
  /\ ~rows[t].expired
  /\ rows' = [rows EXCEPT ![t].expired = TRUE]
  /\ UNCHANGED <<calls, burnt>>

(* Seven days after revokedAt. *)
RevocationAges(t) ==
  /\ rows[t].state = "revoked"
  /\ rows' = [rows EXCEPT ![t].state = "aged"]
  /\ UNCHANGED <<calls, burnt>>

(* The cron of 03:00, one deleteMany. *)
PruneExpiredTokens ==
  /\ \E t \in Token : Present(t) /\ (rows[t].expired \/ rows[t].state = "aged")
  /\ rows' = [t \in Token |-> IF Present(t) /\ (rows[t].expired \/ rows[t].state = "aged")
                                THEN [rows[t] EXCEPT !.state = "deleted"]
                                ELSE rows[t]]
  /\ UNCHANGED <<calls, burnt>>

-----------------------------------------------------------------------------
TokensTypeOK ==
  /\ rows \in [Token -> TokenRow]
  /\ calls \in [Call -> CallState]
  /\ burnt \in SUBSET Family
  /\ \A t \in Token : rows[t].family = NoFamily <=> rows[t].state = "absent"
  /\ \A c \in Call :
       /\ calls[c].pc \in {"reuse", "issue", "mark", "admin"} =>
            calls[c].token \in Token /\ rows[calls[c].token].state # "absent"
       /\ calls[c].pc \in {"mark", "admin", "granted"} =>
            calls[c].new \in Token /\ rows[calls[c].new].state # "absent"
=============================================================================
