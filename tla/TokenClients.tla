---------------------------- MODULE TokenClients ----------------------------
(***************************************************************************)
(* RefreshTokens with clients that may do anything the protocol lets them: *)
(* send any raw token that was ever handed out, old or new, as often and   *)
(* as concurrently as they like.  What holds here holds for every client,  *)
(* of which CmsSession is one.                                             *)
(***************************************************************************)
EXTENDS RefreshTokens

TokenInit == TokensInit

(* Every token issued so far, whether or not its answer got through. *)
IssuedTokens == {t \in Token : rows[t].state # "absent"}

AnyRequest(c) ==
  \/ \E a \in Admin : Login(c, a) \/ LogoutAll(c, a)
  \/ \E t \in IssuedTokens \cup {NoToken} : Refresh(c, t) \/ Logout(c, t)

Passes ==
  (\E t \in Token : Expire(t) \/ RevocationAges(t)) \/ PruneExpiredTokens

TokenNext ==
  \/ \E c \in Call : AnyRequest(c) \/ Serve(c) \/ Fails(c) \/ Leave(c)
  \/ Passes

TokenSpec == TokenInit /\ [][TokenNext]_tokenVars

-----------------------------------------------------------------------------
(* A family in which no row is live and no rotation is past its check. *)
Dead(f) ==
  /\ FamilyRows(f) # {}
  /\ \A t \in FamilyRows(f) : rows[t].state # "live"
  /\ \A c \in Call : At(c, "issue") => rows[calls[c].token].family # f

(* DeadStaysDead.  A session that has come to its end, by reuse, logout or *)
(* pruning, never comes back: whatever old token is sent and however calls *)
(* interleave, rotate issues no token into that family again.              *)
DeadStaysDead == [][\A f \in Family : Dead(f) => Dead(f)']_tokenVars

(* ReplacementsAreChained.  replacedById leads from a row that is no       *)
(* longer live to one of the same family and admin, and no row replaces    *)
(* two others (the column is unique), although the new row is inserted,    *)
(* looked up and linked by separate statements of racing calls.            *)
ReplacementsAreChained ==
  \A t \in Token : rows[t].next # NoToken =>
    /\ rows[t].state # "live"
    /\ rows[t].next # t
    /\ rows[rows[t].next].family = rows[t].family
    /\ rows[rows[t].next].admin = rows[t].admin
    /\ \A u \in Token : rows[u].next = rows[t].next => u = t

(* ChainInv is the inductive form of ReplacementsAreChained: a rotation    *)
(* about to link its new row is the only one that holds it, and holds one  *)
(* of the right family and admin.                                          *)
LinksAreReal ==
  \A t \in Token : rows[t].next # NoToken =>
    rows[t].state # "absent" /\ rows[rows[t].next].state # "absent"

MarksAreOwn ==
  \A c \in Call : At(c, "mark") =>
    /\ calls[c].new # calls[c].token
    /\ rows[calls[c].new].family = rows[calls[c].token].family
    /\ rows[calls[c].new].admin = rows[calls[c].token].admin
    /\ \A t \in Token : rows[t].next # calls[c].new
    /\ \A d \in Call : At(d, "mark") /\ calls[d].new = calls[c].new => d = c

ChainInv == ReplacementsAreChained /\ LinksAreReal /\ MarksAreOwn

(* RevokedFamilyIsDead.  docs/cms-backend-plan.md:83 "revoke toan bo       *)
(* family": once reuse was detected no token of the family is usable.      *)
RevokedFamilyIsDead ==
  \A t \in Token : rows[t].family \in burnt => rows[t].state # "live"
=============================================================================
