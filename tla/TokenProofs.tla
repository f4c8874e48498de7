---------------------------- MODULE TokenProofs ----------------------------
(***************************************************************************)
(* What holds of admin sessions whatever their clients do: types, the      *)
(* chain of replacements, and that a dead family stays dead.               *)
(***************************************************************************)
EXTENDS TokenClients, TLAPS

(* One step that makes rows live, revoked, aged, expired or deleted and    *)
(* leaves no row out.                                                      *)
RowsOnlyFade ==
  /\ rows' \in [Token -> TokenRow]
  /\ \A t \in Token :
       /\ rows'[t].family = rows[t].family
       /\ rows'[t].admin = rows[t].admin
       /\ rows'[t].state = "absent" <=> rows[t].state = "absent"
       /\ rows'[t].state = "live" => rows[t].state = "live"

LEMMA RevokeFades ==
  ASSUME TokensTypeOK, NEW S, RevokeRows(S)
  PROVE  RowsOnlyFade /\ \A t \in Token : rows'[t].next = rows[t].next
<1>1. rows' = [t \in Token |-> IF t \in S /\ Present(t)
                                 THEN [rows[t] EXCEPT !.state = "revoked"] ELSE rows[t]]
  BY DEF RevokeRows
<1>2. ASSUME NEW t \in Token
      PROVE  /\ rows'[t] \in TokenRow
             /\ rows'[t].family = rows[t].family
             /\ rows'[t].admin = rows[t].admin
             /\ rows'[t].next = rows[t].next
             /\ rows'[t].state = "absent" <=> rows[t].state = "absent"
             /\ rows'[t].state = "live" => rows[t].state = "live"
  BY <1>1, <1>2 DEF TokensTypeOK, TokenRow, Present
<1>. QED  BY <1>1, <1>2 DEF RowsOnlyFade

LEMMA MarkFades ==
  ASSUME TokensTypeOK, NEW c \in Call, MarkRotated(c)
  PROVE  RowsOnlyFade
<1>1. /\ calls[c].token \in Token /\ rows[calls[c].token].state # "absent"
      /\ calls[c].new \in Token
  BY DEF MarkRotated, At, TokensTypeOK
<1>. QED  BY <1>1 DEF MarkRotated, RowsOnlyFade, TokensTypeOK, TokenRow

LEMMA EnvironmentFades ==
  ASSUME TokensTypeOK, Passes
  PROVE  /\ RowsOnlyFade /\ UNCHANGED <<calls, burnt>>
         /\ \A t \in Token : rows'[t].next = rows[t].next
<1>1. ASSUME NEW t \in Token, Expire(t)
      PROVE  /\ RowsOnlyFade /\ UNCHANGED <<calls, burnt>>
             /\ \A u \in Token : rows'[u].next = rows[u].next
  <2>1. [rows[t] EXCEPT !.expired = TRUE] \in TokenRow
    BY DEF TokensTypeOK, TokenRow
  <2>2. rows' = [rows EXCEPT ![t] = [rows[t] EXCEPT !.expired = TRUE]]
    BY <1>1 DEF Expire
  <2>3. rows' \in [Token -> TokenRow]
    BY <2>1, <2>2 DEF TokensTypeOK
  <2>. QED
    BY <1>1, <2>2, <2>3 DEF Expire, Present, TokensTypeOK, TokenRow, RowsOnlyFade
<1>2. ASSUME NEW t \in Token, RevocationAges(t)
      PROVE  /\ RowsOnlyFade /\ UNCHANGED <<calls, burnt>>
             /\ \A u \in Token : rows'[u].next = rows[u].next
  <2>1. [rows[t] EXCEPT !.state = "aged"] \in TokenRow
    BY DEF TokensTypeOK, TokenRow
  <2>2. rows' = [rows EXCEPT ![t] = [rows[t] EXCEPT !.state = "aged"]]
    BY <1>2 DEF RevocationAges
  <2>3. rows' \in [Token -> TokenRow]
    BY <2>1, <2>2 DEF TokensTypeOK
  <2>. QED
    BY <1>2, <2>2, <2>3 DEF RevocationAges, Present, TokensTypeOK, TokenRow, RowsOnlyFade
<1>3. ASSUME PruneExpiredTokens
      PROVE  /\ RowsOnlyFade /\ UNCHANGED <<calls, burnt>>
             /\ \A t \in Token : rows'[t].next = rows[t].next
  <2>1. ASSUME NEW t \in Token
        PROVE  /\ rows'[t] \in TokenRow
               /\ rows'[t].family = rows[t].family
               /\ rows'[t].admin = rows[t].admin
               /\ rows'[t].next = rows[t].next
               /\ rows'[t].state = "absent" <=> rows[t].state = "absent"
               /\ rows'[t].state = "live" => rows[t].state = "live"
    BY <1>3, <2>1 DEF PruneExpiredTokens, TokensTypeOK, TokenRow, Present
  <2>2. rows' \in [Token -> TokenRow]
    BY <1>3, <2>1 DEF PruneExpiredTokens
  <2>. QED  BY <1>3, <2>1, <2>2 DEF RowsOnlyFade, PruneExpiredTokens
<1>. QED  BY <1>1, <1>2, <1>3 DEF Passes

(* The row a login or a rotation inserts. *)
LEMMA NewRowIs ==
  ASSUME TokensTypeOK, NEW n \in Token, NEW f \in Family, NEW a \in Admin \cup {NoAdmin},
         rows[n].state = "absent", NewRow(n, f, a)
  PROVE  /\ rows' \in [Token -> TokenRow]
         /\ rows'[n].state = "live" /\ rows'[n].family = f
         /\ rows'[n].admin = a /\ rows'[n].next = NoToken
         /\ \A t \in Token : t # n => rows'[t] = rows[t]
<1>1. [Absent EXCEPT !.state = "live", !.family = f, !.admin = a] \in TokenRow
  BY DEF Absent, TokenRow
<1>. QED  BY <1>1 DEF NewRow, TokensTypeOK, Absent

-----------------------------------------------------------------------------
LEMMA TokensTypeInit == TokenInit => TokensTypeOK
  BY SessionNullsAreDistinct
  DEF TokenInit, TokensInit, TokensTypeOK, TokenRow, CallState, Absent, Idle

LEMMA RequestTyped ==
  ASSUME TokensTypeOK, NEW c \in Call, AnyRequest(c)
  PROVE  TokensTypeOK'
<1>1. ASSUME NEW pc \in {"enter", "find", "revoke", "revokeAll"},
             NEW t \in Token \cup {NoToken}, NEW a \in Admin \cup {NoAdmin},
             Arrive(c, pc, t, a)
      PROVE  TokensTypeOK'
  <2>1. [Idle EXCEPT !.pc = pc, !.token = t, !.admin = a] \in CallState
    BY DEF Idle, CallState
  <2>. QED  BY <1>1, <2>1 DEF Arrive, TokensTypeOK, Idle
<1>. QED  BY <1>1 DEF AnyRequest, Login, LogoutAll, Refresh, Logout, IssuedTokens

LEMMA ServeTyped ==
  ASSUME TokensTypeOK, NEW c \in Call, Serve(c) \/ Fails(c) \/ Leave(c)
  PROVE  TokensTypeOK'
<1>0. calls[c] \in CallState
  BY DEF TokensTypeOK
<1>p. ASSUME NEW pc \in {"reuse", "issue", "admin", "granted", "cleared", "refused", "failed"}, GoTo(c, pc)
      PROVE  calls' \in [Call -> CallState]
  <2>1. [calls[c] EXCEPT !.pc = pc] \in CallState
    BY <1>0 DEF CallState
  <2>. QED  BY <1>p, <2>1 DEF GoTo, TokensTypeOK
<1>1. ASSUME NEW n \in Token, NEW f \in Family, Enter(c, n, f)
      PROVE  TokensTypeOK'
  <2>1. calls' = [calls EXCEPT ![c].pc = "granted", ![c].new = n] /\ burnt' = burnt
    BY <1>1 DEF Enter
  <2>2. calls' \in [Call -> CallState]
    BY <1>0, <2>1 DEF CallState, TokensTypeOK
  <2>3. calls[c].admin \in Admin \cup {NoAdmin}
    BY <1>0 DEF CallState
  <2>4. /\ rows' \in [Token -> TokenRow]
        /\ rows'[n].state = "live" /\ rows'[n].family = f
        /\ \A t \in Token : t # n => rows'[t] = rows[t]
    BY <1>1, <2>3, NewRowIs DEF Enter
  <2>. QED  BY <2>1, <2>2, <2>4, SessionNullsAreDistinct DEF TokensTypeOK
<1>2. ASSUME FindNone(c) \/ FindRevoked(c) \/ FindExpired(c) \/ FindLive(c)
      PROVE  TokensTypeOK'
  <2>1. PICK pc \in {"refused", "reuse", "issue"} :
          /\ GoTo(c, pc) /\ UNCHANGED <<rows, burnt>>
          /\ pc # "refused" => Present(calls[c].token)
    BY <1>2 DEF FindNone, FindRevoked, FindExpired, FindLive
  <2>2. calls' \in [Call -> CallState]
    BY <2>1, <1>p
  <2>. QED  BY <2>1, <2>2 DEF GoTo, Present, TokensTypeOK
<1>3. ASSUME RevokeFamily(c) PROVE TokensTypeOK'
  <2>1. /\ calls[c].token \in Token /\ rows[calls[c].token].state # "absent"
        /\ rows[calls[c].token].family \in Family
    BY <1>3 DEF RevokeFamily, At, TokensTypeOK, TokenRow
  <2>2. RowsOnlyFade
    BY <1>3, RevokeFades DEF RevokeFamily
  <2>3. calls' \in [Call -> CallState]
    BY <1>3, <1>p DEF RevokeFamily
  <2>4. burnt' \in SUBSET Family
    BY <1>3, <2>1 DEF RevokeFamily, TokensTypeOK
  <2>. QED  BY <1>3, <2>2, <2>3, <2>4 DEF RevokeFamily, GoTo, TokensTypeOK, RowsOnlyFade
<1>4. ASSUME NEW n \in Token, Issue(c, n) PROVE TokensTypeOK'
  <2>0. calls[c].token \in Token /\ rows[calls[c].token].state # "absent"
    BY <1>4 DEF Issue, At, TokensTypeOK
  <2>1. calls' = [calls EXCEPT ![c].pc = "mark", ![c].new = n] /\ burnt' = burnt
    BY <1>4 DEF Issue
  <2>2. calls' \in [Call -> CallState]
    BY <1>0, <2>1 DEF CallState, TokensTypeOK
  <2>3. /\ rows[calls[c].token].family \in Family
        /\ rows[calls[c].token].admin \in Admin \cup {NoAdmin}
    BY <2>0 DEF TokensTypeOK, TokenRow
  <2>4. /\ rows' \in [Token -> TokenRow]
        /\ rows'[n].state = "live" /\ rows'[n].family \in Family
        /\ \A t \in Token : t # n => rows'[t] = rows[t]
    BY <1>4, <2>3, NewRowIs DEF Issue
  <2>. QED  BY <2>0, <2>1, <2>2, <2>4, SessionNullsAreDistinct DEF TokensTypeOK
<1>5. ASSUME MarkRotated(c) PROVE TokensTypeOK'
  <2>0. /\ calls[c].token \in Token /\ rows[calls[c].token].state # "absent"
        /\ calls[c].new \in Token /\ rows[calls[c].new].state # "absent"
    BY <1>5 DEF MarkRotated, At, TokensTypeOK
  <2>1. calls' \in [Call -> CallState]
    BY <1>5, <1>p DEF MarkRotated
  <2>2. RowsOnlyFade
    BY <1>5, MarkFades
  <2>. QED  BY <1>5, <2>0, <2>1, <2>2 DEF MarkRotated, GoTo, TokensTypeOK, RowsOnlyFade
<1>6. ASSUME MarkPruned(c) \/ FindAdmin(c) \/ Fails(c) PROVE TokensTypeOK'
  <2>1. PICK pc \in {"refused", "failed", "granted"} :
          /\ GoTo(c, pc) /\ UNCHANGED <<rows, burnt>>
          /\ pc = "granted" => Present(calls[c].new)
    BY <1>6 DEF MarkPruned, FindAdmin, Fails
  <2>2. calls' \in [Call -> CallState]
    BY <2>1, <1>p
  <2>. QED  BY <2>1, <2>2 DEF GoTo, Present, TokensTypeOK
<1>7. ASSUME Revoke(c) \/ RevokeAllForAdmin(c) PROVE TokensTypeOK'
  <2>1. GoTo(c, "cleared") /\ UNCHANGED burnt
    BY <1>7 DEF Revoke, RevokeAllForAdmin
  <2>2. RowsOnlyFade
    BY <1>7, RevokeFades DEF Revoke, RevokeAllForAdmin
  <2>3. calls' \in [Call -> CallState]
    BY <2>1, <1>p
  <2>. QED  BY <2>1, <2>2, <2>3 DEF GoTo, TokensTypeOK, RowsOnlyFade
<1>8. ASSUME Leave(c) PROVE TokensTypeOK'
  <2>1. Idle \in CallState
    BY DEF Idle, CallState
  <2>. QED  BY <1>8, <2>1 DEF Leave, TokensTypeOK, Idle
<1>. QED  BY <1>1, <1>2, <1>3, <1>4, <1>5, <1>6, <1>7, <1>8 DEF Serve

LEMMA TokensTypeStep ==
  ASSUME TokensTypeOK, [TokenNext]_tokenVars
  PROVE  TokensTypeOK'
<1>1. CASE UNCHANGED tokenVars
  BY <1>1 DEF tokenVars, TokensTypeOK
<1>2. ASSUME Passes PROVE TokensTypeOK'
  BY <1>2, EnvironmentFades DEF TokensTypeOK, RowsOnlyFade
<1>3. ASSUME NEW c \in Call, AnyRequest(c) \/ Serve(c) \/ Fails(c) \/ Leave(c)
      PROVE  TokensTypeOK'
  BY <1>3, RequestTyped, ServeTyped
<1>. QED  BY <1>1, <1>2, <1>3 DEF TokenNext

(* The rows, the calls and what each call needs for its next statement are *)
(* well formed (refresh-token.service.ts).                                 *)
THEOREM TokensTypeCorrect == TokenSpec => []TokensTypeOK
  BY TokensTypeInit, TokensTypeStep, PTL DEF TokenSpec

-----------------------------------------------------------------------------
(* Statements that neither insert nor link a row. *)
RowsKeepLinks == RowsOnlyFade /\ \A t \in Token : rows'[t].next = rows[t].next

LEMMA StillFades ==
  ASSUME TokensTypeOK, UNCHANGED rows
  PROVE  RowsKeepLinks
  BY DEF RowsKeepLinks, RowsOnlyFade, TokensTypeOK

(* Everything but INSERT and MarkRotated keeps the links, brings no call   *)
(* to "mark", and to "issue" only after the token was found live.          *)
LEMMA OtherSteps ==
  ASSUME TokensTypeOK, NEW c \in Call,
         \/ AnyRequest(c) \/ FindNone(c) \/ FindRevoked(c) \/ RevokeFamily(c)
         \/ FindExpired(c) \/ FindLive(c) \/ MarkPruned(c) \/ FindAdmin(c)
         \/ Revoke(c) \/ RevokeAllForAdmin(c) \/ Fails(c) \/ Leave(c)
  PROVE  /\ RowsKeepLinks
         /\ \A d \in Call : calls'[d].pc = "mark" => calls'[d] = calls[d]
         /\ \A d \in Call : calls'[d].pc = "issue" =>
              \/ calls'[d] = calls[d]
              \/ /\ calls'[d].token = calls[d].token
                 /\ calls[d].token \in Token /\ rows[calls[d].token].state = "live"
<1>g. ASSUME NEW pc \in {"reuse", "granted", "cleared", "refused", "failed"}, GoTo(c, pc)
      PROVE  \A d \in Call : calls'[d].pc \in {"mark", "issue"} => calls'[d] = calls[d]
  BY <1>g DEF GoTo, TokensTypeOK
<1>1. CASE AnyRequest(c)
  <2>1. PICK pc \in {"enter", "find", "revoke", "revokeAll"} : \E t, a : Arrive(c, pc, t, a)
    BY <1>1 DEF AnyRequest, Login, LogoutAll, Refresh, Logout
  <2>2. \A d \in Call : calls'[d].pc \in {"mark", "issue"} => calls'[d] = calls[d]
    BY <2>1 DEF Arrive, Idle, TokensTypeOK
  <2>. QED  BY <2>1, <2>2, StillFades DEF Arrive
<1>2. CASE FindNone(c) \/ FindRevoked(c) \/ FindExpired(c) \/ MarkPruned(c)
           \/ FindAdmin(c) \/ Fails(c)
  <2>1. PICK pc \in {"reuse", "granted", "refused", "failed"} : GoTo(c, pc) /\ UNCHANGED rows
    BY <1>2 DEF FindNone, FindRevoked, FindExpired, MarkPruned, FindAdmin, Fails
  <2>. QED  BY <2>1, <1>g, StillFades
<1>3. CASE FindLive(c)
  <2>1. GoTo(c, "issue") /\ UNCHANGED rows /\ Present(calls[c].token)
          /\ rows[calls[c].token].state = "live"
    BY <1>3 DEF FindLive
  <2>2. \A d \in Call : d # c => calls'[d] = calls[d]
    BY <2>1 DEF GoTo, TokensTypeOK
  <2>3. calls'[c].pc = "issue" /\ calls'[c].token = calls[c].token
    BY <2>1 DEF GoTo, TokensTypeOK, CallState
  <2>. QED  BY <2>1, <2>2, <2>3, StillFades DEF Present
<1>4. CASE RevokeFamily(c) \/ Revoke(c) \/ RevokeAllForAdmin(c)
  <2>1. PICK pc \in {"refused", "cleared"} : GoTo(c, pc)
    BY <1>4 DEF RevokeFamily, Revoke, RevokeAllForAdmin
  <2>2. RowsKeepLinks
    BY <1>4, RevokeFades DEF RevokeFamily, Revoke, RevokeAllForAdmin, RowsKeepLinks
  <2>. QED  BY <2>1, <2>2, <1>g
<1>5. CASE Leave(c)
  <2>1. \A d \in Call : calls'[d].pc \in {"mark", "issue"} => calls'[d] = calls[d]
    BY <1>5 DEF Leave, Idle, TokensTypeOK
  <2>. QED  BY <1>5, <2>1, StillFades DEF Leave
<1>. QED  BY <1>1, <1>2, <1>3, <1>4, <1>5

LEMMA StepKinds ==
  ASSUME [TokenNext]_tokenVars
  PROVE  \/ UNCHANGED tokenVars \/ Passes
         \/ \E c \in Call :
              \/ AnyRequest(c) \/ FindNone(c) \/ FindRevoked(c) \/ RevokeFamily(c)
              \/ FindExpired(c) \/ FindLive(c) \/ MarkPruned(c) \/ FindAdmin(c)
              \/ Revoke(c) \/ RevokeAllForAdmin(c) \/ Fails(c) \/ Leave(c)
         \/ \E c \in Call, n \in Token, f \in Family : Enter(c, n, f)
         \/ \E c \in Call, n \in Token : Issue(c, n)
         \/ \E c \in Call : MarkRotated(c)
  BY DEF TokenNext, Serve

-----------------------------------------------------------------------------
LEMMA DeadFrame ==
  ASSUME TokensTypeOK, NEW f \in Family, Dead(f), RowsOnlyFade,
         \A d \in Call : calls'[d].pc = "issue" =>
           \/ calls'[d] = calls[d]
           \/ /\ calls'[d].token = calls[d].token
              /\ calls[d].token \in Token /\ rows[calls[d].token].state = "live"
  PROVE  Dead(f)'
<1>1. FamilyRows(f)' = FamilyRows(f)
  BY DEF FamilyRows, RowsOnlyFade
<1>2. \A t \in FamilyRows(f) : rows'[t].state # "live"
  BY DEF Dead, FamilyRows, RowsOnlyFade
<1>3. ASSUME NEW d \in Call, calls'[d].pc = "issue"
      PROVE  rows'[calls'[d].token].family # f
  <2>1. CASE calls'[d] = calls[d]
    BY <1>3, <2>1 DEF Dead, At, TokensTypeOK, RowsOnlyFade
  <2>2. CASE /\ calls'[d].token = calls[d].token
             /\ calls[d].token \in Token /\ rows[calls[d].token].state = "live"
    BY <2>2 DEF Dead, FamilyRows, RowsOnlyFade
  <2>. QED  BY <1>3, <2>1, <2>2
<1>. QED  BY <1>1, <1>2, <1>3 DEF Dead, At

(* An INSERT into another family. *)
LEMMA DeadInsert ==
  ASSUME TokensTypeOK, NEW f \in Family, Dead(f), NEW n \in Token,
         rows[n].state = "absent", rows'[n].family # f,
         \A t \in Token : t # n => rows'[t] = rows[t],
         \A d \in Call : calls'[d].pc = "issue" => calls'[d] = calls[d]
  PROVE  Dead(f)'
<1>1. FamilyRows(f)' = FamilyRows(f) /\ n \notin FamilyRows(f)
  BY SessionNullsAreDistinct DEF FamilyRows, TokensTypeOK
<1>2. \A t \in FamilyRows(f) : rows'[t].state # "live"
  BY <1>1 DEF Dead, FamilyRows
<1>3. ASSUME NEW d \in Call, calls'[d].pc = "issue"
      PROVE  rows'[calls'[d].token].family # f
  BY <1>3 DEF Dead, At, TokensTypeOK
<1>. QED  BY <1>1, <1>2, <1>3 DEF Dead, At

LEMMA DeadStep ==
  ASSUME TokensTypeOK, [TokenNext]_tokenVars, NEW f \in Family, Dead(f)
  PROVE  Dead(f)'
<1>1. CASE UNCHANGED tokenVars
  BY <1>1, StillFades, DeadFrame DEF tokenVars, RowsKeepLinks
<1>2. CASE Passes
  BY <1>2, EnvironmentFades, DeadFrame
<1>3. ASSUME NEW c \in Call,
             \/ AnyRequest(c) \/ FindNone(c) \/ FindRevoked(c) \/ RevokeFamily(c)
             \/ FindExpired(c) \/ FindLive(c) \/ MarkPruned(c) \/ FindAdmin(c)
             \/ Revoke(c) \/ RevokeAllForAdmin(c) \/ Fails(c) \/ Leave(c)
      PROVE  Dead(f)'
  BY <1>3, OtherSteps, DeadFrame DEF RowsKeepLinks
<1>4. ASSUME NEW c \in Call, NEW n \in Token, NEW g \in Family, Enter(c, n, g)
      PROVE  Dead(f)'
  <2>1. g # f
    BY <1>4 DEF Enter, Dead
  <2>2. calls[c].admin \in Admin \cup {NoAdmin}
    BY DEF TokensTypeOK, CallState
  <2>3. rows'[n].family = g /\ \A t \in Token : t # n => rows'[t] = rows[t]
    BY <1>4, <2>2, NewRowIs DEF Enter
  <2>4. \A d \in Call : calls'[d].pc = "issue" => calls'[d] = calls[d]
    BY <1>4 DEF Enter, TokensTypeOK, CallState
  <2>. QED  BY <1>4, <2>1, <2>3, <2>4, DeadInsert DEF Enter
<1>5. ASSUME NEW c \in Call, NEW n \in Token, Issue(c, n)
      PROVE  Dead(f)'
  <2>1. /\ rows[calls[c].token].family \in Family /\ rows[calls[c].token].family # f
        /\ rows[calls[c].token].admin \in Admin \cup {NoAdmin}
    BY <1>5 DEF Issue, At, Dead, TokensTypeOK, TokenRow
  <2>2. /\ rows'[n].family = rows[calls[c].token].family
        /\ \A t \in Token : t # n => rows'[t] = rows[t]
    BY <1>5, <2>1, NewRowIs DEF Issue
  <2>3. \A d \in Call : calls'[d].pc = "issue" => calls'[d] = calls[d]
    BY <1>5 DEF Issue, TokensTypeOK, CallState
  <2>. QED  BY <1>5, <2>1, <2>2, <2>3, DeadInsert DEF Issue
<1>6. ASSUME NEW c \in Call, MarkRotated(c)
      PROVE  Dead(f)'
  <2>1. RowsOnlyFade
    BY <1>6, MarkFades
  <2>2. \A d \in Call : calls'[d].pc = "issue" => calls'[d] = calls[d]
    BY <1>6 DEF MarkRotated, GoTo, TokensTypeOK, CallState
  <2>. QED  BY <2>1, <2>2, DeadFrame
<1>. QED  BY <1>1, <1>2, <1>3, <1>4, <1>5, <1>6, StepKinds

(* A session that has come to its end never comes back, whatever tokens    *)
(* are sent (rotate, refresh-token.service.ts:52-90).                      *)
THEOREM DeadFamiliesStayDead == TokenSpec => DeadStaysDead
<1>1. TokensTypeOK /\ [TokenNext]_tokenVars => [\A f \in Family : Dead(f) => Dead(f)']_tokenVars
  BY DeadStep
<1>. QED  BY <1>1, TokensTypeCorrect, PTL DEF TokenSpec, DeadStaysDead

-----------------------------------------------------------------------------
LEMMA ChainFrame ==
  ASSUME TokensTypeOK, ChainInv, RowsKeepLinks,
         \A d \in Call : calls'[d].pc = "mark" => calls'[d] = calls[d]
  PROVE  ChainInv'
<1>1. ReplacementsAreChained' /\ LinksAreReal'
  <2>1. ASSUME NEW t \in Token, rows'[t].next # NoToken
        PROVE  /\ rows'[t].state # "live" /\ rows'[t].state # "absent"
               /\ rows'[t].next # t
               /\ rows'[rows'[t].next].state # "absent"
               /\ rows'[rows'[t].next].family = rows'[t].family
               /\ rows'[rows'[t].next].admin = rows'[t].admin
               /\ \A u \in Token : rows'[u].next = rows'[t].next => u = t
    <3>1. rows[t].next = rows'[t].next /\ rows[t].next \in Token
      BY <2>1 DEF RowsKeepLinks, TokensTypeOK, TokenRow
    <3>. QED  BY <2>1, <3>1 DEF ChainInv, ReplacementsAreChained, LinksAreReal,
                  RowsKeepLinks, RowsOnlyFade
  <2>. QED  BY <2>1 DEF ReplacementsAreChained, LinksAreReal
<1>2. MarksAreOwn'
  <2>1. ASSUME NEW c \in Call, calls'[c].pc = "mark"
        PROVE  /\ calls'[c] = calls[c] /\ At(c, "mark")
               /\ calls[c].new \in Token /\ calls[c].token \in Token
    BY <2>1 DEF At, TokensTypeOK
  <2>2. ASSUME NEW c \in Call, calls'[c].pc = "mark"
        PROVE  /\ calls'[c].new # calls'[c].token
               /\ rows'[calls'[c].new].family = rows'[calls'[c].token].family
               /\ rows'[calls'[c].new].admin = rows'[calls'[c].token].admin
               /\ \A t \in Token : rows'[t].next # calls'[c].new
               /\ \A d \in Call : calls'[d].pc = "mark" /\ calls'[d].new = calls'[c].new => d = c
    BY <2>1, <2>2 DEF ChainInv, MarksAreOwn, RowsKeepLinks, RowsOnlyFade
  <2>. QED  BY <2>2 DEF MarksAreOwn, At
<1>. QED  BY <1>1, <1>2 DEF ChainInv

(* An INSERT of a row nothing points to, by a call that keeps it or not.   *)
LEMMA ChainInsert ==
  ASSUME TokensTypeOK, ChainInv, NEW n \in Token, NEW c \in Call,
         rows[n].state = "absent", rows'[n].next = NoToken,
         \A t \in Token : t # n => rows'[t] = rows[t],
         \A d \in Call : d # c => calls'[d] = calls[d],
         calls'[c].pc = "mark" =>
           /\ calls'[c].new = n
           /\ calls'[c].token \in Token /\ rows[calls'[c].token].state # "absent"
           /\ rows'[n].family = rows[calls'[c].token].family
           /\ rows'[n].admin = rows[calls'[c].token].admin
  PROVE  ChainInv'
<1>1. ASSUME NEW t \in Token, rows[t].next # NoToken
      PROVE  t # n /\ rows[t].next \in Token /\ rows[t].next # n
  BY <1>1 DEF ChainInv, LinksAreReal, TokensTypeOK, TokenRow
<1>2. ReplacementsAreChained' /\ LinksAreReal'
  <2>1. ASSUME NEW t \in Token, rows'[t].next # NoToken
        PROVE  /\ rows'[t].state # "live" /\ rows'[t].state # "absent"
               /\ rows'[t].next # t
               /\ rows'[rows'[t].next].state # "absent"
               /\ rows'[rows'[t].next].family = rows'[t].family
               /\ rows'[rows'[t].next].admin = rows'[t].admin
               /\ \A u \in Token : rows'[u].next = rows'[t].next => u = t
    <3>1. t # n /\ rows'[t] = rows[t] /\ rows[t].next # NoToken
      BY <2>1
    <3>2. rows[t].next \in Token /\ rows[t].next # n
      BY <3>1, <1>1
    <3>. QED  BY <2>1, <3>1, <3>2 DEF ChainInv, ReplacementsAreChained, LinksAreReal
  <2>. QED  BY <2>1 DEF ReplacementsAreChained, LinksAreReal
<1>3. ASSUME NEW d \in Call, d # c, calls'[d].pc = "mark"
      PROVE  /\ calls'[d] = calls[d] /\ At(d, "mark")
             /\ calls[d].token \in Token /\ rows[calls[d].token].state # "absent"
             /\ calls[d].new \in Token /\ rows[calls[d].new].state # "absent"
             /\ calls[d].token # n /\ calls[d].new # n
  BY <1>3 DEF At, TokensTypeOK
<1>4. \A t \in Token : rows'[t].next # n
  <2>1. n # NoToken
    BY SessionNullsAreDistinct
  <2>2. ASSUME NEW t \in Token, t # n PROVE rows'[t].next # n
    BY <1>1, <2>1, <2>2
  <2>. QED  BY <2>1, <2>2
<1>5. ASSUME NEW d \in Call, calls'[d].pc = "mark"
      PROVE  /\ calls'[d].new # calls'[d].token
             /\ rows'[calls'[d].new].family = rows'[calls'[d].token].family
             /\ rows'[calls'[d].new].admin = rows'[calls'[d].token].admin
             /\ \A t \in Token : rows'[t].next # calls'[d].new
             /\ \A e \in Call : calls'[e].pc = "mark" /\ calls'[e].new = calls'[d].new => e = d
  <2>1. CASE d = c
    <3>1. calls'[c].token # n
      BY <1>5, <2>1
    <3>. QED  BY <1>5, <1>3, <1>4, <2>1, <3>1
  <2>2. CASE d # c
    <3>1. \A t \in Token : rows'[t].next # calls'[d].new
      <4>1. calls[d].new # NoToken
        BY <1>5, <1>3, <2>2, SessionNullsAreDistinct
      <4>. QED  BY <1>5, <1>3, <2>2, <4>1 DEF ChainInv, MarksAreOwn
    <3>2. \A e \in Call : calls'[e].pc = "mark" /\ calls'[e].new = calls'[d].new => e = d
      BY <1>5, <1>3, <2>2 DEF ChainInv, MarksAreOwn
    <3>. QED  BY <1>5, <1>3, <2>2, <3>1, <3>2 DEF ChainInv, MarksAreOwn
  <2>. QED  BY <2>1, <2>2
<1>6. MarksAreOwn'
  BY <1>5 DEF MarksAreOwn, At
<1>. QED  BY <1>2, <1>6 DEF ChainInv

LEMMA ChainMark ==
  ASSUME TokensTypeOK, ChainInv, NEW c \in Call, MarkRotated(c)
  PROVE  ChainInv'
<1> DEFINE old == calls[c].token
           n == calls[c].new
<1>1. /\ old \in Token /\ n \in Token /\ n # old /\ n # NoToken
      /\ rows[old].state # "absent" /\ rows[n].state # "absent"
      /\ rows[n].family = rows[old].family /\ rows[n].admin = rows[old].admin
      /\ \A t \in Token : rows[t].next # n
      /\ \A d \in Call : At(d, "mark") /\ calls[d].new = n => d = c
  BY SessionNullsAreDistinct DEF MarkRotated, At, ChainInv, MarksAreOwn, TokensTypeOK
<1>2. /\ \A t \in Token : t # old => rows'[t] = rows[t]
      /\ rows'[old].state = "revoked" /\ rows'[old].next = n
      /\ rows'[old].family = rows[old].family /\ rows'[old].admin = rows[old].admin
  BY <1>1 DEF MarkRotated, TokensTypeOK, TokenRow
<1>3. \A t \in Token : /\ rows'[t].family = rows[t].family /\ rows'[t].admin = rows[t].admin
                       /\ rows[t].state # "absent" => rows'[t].state # "absent"
  BY <1>1, <1>2
<1>4. ReplacementsAreChained' /\ LinksAreReal'
  <2>1. ASSUME NEW t \in Token, rows'[t].next # NoToken
        PROVE  /\ rows'[t].state # "live" /\ rows'[t].state # "absent"
               /\ rows'[t].next # t
               /\ rows'[rows'[t].next].state # "absent"
               /\ rows'[rows'[t].next].family = rows'[t].family
               /\ rows'[rows'[t].next].admin = rows'[t].admin
               /\ \A u \in Token : rows'[u].next = rows'[t].next => u = t
    <3>1. CASE t = old
      BY <1>1, <1>2, <1>3, <3>1
    <3>2. CASE t # old
      <4>1. rows'[t] = rows[t] /\ rows[t].next \in Token /\ rows[t].next # n
        BY <1>1, <1>2, <2>1, <3>2 DEF TokensTypeOK, TokenRow
      <4>. QED  BY <1>2, <1>3, <2>1, <3>2, <4>1 DEF ChainInv, ReplacementsAreChained, LinksAreReal
    <3>. QED  BY <3>1, <3>2
  <2>. QED  BY <2>1 DEF ReplacementsAreChained, LinksAreReal
<1>5. ASSUME NEW d \in Call, calls'[d].pc = "mark"
      PROVE  d # c /\ calls'[d] = calls[d] /\ At(d, "mark")
  BY <1>5 DEF MarkRotated, GoTo, At, TokensTypeOK, CallState
<1>6. ASSUME NEW d \in Call, calls'[d].pc = "mark"
      PROVE  /\ calls'[d].new # calls'[d].token
             /\ rows'[calls'[d].new].family = rows'[calls'[d].token].family
             /\ rows'[calls'[d].new].admin = rows'[calls'[d].token].admin
             /\ \A t \in Token : rows'[t].next # calls'[d].new
             /\ \A e \in Call : calls'[e].pc = "mark" /\ calls'[e].new = calls'[d].new => e = d
  <2>1. /\ calls[d].new \in Token /\ calls[d].token \in Token /\ calls[d].new # n
        /\ calls'[d] = calls[d] /\ At(d, "mark")
    BY <1>1, <1>5, <1>6 DEF At, TokensTypeOK
  <2>2. \A t \in Token : rows'[t].next # calls'[d].new
    BY <1>1, <1>2, <2>1 DEF ChainInv, MarksAreOwn
  <2>3. \A e \in Call : calls'[e].pc = "mark" /\ calls'[e].new = calls'[d].new => e = d
    BY <1>5, <2>1 DEF ChainInv, MarksAreOwn
  <2>. QED  BY <1>3, <2>1, <2>2, <2>3 DEF ChainInv, MarksAreOwn
<1>7. MarksAreOwn'
  BY <1>6 DEF MarksAreOwn, At
<1>. QED  BY <1>4, <1>7 DEF ChainInv

LEMMA ChainStep ==
  ASSUME TokensTypeOK, ChainInv, [TokenNext]_tokenVars
  PROVE  ChainInv'
<1>1. CASE UNCHANGED tokenVars
  BY <1>1, StillFades, ChainFrame DEF tokenVars
<1>2. CASE Passes
  BY <1>2, EnvironmentFades, ChainFrame DEF RowsKeepLinks
<1>3. ASSUME NEW c \in Call,
             \/ AnyRequest(c) \/ FindNone(c) \/ FindRevoked(c) \/ RevokeFamily(c)
             \/ FindExpired(c) \/ FindLive(c) \/ MarkPruned(c) \/ FindAdmin(c)
             \/ Revoke(c) \/ RevokeAllForAdmin(c) \/ Fails(c) \/ Leave(c)
      PROVE  ChainInv'
  BY <1>3, OtherSteps, ChainFrame
<1>4. ASSUME NEW c \in Call, NEW n \in Token, NEW f \in Family, Enter(c, n, f)
      PROVE  ChainInv'
  <2>1. calls[c].admin \in Admin \cup {NoAdmin}
    BY DEF TokensTypeOK, CallState
  <2>2. rows'[n].next = NoToken /\ \A t \in Token : t # n => rows'[t] = rows[t]
    BY <1>4, <2>1, NewRowIs DEF Enter
  <2>3. calls'[c].pc = "granted" /\ \A d \in Call : d # c => calls'[d] = calls[d]
    BY <1>4 DEF Enter, TokensTypeOK, CallState
  <2>. QED  BY <1>4, <2>2, <2>3, ChainInsert DEF Enter
<1>5. ASSUME NEW c \in Call, NEW n \in Token, Issue(c, n)
      PROVE  ChainInv'
  <2>1. /\ calls[c].token \in Token /\ rows[calls[c].token].state # "absent"
        /\ rows[calls[c].token].family \in Family
        /\ rows[calls[c].token].admin \in Admin \cup {NoAdmin}
    BY <1>5 DEF Issue, At, TokensTypeOK, TokenRow
  <2>2. /\ rows'[n].next = NoToken
        /\ rows'[n].family = rows[calls[c].token].family
        /\ rows'[n].admin = rows[calls[c].token].admin
        /\ \A t \in Token : t # n => rows'[t] = rows[t]
    BY <1>5, <2>1, NewRowIs DEF Issue
  <2>3. /\ calls'[c].new = n /\ calls'[c].token = calls[c].token
        /\ \A d \in Call : d # c => calls'[d] = calls[d]
    BY <1>5 DEF Issue, TokensTypeOK, CallState
  <2>4. rows[n].state = "absent"
    BY <1>5 DEF Issue
  <2>5. /\ calls'[c].new = n
        /\ calls'[c].token \in Token /\ rows[calls'[c].token].state # "absent"
        /\ rows'[n].family = rows[calls'[c].token].family
        /\ rows'[n].admin = rows[calls'[c].token].admin
    BY <2>1, <2>2, <2>3
  <2>. QED  BY <2>2, <2>3, <2>4, <2>5, ChainInsert
<1>6. ASSUME NEW c \in Call, MarkRotated(c)
      PROVE  ChainInv'
  BY <1>6, ChainMark
<1>. QED  BY <1>1, <1>2, <1>3, <1>4, <1>5, <1>6, StepKinds

(* replacedById links a row that is not live to one of its own family and  *)
(* admin, and never two rows to one (rotate, and the unique column).       *)
THEOREM Chained == TokenSpec => []ReplacementsAreChained
<1>1. TokenInit => ChainInv
  BY DEF TokenInit, TokensInit, ChainInv, ReplacementsAreChained, LinksAreReal, MarksAreOwn,
         Absent, Idle, At
<1>2. ChainInv => ReplacementsAreChained
  BY DEF ChainInv
<1>3. TokensTypeOK /\ ChainInv /\ [TokenNext]_tokenVars => ChainInv'
  BY ChainStep
<1>. QED  BY <1>1, <1>2, <1>3, TokensTypeCorrect, PTL DEF TokenSpec
=============================================================================
