----------------------------- MODULE CmsProofs -----------------------------
(***************************************************************************)
(* The CMS is a client of the session endpoints: what TokenProofs shows    *)
(* for any client holds for it.                                            *)
(***************************************************************************)
EXTENDS CmsSession, TokenProofs

(* The browser's cookie is a token the server has issued. *)
CookieIsIssued == jar \in [access : BOOLEAN, refresh : IssuedTokens \cup {NoToken}]

LEMMA IssuedStay ==
  ASSUME TokensTypeOK, [TokenNext]_tokenVars
  PROVE  IssuedTokens \subseteq IssuedTokens'
<1>f. ASSUME RowsOnlyFade PROVE IssuedTokens \subseteq IssuedTokens'
  BY <1>f DEF RowsOnlyFade, IssuedTokens
<1>1. CASE UNCHANGED tokenVars
  BY <1>1 DEF tokenVars, IssuedTokens
<1>2. CASE Passes
  BY <1>2, <1>f, EnvironmentFades
<1>3. ASSUME NEW c \in Call,
             \/ AnyRequest(c) \/ FindNone(c) \/ FindRevoked(c) \/ RevokeFamily(c)
             \/ FindExpired(c) \/ FindLive(c) \/ MarkPruned(c) \/ FindAdmin(c)
             \/ Revoke(c) \/ RevokeAllForAdmin(c) \/ Fails(c) \/ Leave(c)
      PROVE  IssuedTokens \subseteq IssuedTokens'
  BY <1>3, <1>f, OtherSteps DEF RowsKeepLinks
<1>4. ASSUME NEW c \in Call, NEW n \in Token, NEW f \in Family, Enter(c, n, f)
      PROVE  IssuedTokens \subseteq IssuedTokens'
  BY <1>4 DEF Enter, NewRow, IssuedTokens, TokensTypeOK
<1>5. ASSUME NEW c \in Call, NEW n \in Token, Issue(c, n)
      PROVE  IssuedTokens \subseteq IssuedTokens'
  BY <1>5 DEF Issue, NewRow, IssuedTokens, TokensTypeOK
<1>6. ASSUME NEW c \in Call, MarkRotated(c)
      PROVE  IssuedTokens \subseteq IssuedTokens'
  BY <1>6, <1>f, MarkFades
<1>. QED  BY <1>1, <1>2, <1>3, <1>4, <1>5, <1>6, StepKinds

LEMMA NoTokenOrIssued ==
  ASSUME TokensTypeOK, CookieIsIssued, NEW c \in Call
  PROVE  Refresh(c, jar.refresh) \/ Logout(c, jar.refresh) => TokenNext
  BY DEF CookieIsIssued, TokenNext, AnyRequest

(* Every step of the browser is a step of a token client or hidden. *)
LEMMA CmsStepIsTokenStep ==
  ASSUME TokensTypeOK, CookieIsIssued, [CmsNext]_cmsVars
  PROVE  [TokenNext]_tokenVars
<1>1. CASE UNCHANGED cmsVars
  BY <1>1 DEF cmsVars
<1>2. ASSUME NEW x \in Tab, TabStep(x)
      PROVE  [TokenNext]_tokenVars
  <2>1. ASSUME NEW q \in Query,
               \/ Ask(x, q) \/ Repeat(x, q) \/ OkArrives(x, q) \/ ErrorArrives(x, q)
               \/ JoinFlight(x, q) \/ LoginRejected(x)
        PROVE  UNCHANGED tokenVars
    BY <2>1 DEF Ask, Repeat, OkArrives, ErrorArrives, JoinFlight, LoginRejected
  <2>2. ASSUME NEW q \in Query, NEW c \in Call,
               StartFlight(x, q, c) \/ TimerFires(x, c) \/ BecomesVisible(x, c)
        PROVE  TokenNext
    BY <2>2, NoTokenOrIssued DEF StartFlight, TimerFires, BecomesVisible, SendRefresh
  <2>4. ASSUME NEW c \in Call, SendLogin(x, c)
        PROVE  TokenNext
    BY <2>4 DEF SendLogin, TokenNext, AnyRequest
  <2>5. LoginRejected(x) => UNCHANGED tokenVars
    BY DEF LoginRejected
  <2>. QED  BY <1>2, <2>1, <2>2, <2>4, <2>5 DEF TabStep, Query
<1>3. ASSUME NEW c \in Call,
             \/ Deliver(c) \/ Cut(c) \/ Unheard(c)
             \/ ServerStep(c) \/ ServerFails(c) \/ Throttled(c) \/ LogoutElsewhere(c)
      PROVE  [TokenNext]_tokenVars
  BY <1>3 DEF Deliver, Cut, Unheard, ServerStep, ServerFails, Throttled, LogoutElsewhere,
              TokenNext, AnyRequest
<1>4. CASE AccessExpires
  BY <1>4 DEF AccessExpires
<1>5. CASE DaysPass
  BY <1>5 DEF DaysPass, RefreshExpires, TokenNext, Passes
<1>. QED  BY <1>1, <1>2, <1>3, <1>4, <1>5 DEF CmsNext

(* Where a step takes the cookie from. *)
LEMMA CookieStep ==
  ASSUME TokensTypeOK, CookieIsIssued, [CmsNext]_cmsVars
  PROVE  CookieIsIssued'
<1>0. IssuedTokens \subseteq IssuedTokens'
  BY CmsStepIsTokenStep, IssuedStay
<1>u. UNCHANGED jar => CookieIsIssued'
  BY <1>0 DEF CookieIsIssued
<1>1. CASE UNCHANGED cmsVars
  BY <1>1, <1>u DEF cmsVars, browserVars
<1>2. ASSUME NEW x \in Tab, TabStep(x)
      PROVE  UNCHANGED jar
  BY <1>2 DEF TabStep, Ask, Repeat, OkArrives, ErrorArrives, JoinFlight, LoginRejected,
              StartFlight, TimerFires, BecomesVisible, SendRefresh, SendLogin
<1>3. ASSUME NEW c \in Call, Deliver(c)
      PROVE  CookieIsIssued'
  <2>1. ASSUME At(c, "granted") PROVE calls[c].new \in IssuedTokens
    BY <2>1 DEF At, TokensTypeOK, IssuedTokens
  <2>2. PICK x \in Tab :
          \/ \E code \in Triggers : RefreshArrives(c, x, code)
          \/ LoginArrives(c, x)
          \/ AnyFails(c, x)
    BY <1>3 DEF Deliver
  <2>3. \/ UNCHANGED jar
        \/ At(c, "granted") /\ jar' = [access |-> TRUE, refresh |-> calls[c].new]
    BY <2>2 DEF RefreshArrives, LoginArrives, CookiesSet, AnyFails, RefreshFails,
                LoginFails
  <2>4. CASE At(c, "granted") /\ jar' = [access |-> TRUE, refresh |-> calls[c].new]
    BY <1>0, <2>1, <2>4 DEF CookieIsIssued
  <2>. QED  BY <1>u, <2>3, <2>4
<1>4. ASSUME NEW c \in Call,
             \/ Cut(c) \/ Unheard(c) \/ ServerStep(c) \/ ServerFails(c) \/ Throttled(c)
             \/ LogoutElsewhere(c)
      PROVE  UNCHANGED jar
  BY <1>4 DEF Cut, AnyFails, RefreshFails, LoginFails, Unheard, ServerStep,
              ServerFails, Throttled, LogoutElsewhere, browserVars
<1>5. CASE AccessExpires
  BY <1>0, <1>5 DEF AccessExpires, CookieIsIssued
<1>6. CASE DaysPass
  <2>1. jar' = jar \/ jar' = [jar EXCEPT !.refresh = NoToken]
    BY <1>6 DEF DaysPass, RefreshExpires, browserVars
  <2>2. [jar EXCEPT !.refresh = NoToken] \in [access : BOOLEAN, refresh : IssuedTokens' \cup {NoToken}]
    BY DEF CookieIsIssued
  <2>. QED  BY <2>1, <2>2, <1>u DEF CookieIsIssued
<1>. QED  BY <1>1, <1>2, <1>3, <1>4, <1>5, <1>6, <1>u DEF CmsNext

(* The tabs of the CMS, with their interceptors, timers, visibility        *)
(* refreshes and logouts, are one of the clients TokenClients allows.      *)
THEOREM CmsIsATokenClient == CmsSpec => IsATokenClient
<1>1. CmsInit => TokenInit /\ CookieIsIssued
  BY DEF CmsInit, NoCookies, CookieIsIssued
<1>2. TokensTypeOK /\ CookieIsIssued /\ [CmsNext]_cmsVars
        => /\ [TokenNext]_tokenVars
           /\ TokensTypeOK'
           /\ CookieIsIssued'
  BY CmsStepIsTokenStep, CookieStep, TokensTypeStep
<1>. QED  BY <1>1, <1>2, TokensTypeInit, PTL DEF CmsSpec, IsATokenClient, TokenSpec

(* So a CMS session that has come to its end never comes back. *)
THEOREM CmsSessionsStayDead == CmsSpec => DeadStaysDead
  BY CmsIsATokenClient, DeadFamiliesStayDead, PTL DEF IsATokenClient

-----------------------------------------------------------------------------
(* AuthedKeepsRefreshing, together with the types it rests on. *)
CmsInv == CmsTypeOK /\ AuthedKeepsRefreshing

LEMMA BecomesFacts ==
  ASSUME CmsTypeOK, NEW x \in Tab, NEW q \in Query, NEW state \in RequestState,
         Becomes(x, q, state)
  PROVE  /\ request' \in [Tab -> [Query -> RequestState]]
         /\ \A y \in Tab, r \in Query :
              request'[y][r] = IF y = x /\ r = q THEN state ELSE request[y][r]
  BY DEF Becomes, CmsTypeOK

LEMMA ReleasedFacts ==
  ASSUME CmsTypeOK, NEW x \in Tab, NEW state \in RequestState \ {"waiting"},
         Released(x, state)
  PROVE  /\ request' \in [Tab -> [Query -> RequestState]]
         /\ \A y \in Tab, r \in Query :
              /\ y # x => request'[y][r] = request[y][r]
              /\ request'[x][r] # "waiting"
<1>1. [q \in Query |-> IF request[x][q] = "waiting" THEN state ELSE request[x][q]]
        \in [Query -> RequestState]
  BY DEF CmsTypeOK
<1>. QED  BY <1>1 DEF Released, CmsTypeOK

(* What every step of a tab or a call must respect. *)
LEMMA CmsFrame ==
  ASSUME CmsInv, jar' \in [access : BOOLEAN, refresh : Token \cup {NoToken}],
         tab' \in [Tab -> TabState], waiter' \in [Call -> Waiter],
         request' \in [Tab -> [Query -> RequestState]],
         session' \in {"on", "mixed", "crossed", "lost", "over", "out"},
         FlightsAreReal', IdleIsUnheard', AuthedKeepsRefreshing'
  PROVE  CmsInv'
  BY DEF CmsInv, CmsTypeOK

(* A tab that changes neither its promise, its timer nor its status, and   *)
(* starts no waiting, leaves the parts of the invariant alone.             *)
LEMMA TabAlone ==
  ASSUME CmsInv, UNCHANGED <<tab, waiter>>,
         \A y \in Tab, r \in Query :
           request'[y][r] = "waiting" => request[y][r] = "waiting" \/ tab[y].flight # NoCall
  PROVE  FlightsAreReal' /\ AuthedKeepsRefreshing'
<1>1. FlightsAreReal'
  BY DEF CmsInv, CmsTypeOK, FlightsAreReal, Waits
<1>2. AuthedKeepsRefreshing'
  BY DEF CmsInv, AuthedKeepsRefreshing, Waits
<1>. QED  BY <1>1, <1>2

LEMMA CmsInvInit == CmsInit => CmsInv
<1> SUFFICES ASSUME CmsInit PROVE CmsInv
  OBVIOUS
<1>1. jar \in [access : BOOLEAN, refresh : Token \cup {NoToken}]
  BY DEF CmsInit, NoCookies
<1>2. tab \in [Tab -> TabState] /\ \A x \in Tab : tab[x].status = "loading" /\ tab[x].flight = NoCall
  BY DEF CmsInit, TabState
<1>3. request \in [Tab -> [Query -> RequestState]] /\ \A x \in Tab, q \in Query : request[x][q] = "none"
  BY DEF CmsInit, RequestState
<1>4. waiter \in [Call -> Waiter] /\ \A c \in Call : waiter[c] = Nobody
  BY DEF CmsInit, Nobody, Waiter
<1>5. \A c \in Call, x \in Tab : ~Waits(c, x, "interceptor")
  BY <1>4, CmsAssumption DEF Waits, Nobody
<1>6. FlightsAreReal
  BY <1>2, <1>3, <1>5, CmsAssumption DEF FlightsAreReal
<1>7. IdleIsUnheard /\ AuthedKeepsRefreshing
  BY <1>2, <1>4 DEF IdleIsUnheard, AuthedKeepsRefreshing
<1>8. session \in {"on", "mixed", "crossed", "lost", "over", "out"}
  BY DEF CmsInit
<1>. QED  BY <1>1, <1>2, <1>3, <1>4, <1>6, <1>7, <1>8 DEF CmsInv, CmsTypeOK

-----------------------------------------------------------------------------
Codes == {"interceptor", "timer", "visible", "login"}

(* A tab sends a request that a handler takes up. *)
LEMMA ExpectsFacts ==
  ASSUME CmsInv, TokensTypeOK, NEW c \in Call, NEW x \in Tab, NEW code \in Codes,
         NEW pc \in {"find", "enter"}, NEW t, NEW a, Arrive(c, pc, t, a),
         Expects(c, x, code)
  PROVE  /\ waiter' \in [Call -> Waiter]
         /\ IdleIsUnheard'
         /\ \A y \in Tab, k \in Codes : ~Waits(c, y, k)
         /\ \A d \in Call, y \in Tab, k \in Codes :
              Waits(d, y, k)' <=> (d = c /\ y = x /\ k = code) \/ Waits(d, y, k)
<1>1. waiter[c] = Nobody
  BY DEF Arrive, CmsInv, CmsTypeOK, IdleIsUnheard
<1>2. \A y \in Tab, k \in Codes : ~Waits(c, y, k)
  BY <1>1, CmsAssumption DEF Waits, Nobody
<1>3. waiter' \in [Call -> Waiter] /\ waiter'[c] = [tab |-> x, code |-> code]
       /\ \A d \in Call : d # c => waiter'[d] = waiter[d]
  BY DEF Expects, CmsInv, CmsTypeOK, Waiter, Codes
<1>4. ASSUME NEW d \in Call, NEW y \in Tab, NEW k \in Codes
      PROVE  Waits(d, y, k)' <=> (d = c /\ y = x /\ k = code) \/ Waits(d, y, k)
  <2>1. CASE d = c
    <3>1. Waits(c, y, k)' <=> [tab |-> x, code |-> code] = [tab |-> y, code |-> k]
      BY <1>3 DEF Waits
    <3>2. [tab |-> x, code |-> code] = [tab |-> y, code |-> k] <=> x = y /\ code = k
      OBVIOUS
    <3>. QED  BY <1>2, <2>1, <3>1, <3>2
  <2>2. CASE d # c
    BY <1>3, <2>2 DEF Waits
  <2>. QED  BY <2>1, <2>2
<1>5. calls'[c].pc # "idle" /\ \A d \in Call : d # c => calls'[d] = calls[d]
  BY DEF Arrive, Idle, TokensTypeOK
<1>6. IdleIsUnheard'
  BY <1>3, <1>5 DEF IdleIsUnheard, At, CmsInv, CmsTypeOK
<1>. QED  BY <1>2, <1>3, <1>4, <1>6

(* The answer of a call has come, or will not come. *)
LEMMA GoneFacts ==
  ASSUME CmsInv, TokensTypeOK, NEW c \in Call, AnswerGone(c),
         Leave(c) \/ UNCHANGED calls
  PROVE  /\ waiter' \in [Call -> Waiter]
         /\ IdleIsUnheard'
         /\ \A d \in Call, y \in Tab, k \in Codes :
              Waits(d, y, k)' <=> d # c /\ Waits(d, y, k)
<1>1. waiter' \in [Call -> Waiter] /\ waiter'[c] = Nobody
       /\ \A d \in Call : d # c => waiter'[d] = waiter[d]
  BY DEF AnswerGone, Nobody, CmsInv, CmsTypeOK, Waiter
<1>2. \A d \in Call, y \in Tab, k \in Codes :
        Waits(d, y, k)' <=> d # c /\ Waits(d, y, k)
  BY <1>1, CmsAssumption DEF Waits, Nobody
<1>3. \A d \in Call : d # c => calls'[d] = calls[d]
  BY DEF Leave, TokensTypeOK
<1>4. IdleIsUnheard'
  BY <1>1, <1>3 DEF IdleIsUnheard, At, CmsInv, CmsTypeOK
<1>. QED  BY <1>1, <1>2, <1>4

(* Calls move on, nobody's expectations change. *)
LEMMA ServerKeepsCms ==
  ASSUME CmsInv, TokensTypeOK, UNCHANGED <<tab, request, waiter>>,
         jar' \in [access : BOOLEAN, refresh : Token \cup {NoToken}],
         session' \in {"on", "mixed", "crossed", "lost", "over", "out"},
         \A d \in Call : calls'[d].pc = "idle" => At(d, "idle") \/ waiter[d] = Nobody
  PROVE  CmsInv'
<1>1. FlightsAreReal' /\ AuthedKeepsRefreshing'
  <2>1. \A y \in Tab, r \in Query : request'[y][r] = "waiting" => request[y][r] = "waiting"
    OBVIOUS
  <2>. QED  BY <2>1, TabAlone
<1>2. IdleIsUnheard'
  BY DEF IdleIsUnheard, At, CmsInv, CmsTypeOK
<1>3. /\ tab' \in [Tab -> TabState] /\ waiter' \in [Call -> Waiter]
      /\ request' \in [Tab -> [Query -> RequestState]]
  BY DEF CmsInv, CmsTypeOK
<1>. QED  BY <1>1, <1>2, <1>3, CmsFrame

LEMMA ServeIsBusy ==
  ASSUME TokensTypeOK, NEW c \in Call, Serve(c) \/ Fails(c)
  PROVE  \A d \in Call : calls'[d].pc = "idle" => At(d, "idle")
<1>g. ASSUME NEW pc, pc # "idle", GoTo(c, pc)
      PROVE  \A d \in Call : calls'[d].pc = "idle" => At(d, "idle")
  BY <1>g DEF GoTo, At, TokensTypeOK, CallState
<1>1. ASSUME NEW n \in Token, NEW f \in Family, Enter(c, n, f)
      PROVE  \A d \in Call : calls'[d].pc = "idle" => At(d, "idle")
  BY <1>1 DEF Enter, At, TokensTypeOK, CallState
<1>2. ASSUME NEW n \in Token, Issue(c, n)
      PROVE  \A d \in Call : calls'[d].pc = "idle" => At(d, "idle")
  BY <1>2 DEF Issue, At, TokensTypeOK, CallState
<1>3. CASE \/ FindNone(c) \/ FindRevoked(c) \/ RevokeFamily(c) \/ FindExpired(c)
           \/ FindLive(c) \/ MarkRotated(c) \/ MarkPruned(c) \/ FindAdmin(c)
           \/ Revoke(c) \/ RevokeAllForAdmin(c) \/ Fails(c)
  <2>1. PICK pc \in {"refused", "failed", "reuse", "issue", "admin", "granted", "cleared"} : GoTo(c, pc)
    BY <1>3 DEF FindNone, FindRevoked, RevokeFamily, FindExpired, FindLive, MarkRotated,
                MarkPruned, FindAdmin, Revoke, RevokeAllForAdmin, Fails
  <2>. QED  BY <2>1, <1>g
<1>. QED  BY <1>1, <1>2, <1>3 DEF Serve

LEMMA EndingTyped ==
  ASSUME CmsTypeOK, SessionEnds \/ (\E c \in Call : AnswerLost(c)) \/ UNCHANGED session
  PROVE  session' \in {"on", "mixed", "crossed", "lost", "over", "out"}
  BY DEF SessionEnds, AnswerLost, CmsTypeOK

-----------------------------------------------------------------------------
LEMMA TabUpdate ==
  ASSUME tab \in [Tab -> TabState], NEW x \in Tab
  PROVE  /\ \A c \in Call \cup {NoCall} : tab' = [tab EXCEPT ![x].flight = c] =>
              /\ tab' \in [Tab -> TabState]
              /\ \A y \in Tab : /\ tab'[y].status = tab[y].status
                                /\ tab'[y].timer = tab[y].timer
                                /\ tab'[y].flight = IF y = x THEN c ELSE tab[y].flight
         /\ \A b \in BOOLEAN : tab' = [tab EXCEPT ![x].timer = b] =>
              /\ tab' \in [Tab -> TabState]
              /\ \A y \in Tab : /\ tab'[y].status = tab[y].status
                                /\ tab'[y].timer = IF y = x THEN b ELSE tab[y].timer
                                /\ tab'[y].flight = tab[y].flight
<1>1. ASSUME NEW c \in Call \cup {NoCall}
      PROVE  [tab[x] EXCEPT !.flight = c] \in TabState
  BY DEF TabState
<1>2. ASSUME NEW b \in BOOLEAN
      PROVE  [tab[x] EXCEPT !.timer = b] \in TabState
  BY DEF TabState
<1>. QED  BY <1>1, <1>2 DEF TabState

LEMMA SignFacts ==
  ASSUME tab \in [Tab -> TabState], NEW x \in Tab,
         UNCHANGED tab \/ SignIn(x) \/ SignOut(x) \/ SignOutClearly(x)
  PROVE  /\ tab' \in [Tab -> TabState]
         /\ \A y \in Tab : tab'[y].flight = tab[y].flight
         /\ \A y \in Tab : tab'[y].status = "authed" =>
              tab'[y].timer \/ (tab[y].status = "authed" /\ tab'[y] = tab[y])
         /\ \A y \in Tab : y # x => tab'[y] = tab[y]
         /\ SignOut(x) \/ SignOutClearly(x) => tab'[x].status = "unauthed"
<1>1. CASE UNCHANGED tab
  BY <1>1 DEF SignOut, SignOutClearly, TabState
<1>2. CASE SignIn(x)
  <2>1. [tab[x] EXCEPT !.status = "authed", !.timer = TRUE] \in TabState
    BY DEF TabState
  <2>. QED  BY <1>2, <2>1 DEF SignIn, SignOut, SignOutClearly, TabState
<1>3. CASE SignOut(x)
  <2>1. [tab[x] EXCEPT !.status = "unauthed"] \in TabState
    BY DEF TabState
  <2>. QED  BY <1>3, <2>1 DEF SignOut, TabState
<1>4. CASE SignOutClearly(x)
  <2>1. [tab[x] EXCEPT !.status = "unauthed", !.timer = FALSE] \in TabState
    BY DEF TabState
  <2>. QED  BY <1>4, <2>1 DEF SignOutClearly, TabState
<1>. QED  BY <1>1, <1>2, <1>3, <1>4

(* Requests of a tab that start no call. *)
LEMMA RequestStep ==
  ASSUME CmsInv, TokensTypeOK, NEW x \in Tab, NEW q \in Query,
         \/ Ask(x, q) \/ Repeat(x, q) \/ LoginRejected(x)
         \/ OkArrives(x, q) \/ ErrorArrives(x, q) \/ JoinFlight(x, q)
  PROVE  CmsInv'
<1>1. PICK r \in Query, state \in RequestState :
        /\ Becomes(x, r, state)
        /\ state = "waiting" => tab[x].flight # NoCall
  BY DEF Ask, Answers, GuardSays, Repeat, LoginRejected, OkArrives, ErrorArrives, JoinFlight,
         FlightIsUp, RequestState, Query
<1>2. /\ request' \in [Tab -> [Query -> RequestState]]
      /\ \A y \in Tab, k \in Query :
           request'[y][k] = "waiting" => request[y][k] = "waiting" \/ tab[y].flight # NoCall
  BY <1>1, BecomesFacts DEF CmsInv
<1>3. UNCHANGED <<calls, jar, waiter>> /\ session' \in {"on", "mixed", "crossed", "lost", "over", "out"}
  BY EndingTyped DEF Ask, Repeat, LoginRejected, OkArrives, ErrorArrives, JoinFlight, tokenVars,
     CmsInv, CmsTypeOK
<1>4. \/ UNCHANGED tab \/ SignIn(x) \/ SignOut(x) \/ SignOutClearly(x)
  BY DEF Ask, Repeat, LoginRejected, OkArrives, ErrorArrives, JoinFlight
<1>5. /\ tab' \in [Tab -> TabState]
      /\ \A y \in Tab : tab'[y].flight = tab[y].flight
      /\ \A y \in Tab : tab'[y].status = "authed" =>
           tab'[y].timer \/ (tab[y].status = "authed" /\ tab'[y] = tab[y])
  BY <1>4, SignFacts DEF CmsInv, CmsTypeOK
<1>6. FlightsAreReal'
  BY <1>2, <1>3, <1>5 DEF FlightsAreReal, Waits, CmsInv, CmsTypeOK
<1>7. AuthedKeepsRefreshing'
  BY <1>3, <1>5 DEF AuthedKeepsRefreshing, Waits, CmsInv
<1>8. IdleIsUnheard'
  BY <1>3 DEF IdleIsUnheard, At, CmsInv, CmsTypeOK
<1>9. jar' \in [access : BOOLEAN, refresh : Token \cup {NoToken}] /\ waiter' \in [Call -> Waiter]
  BY <1>3 DEF CmsInv, CmsTypeOK
<1>. QED  BY <1>2, <1>3, <1>5, <1>6, <1>7, <1>8, <1>9, CmsFrame

(* Requests of a tab that do. *)
LEMMA SendStep ==
  ASSUME CmsInv, TokensTypeOK, NEW x \in Tab, NEW q \in Query, NEW c \in Call,
         \/ StartFlight(x, q, c) \/ TimerFires(x, c) \/ BecomesVisible(x, c)
         \/ SendLogin(x, c)
  PROVE  CmsInv'
<1>1. PICK code \in Codes, pc \in {"find", "enter"} :
        /\ \E t, a : Arrive(c, pc, t, a)
        /\ Expects(c, x, code)
        /\ code = "interceptor" =>
             ~FlightIsUp(x) /\ tab' = [tab EXCEPT ![x].flight = c] /\ Becomes(x, q, "waiting")
        /\ code = "timer" => tab' = [tab EXCEPT ![x].timer = FALSE] /\ UNCHANGED request
        /\ code \in {"visible", "login"} => UNCHANGED tab
        /\ code = "visible" => UNCHANGED request
        /\ code = "login" => Becomes(x, "login", "sent")
  BY DEF StartFlight, TimerFires, BecomesVisible, SendLogin, SendRefresh,
         Refresh, Login, Codes
<1>2. /\ waiter' \in [Call -> Waiter]
      /\ IdleIsUnheard'
      /\ \A y \in Tab, k \in Codes : ~Waits(c, y, k)
      /\ \A d \in Call, y \in Tab, k \in Codes :
           Waits(d, y, k)' <=> (d = c /\ y = x /\ k = code) \/ Waits(d, y, k)
  BY <1>1, ExpectsFacts
<1>3. UNCHANGED jar /\ session' \in {"on", "mixed", "crossed", "lost", "over", "out"}
  BY EndingTyped DEF StartFlight, TimerFires, BecomesVisible, SendLogin, SendRefresh,
     CmsInv, CmsTypeOK
<1>4. /\ request' \in [Tab -> [Query -> RequestState]]
      /\ \A y \in Tab, r \in Query :
           request'[y][r] = "waiting" =>
             request[y][r] = "waiting" \/ (y = x /\ code = "interceptor")
  <2>1. "login" \in Query /\ {"sent", "waiting"} \subseteq RequestState
    BY DEF Query, RequestState
  <2>2. CASE UNCHANGED request
    BY <2>2 DEF CmsInv, CmsTypeOK
  <2>3. CASE code = "interceptor"
    BY <1>1, <2>1, <2>3, BecomesFacts DEF CmsInv
  <2>4. CASE code = "login"
    BY <1>1, <2>1, <2>4, BecomesFacts DEF CmsInv
  <2>. QED  BY <1>1, <2>2, <2>3, <2>4 DEF Codes
<1>5. /\ tab' \in [Tab -> TabState]
      /\ \A y \in Tab : tab'[y].status = tab[y].status
      /\ \A y \in Tab : tab'[y].flight = IF y = x /\ code = "interceptor" THEN c ELSE tab[y].flight
      /\ \A y \in Tab : tab[y].timer => tab'[y].timer \/ (y = x /\ code = "timer")
  <2>1. tab \in [Tab -> TabState]
    BY DEF CmsInv, CmsTypeOK
  <2>2. CASE code = "interceptor"
    BY <1>1, <2>1, <2>2, TabUpdate
  <2>3. CASE code = "timer"
    BY <1>1, <2>1, <2>3, TabUpdate
  <2>4. CASE code \in {"visible", "login"}
    BY <1>1, <2>1, <2>4 DEF TabState
  <2>. QED  BY <2>2, <2>3, <2>4 DEF Codes
<1>6. FlightsAreReal'
  <2>1. ASSUME NEW y \in Tab, NEW d \in Call
        PROVE  tab'[y].flight = d <=> Waits(d, y, "interceptor")'
    <3>1. tab[y].flight = d <=> Waits(d, y, "interceptor")
      BY DEF CmsInv, CmsTypeOK, FlightsAreReal
    <3>2. y = x /\ code = "interceptor" => tab[y].flight = NoCall /\ d # NoCall
      BY <1>1, CmsAssumption DEF FlightIsUp
    <3>. QED  BY <1>2, <1>5, <3>1, <3>2 DEF Codes
  <2>2. ASSUME NEW y \in Tab, NEW r \in Query, request'[y][r] = "waiting"
        PROVE  tab'[y].flight # NoCall
    BY <1>4, <1>5, <2>2, CmsAssumption DEF CmsInv, CmsTypeOK, FlightsAreReal
  <2>. QED  BY <2>1, <2>2 DEF FlightsAreReal
<1>7. AuthedKeepsRefreshing'
  BY <1>2, <1>5 DEF AuthedKeepsRefreshing, CmsInv, Codes
<1>8. jar' \in [access : BOOLEAN, refresh : Token \cup {NoToken}]
  BY <1>3 DEF CmsInv, CmsTypeOK
<1>. QED  BY <1>2, <1>3, <1>4, <1>5, <1>6, <1>7, <1>8, CmsFrame
-----------------------------------------------------------------------------
(* The promise of a tab settles. *)
LEMMA FlightEnds ==
  ASSUME CmsTypeOK, NEW x \in Tab, FlightFails(x) \/ FlightSucceeds(x)
  PROVE  /\ tab' \in [Tab -> TabState] /\ request' \in [Tab -> [Query -> RequestState]]
         /\ tab'[x].flight = NoCall
         /\ \A r \in Query : request'[x][r] # "waiting"
         /\ \A y \in Tab : y # x => tab'[y] = tab[y]
         /\ \A y \in Tab, r \in Query : y # x => request'[y][r] = request[y][r]
         /\ tab'[x].status = "authed" => tab[x].status = "authed" /\ tab'[x].timer = tab[x].timer
<1>1. CASE FlightFails(x)
  <2>1. [status |-> "unauthed", timer |-> FALSE, flight |-> NoCall] \in TabState
    BY DEF TabState
  <2>2. "none" \in RequestState \ {"waiting"}
    BY DEF RequestState
  <2>. QED  BY <1>1, <2>1, <2>2, ReleasedFacts DEF FlightFails, CmsTypeOK
<1>2. CASE FlightSucceeds(x)
  <2>1. "again" \in RequestState \ {"waiting"}
    BY DEF RequestState
  <2>2. tab \in [Tab -> TabState] /\ tab' = [tab EXCEPT ![x].flight = NoCall]
    BY <1>2 DEF FlightSucceeds, CmsTypeOK
  <2>3. [tab[x] EXCEPT !.flight = NoCall] \in TabState
    BY <2>2 DEF TabState
  <2>4. tab' \in [Tab -> TabState] /\ tab'[x].flight = NoCall
        /\ tab'[x].status = tab[x].status /\ tab'[x].timer = tab[x].timer
        /\ \A y \in Tab : y # x => tab'[y] = tab[y]
    BY <2>2, <2>3 DEF TabState
  <2>. QED  BY <1>2, <2>1, <2>4, ReleasedFacts DEF FlightSucceeds
<1>. QED  BY <1>1, <1>2

(* The tab that waits learns how its call has ended. *)
LEMMA AnswerStep ==
  ASSUME CmsInv, TokensTypeOK, NEW c \in Call, NEW x \in Tab,
         \/ \E code \in Triggers : RefreshArrives(c, x, code)
         \/ LoginArrives(c, x) \/ AnyFails(c, x),
         Leave(c) \/ UNCHANGED calls,
         session' \in {"on", "mixed", "crossed", "lost", "over", "out"}
  PROVE  CmsInv'
<1>1. PICK code \in Codes :
        /\ Waits(c, x, code)
        /\ AnswerGone(c)
        /\ code = "interceptor" => FlightFails(x) \/ FlightSucceeds(x)
        /\ code # "interceptor" => Rearm(x) \/ SignIn(x) \/ SignOut(x) \/ SignOutClearly(x) \/
                                     (UNCHANGED tab /\ code = "login")
        /\ code = "timer" => Rearm(x) \/ SignOut(x)
        /\ code # "interceptor" =>
             UNCHANGED request \/ Becomes(x, "login", "none")
  BY CmsAssumption DEF RefreshArrives, LoginArrives, AnyFails, RefreshFails, LoginFails, Codes
<1>2. /\ waiter' \in [Call -> Waiter]
      /\ IdleIsUnheard'
      /\ \A d \in Call, y \in Tab, k \in Codes :
           Waits(d, y, k)' <=> d # c /\ Waits(d, y, k)
  BY <1>1, GoneFacts
<1>3. \A d \in Call, y \in Tab, k \in Codes : d = c /\ Waits(d, y, k) => y = x /\ k = code
  BY <1>1 DEF Waits
<1>4. jar' \in [access : BOOLEAN, refresh : Token \cup {NoToken}]
  <2>1. jar \in [access : BOOLEAN, refresh : Token \cup {NoToken}]
    BY DEF CmsInv, CmsTypeOK
  <2>2. At(c, "granted") => calls[c].new \in Token
    BY DEF At, TokensTypeOK
  <2>3. \/ UNCHANGED jar
        \/ At(c, "granted") /\ jar' = [access |-> TRUE, refresh |-> calls[c].new]
    BY DEF RefreshArrives, LoginArrives, AnyFails, RefreshFails, LoginFails, CookiesSet
  <2>4. CASE UNCHANGED jar
    BY <2>1, <2>4
  <2>6. CASE At(c, "granted") /\ jar' = [access |-> TRUE, refresh |-> calls[c].new]
    BY <2>2, <2>6
  <2>. QED  BY <2>3, <2>4, <2>6
<1>f. \A y \in Tab, d \in Call : tab[y].flight = d <=> Waits(d, y, "interceptor")
  BY DEF CmsInv, CmsTypeOK, FlightsAreReal
<1>5. CASE code = "interceptor"
  <2>1. /\ tab' \in [Tab -> TabState] /\ request' \in [Tab -> [Query -> RequestState]]
        /\ tab'[x].flight = NoCall
        /\ \A r \in Query : request'[x][r] # "waiting"
        /\ \A y \in Tab : y # x => tab'[y] = tab[y]
        /\ \A y \in Tab, r \in Query : y # x => request'[y][r] = request[y][r]
        /\ tab'[x].status = "authed" => tab[x].status = "authed" /\ tab'[x].timer = tab[x].timer
    BY <1>1, <1>5, FlightEnds DEF CmsInv
  <2>2. ASSUME NEW y \in Tab, NEW d \in Call
        PROVE  tab'[y].flight = d <=> Waits(d, y, "interceptor")'
    <3>1. Waits(d, y, "interceptor")' <=> d # c /\ Waits(d, y, "interceptor")
      BY <1>2 DEF Codes
    <3>2. CASE y = x
      <4>1. tab[x].flight = c
        BY <1>1, <1>5, <1>f
      <4>2. ~(d # c /\ Waits(d, x, "interceptor"))
        BY <4>1, <1>f
      <4>. QED  BY <2>1, <3>1, <3>2, <4>2, CmsAssumption
    <3>3. CASE y # x
      BY <1>3, <1>f, <2>1, <3>1, <3>3 DEF Codes
    <3>. QED  BY <3>2, <3>3
  <2>3. \A y \in Tab : (\E r \in Query : request'[y][r] = "waiting") => tab'[y].flight # NoCall
    BY <2>1 DEF CmsInv, CmsTypeOK, FlightsAreReal
  <2>4. FlightsAreReal'
    BY <2>2, <2>3 DEF FlightsAreReal
  <2>5. AuthedKeepsRefreshing'
    BY <1>2, <1>3, <1>5, <2>1 DEF AuthedKeepsRefreshing, CmsInv, Codes
  <2>. QED  BY <1>2, <1>4, <2>1, <2>4, <2>5, CmsFrame
<1>6. CASE code # "interceptor"
  <2>t. tab \in [Tab -> TabState]
    BY DEF CmsInv, CmsTypeOK
  <2>1. /\ tab' \in [Tab -> TabState]
        /\ \A y \in Tab : tab'[y].flight = tab[y].flight
        /\ \A y \in Tab : y # x => tab'[y].status = tab[y].status /\ tab'[y].timer = tab[y].timer
        /\ tab'[x].status = "authed" =>
             \/ tab'[x].timer
             \/ code # "timer" /\ tab[x].status = "authed" /\ tab'[x].timer = tab[x].timer
    <3>1. CASE Rearm(x)
      BY <2>t, <3>1, TabUpdate DEF Rearm
    <3>2. CASE ~Rearm(x)
      <4>1. UNCHANGED tab \/ SignIn(x) \/ SignOut(x) \/ SignOutClearly(x)
        BY <1>1, <1>6, <3>2
      <4>2. code = "timer" => SignOut(x)
        BY <1>1, <3>2
      <4>. QED  BY <2>t, <4>1, <4>2, SignFacts
    <3>. QED  BY <3>1, <3>2
  <2>2. /\ request' \in [Tab -> [Query -> RequestState]]
        /\ \A y \in Tab, r \in Query : request'[y][r] = "waiting" => request[y][r] = "waiting"
    <3>1. "login" \in Query /\ "none" \in RequestState
      BY DEF Query, RequestState
    <3>2. CASE UNCHANGED request
      BY <3>2 DEF CmsInv, CmsTypeOK
    <3>3. CASE Becomes(x, "login", "none")
      BY <3>1, <3>3, BecomesFacts DEF CmsInv
    <3>. QED  BY <1>1, <1>6, <3>2, <3>3
  <2>3. ASSUME NEW y \in Tab, NEW d \in Call
        PROVE  Waits(d, y, "interceptor")' <=> Waits(d, y, "interceptor")
    BY <1>2, <1>3, <1>6 DEF Codes
  <2>4. FlightsAreReal'
    BY <1>f, <2>1, <2>2, <2>3 DEF FlightsAreReal, CmsInv, CmsTypeOK
  <2>5. AuthedKeepsRefreshing'
    <3>1. ASSUME NEW y \in Tab, NEW d \in Call, Waits(d, y, "timer"), ~(y = x /\ code = "timer")
          PROVE  Waits(d, y, "timer")'
      BY <1>2, <1>3, <3>1 DEF Codes
    <3>. QED  BY <2>1, <3>1 DEF AuthedKeepsRefreshing, CmsInv
  <2>. QED  BY <1>2, <1>4, <2>1, <2>2, <2>4, <2>5, CmsFrame
<1>. QED  BY <1>5, <1>6

(* Every step keeps the invariant. *)
LEMMA CmsInvStep ==
  ASSUME CmsInv, TokensTypeOK, [CmsNext]_cmsVars
  PROVE  CmsInv'
<1>t. /\ jar \in [access : BOOLEAN, refresh : Token \cup {NoToken}]
      /\ session \in {"on", "mixed", "crossed", "lost", "over", "out"}
      /\ CmsTypeOK
  BY DEF CmsInv, CmsTypeOK
<1>1. CASE UNCHANGED cmsVars
  <2>1. UNCHANGED <<jar, tab, request, waiter, session>> /\ UNCHANGED calls
    BY <1>1 DEF cmsVars, browserVars, tokenVars
  <2>2. \A d \in Call : calls'[d].pc = "idle" => At(d, "idle")
    BY <2>1 DEF At
  <2>. QED  BY <1>t, <2>1, <2>2, ServerKeepsCms
<1>2. ASSUME NEW x \in Tab, TabStep(x)
      PROVE  CmsInv'
  <2>1. \E q \in Query : q = "login"
    BY DEF Query
  <2>. QED  BY <1>2, <2>1, RequestStep, SendStep DEF TabStep
<1>3. ASSUME NEW c \in Call, Deliver(c)
      PROVE  CmsInv'
  <2>1. PICK x \in Tab :
          \/ \E code \in Triggers : RefreshArrives(c, x, code)
          \/ LoginArrives(c, x)
          \/ AnyFails(c, x) /\ UNCHANGED session
    BY <1>3 DEF Deliver
  <2>2. session' \in {"on", "mixed", "crossed", "lost", "over", "out"}
    BY <1>t, <2>1 DEF RefreshArrives, LoginArrives
  <2>3. Leave(c)
    BY <1>3 DEF Deliver
  <2>. QED  BY <2>1, <2>2, <2>3, AnswerStep
<1>4. ASSUME NEW c \in Call, Cut(c)
      PROVE  CmsInv'
  <2>1. PICK x \in Tab : AnyFails(c, x)
    BY <1>4 DEF Cut
  <2>2. UNCHANGED calls /\ session' \in {"on", "mixed", "crossed", "lost", "over", "out"}
    BY <1>4, <1>t, EndingTyped DEF Cut, tokenVars
  <2>. QED  BY <2>1, <2>2, AnswerStep
<1>5. ASSUME NEW c \in Call, Unheard(c)
      PROVE  CmsInv'
  <2>1. UNCHANGED <<jar, tab, request, waiter, session>> /\ waiter[c] = Nobody /\ Leave(c)
    BY <1>5 DEF Unheard, browserVars
  <2>2. \A d \in Call : calls'[d].pc = "idle" => At(d, "idle") \/ waiter[d] = Nobody
    BY <2>1 DEF Leave, At, TokensTypeOK
  <2>. QED  BY <1>t, <2>1, <2>2, ServerKeepsCms
<1>6. ASSUME NEW c \in Call, ServerStep(c) \/ ServerFails(c) \/ Throttled(c)
      PROVE  CmsInv'
  <2>1. /\ UNCHANGED <<jar, tab, request, waiter>>
        /\ SessionEnds \/ AnswerLost(c) \/ UNCHANGED session
    BY <1>6 DEF ServerStep, ServerFails, Throttled, browserVars
  <2>2. \A d \in Call : calls'[d].pc = "idle" => At(d, "idle")
    BY <1>6, ServeIsBusy DEF ServerStep, ServerFails, Throttled
  <2>3. session' \in {"on", "mixed", "crossed", "lost", "over", "out"}
    BY <1>t, <2>1, EndingTyped
  <2>. QED  BY <1>t, <2>1, <2>2, <2>3, ServerKeepsCms
<1>7. ASSUME NEW c \in Call, LogoutElsewhere(c)
      PROVE  CmsInv'
  <2>1. UNCHANGED <<jar, tab, request, waiter, session>>
    BY <1>7 DEF LogoutElsewhere, browserVars
  <2>2. \A d \in Call : calls'[d].pc = "idle" => At(d, "idle")
    BY <1>7 DEF LogoutElsewhere, LogoutAll, Arrive, At, TokensTypeOK
  <2>. QED  BY <1>t, <2>1, <2>2, ServerKeepsCms
<1>8. ASSUME AccessExpires \/ DaysPass
      PROVE  CmsInv'
  <2>1. UNCHANGED <<tab, request, waiter, calls>> /\ (SessionEnds \/ UNCHANGED session)
    BY <1>8 DEF AccessExpires, DaysPass, RefreshExpires, Expire, RevocationAges,
                PruneExpiredTokens, browserVars, tokenVars
  <2>2. \A d \in Call : calls'[d].pc = "idle" => At(d, "idle")
    BY <2>1 DEF At
  <2>3. \/ UNCHANGED jar \/ jar' = [jar EXCEPT !.access = FALSE]
        \/ jar' = [jar EXCEPT !.refresh = NoToken]
    BY <1>8 DEF AccessExpires, DaysPass, RefreshExpires, browserVars
  <2>4. jar' \in [access : BOOLEAN, refresh : Token \cup {NoToken}]
    BY <1>t, <2>3
  <2>5. session' \in {"on", "mixed", "crossed", "lost", "over", "out"}
    BY <1>t, <2>1, EndingTyped
  <2>. QED  BY <2>1, <2>2, <2>4, <2>5, ServerKeepsCms
<1>. QED  BY <1>1, <1>2, <1>3, <1>4, <1>5, <1>6, <1>7, <1>8 DEF CmsNext

LEMMA CmsInvHolds == CmsSpec => []CmsInv
<1>1. CmsInit => TokenInit /\ CookieIsIssued
  BY DEF CmsInit, NoCookies, CookieIsIssued
<1>2. TokensTypeOK /\ CookieIsIssued /\ [CmsNext]_cmsVars => TokensTypeOK' /\ CookieIsIssued'
  BY CmsStepIsTokenStep, CookieStep, TokensTypeStep
<1>3. CmsInv /\ TokensTypeOK /\ [CmsNext]_cmsVars => CmsInv'
  BY CmsInvStep
<1>. QED  BY <1>1, <1>2, <1>3, TokensTypeInit, CmsInvInit, PTL DEF CmsSpec

(* refreshPromise is always the refresh its tab has under way, and what    *)
(* waits for it always has something to wait for, whatever number of tabs, *)
(* requests and calls interleave.                                          *)
THEOREM CmsTypeCorrect == CmsSpec => []CmsTypeOK
<1>1. CmsInv => CmsTypeOK
  BY DEF CmsInv
<1>. QED  BY <1>1, CmsInvHolds, PTL

(* A signed-in tab never loses its timer to the refreshes, logins and      *)
(* logouts that end while others are under way.                            *)
THEOREM KeepsRefreshing == CmsSpec => []AuthedKeepsRefreshing
<1>1. CmsInv => AuthedKeepsRefreshing
  BY DEF CmsInv
<1>. QED  BY <1>1, CmsInvHolds, PTL

-----------------------------------------------------------------------------
(* StaysSignedIn.  The invariant follows the session of the browser while  *)
(* it is "on": its token, and the one refresh of it that may be under way. *)

(* The CMS never gets a logout past the guards. *)
NobodyRevokes == \A c \in Call : ~At(c, "revoke")

CallsAreIssued ==
  \A c \in Call : {calls[c].token, calls[c].new} \subseteq IssuedTokens \cup {NoToken}

LoginsHaveNoCookie ==
  \A c \in Call, x \in Tab : Waits(c, x, "login") =>
    calls[c].pc \in {"enter", "granted", "refused", "failed"} /\ calls[c].token = NoToken

(* Nobody but the login itself knows the token it was granted. *)
LoginIsFresh(c) ==
  /\ ~rows[calls[c].new].expired
  /\ FamilyRows(rows[calls[c].new].family) = {calls[c].new}
  /\ jar.refresh # calls[c].new
  /\ \A d \in Call : calls[d].token # calls[c].new /\ (calls[d].new = calls[c].new => d = c)

LoginsAreFresh ==
  \A c \in Call : At(c, "granted") /\ calls[c].token = NoToken => LoginIsFresh(c)

(* What is repeated has a new access token with it. *)
RepeatsPass ==
  \A x \in Tab, q \in Query :
    /\ request[x][q] = "again" => jar.access
    /\ request[x][q] = "denied" => q = "login"

(* d is a refresh of the session that cannot be refused. *)
Rotates(d) ==
  /\ calls[d].token = jar.refresh
  /\ calls[d].pc \in {"find", "issue", "mark", "admin", "granted", "failed"}
  /\ calls[d].pc \in {"find", "issue", "mark", "failed"} => rows[jar.refresh].state = "live"
  /\ calls[d].pc \in {"mark", "admin", "granted"} =>
       /\ calls[d].new \in Token \ {jar.refresh}
       /\ rows[calls[d].new].state = "live"
       /\ ~rows[calls[d].new].expired
       /\ rows[calls[d].new].family = rows[jar.refresh].family
       /\ rows[calls[d].new].admin = rows[jar.refresh].admin

SessionIsWhole ==
  session = "on" =>
    /\ jar.refresh \in Token
    /\ ~rows[jar.refresh].expired
    /\ \A d \in Call : Refreshing(d) => Rotates(d)
    /\ \A d, e \in Call : Refreshing(d) /\ Refreshing(e) => d = e
    /\ (\A d \in Call : ~Refreshing(d)) => rows[jar.refresh].state = "live"
    /\ \A c \in Call : calls[c].token \in FamilyRows(rows[jar.refresh].family) =>
         Refreshing(c) \/ At(c, "failed")

ServerInv == NobodyRevokes /\ CallsAreIssued /\ LoginsHaveNoCookie /\ LoginsAreFresh

Typed == CmsInv /\ TokensTypeOK /\ CookieIsIssued

-----------------------------------------------------------------------------
(* How a step moves the calls. *)
LEMMA GoToFacts ==
  ASSUME TokensTypeOK, NEW c \in Call, NEW pc, GoTo(c, pc)
  PROVE  /\ calls'[c].pc = pc /\ calls'[c].token = calls[c].token
         /\ calls'[c].new = calls[c].new
         /\ \A d \in Call : d # c => calls'[d] = calls[d]
  BY DEF GoTo, TokensTypeOK, CallState

LEMMA ArriveFacts ==
  ASSUME TokensTypeOK, NEW c \in Call, NEW pc, NEW t, NEW a, Arrive(c, pc, t, a)
  PROVE  /\ calls'[c].pc = pc /\ calls'[c].token = t /\ calls'[c].new = NoToken
         /\ At(c, "idle")
         /\ \A d \in Call : d # c => calls'[d] = calls[d]
         /\ UNCHANGED rows
  BY DEF Arrive, Idle, TokensTypeOK

LEMMA LeaveFacts ==
  ASSUME TokensTypeOK, NEW c \in Call, Leave(c)
  PROVE  /\ calls'[c].pc = "idle" /\ calls'[c].token = NoToken /\ calls'[c].new = NoToken
         /\ \A d \in Call : d # c => calls'[d] = calls[d]
         /\ UNCHANGED rows
  BY DEF Leave, Idle, TokensTypeOK

(* The steps that issue no token. *)
CallsOnlyMove ==
  \A c \in Call :
    /\ calls'[c].token \in {calls[c].token, jar.refresh, NoToken}
    /\ calls'[c].new \in {calls[c].new, NoToken}
    /\ calls'[c].pc # "revoke"
    /\ calls'[c].pc = "granted" /\ calls'[c].token = NoToken =>
         At(c, "granted") /\ calls[c].token = NoToken /\ calls'[c].new = calls[c].new

(* The cookie is the old one, none, or the token of a call that is done. *)
JarMoves ==
  \/ jar'.refresh \in {jar.refresh, NoToken}
  \/ \E c \in Call : jar'.refresh = calls[c].new /\ calls'[c].new = NoToken

(* Rows keep their family, and their time while a call is to answer them. *)
RowsMove ==
  \A t \in Token :
    /\ rows'[t].family = rows[t].family
    /\ (\E c \in Call : calls[c].new = t) => rows'[t].expired = rows[t].expired

LEMMA MovesKeepFresh ==
  ASSUME Typed, ServerInv, CallsOnlyMove, JarMoves, RowsMove
  PROVE  LoginsAreFresh'
<1> SUFFICES ASSUME NEW c \in Call, At(c, "granted")', calls'[c].token = NoToken
             PROVE  LoginIsFresh(c)'
  BY DEF LoginsAreFresh
<1>1. /\ At(c, "granted") /\ calls[c].token = NoToken
      /\ calls'[c].new = calls[c].new
  BY DEF CallsOnlyMove, At
<1>2. LoginIsFresh(c) /\ calls[c].new \in Token
  BY <1>1 DEF ServerInv, LoginsAreFresh, At, Typed, TokensTypeOK
<1>n. calls[c].new # NoToken
  BY <1>2, SessionNullsAreDistinct
<1>3. ~rows'[calls[c].new].expired
      /\ {t \in Token : rows'[t].family = rows'[calls[c].new].family} = {calls[c].new}
  BY <1>2 DEF RowsMove, LoginIsFresh, FamilyRows
<1>4. jar'.refresh # calls[c].new
  BY <1>1, <1>2, <1>n DEF JarMoves, LoginIsFresh
<1>5. ASSUME NEW d \in Call
      PROVE  calls'[d].token # calls[c].new /\ (calls'[d].new = calls[c].new => d = c)
  BY <1>2, <1>n DEF CallsOnlyMove, LoginIsFresh
<1>. QED  BY <1>1, <1>3, <1>4, <1>5 DEF LoginIsFresh, FamilyRows

LEMMA MovesKeepIssued ==
  ASSUME Typed, ServerInv, CallsOnlyMove, IssuedTokens \subseteq IssuedTokens'
  PROVE  NobodyRevokes' /\ CallsAreIssued'
<1>1. jar.refresh \in IssuedTokens \cup {NoToken}
  BY DEF Typed, CookieIsIssued
<1>2. ASSUME NEW c \in Call
      PROVE  {calls'[c].token, calls'[c].new} \subseteq IssuedTokens' \cup {NoToken}
  BY <1>1 DEF CallsOnlyMove, ServerInv, CallsAreIssued
<1>. QED  BY <1>2 DEF CallsAreIssued, NobodyRevokes, CallsOnlyMove, At

(* A request arrives at the server. *)
LEMMA ArriveKeeps ==
  ASSUME Typed, ServerInv, NEW c \in Call,
         NEW pc \in {"find", "enter", "revokeAll"}, NEW t \in {jar.refresh, NoToken}, NEW a,
         Arrive(c, pc, t, a), UNCHANGED jar
  PROVE  CallsOnlyMove /\ JarMoves /\ RowsMove /\ IssuedTokens \subseteq IssuedTokens'
<1>1. /\ calls'[c].pc = pc /\ calls'[c].token = t /\ calls'[c].new = NoToken
      /\ \A d \in Call : d # c => calls'[d] = calls[d]
      /\ UNCHANGED rows
  BY ArriveFacts DEF Typed
<1>2. CallsOnlyMove
  BY <1>1 DEF CallsOnlyMove, ServerInv, NobodyRevokes, At
<1>. QED  BY <1>1, <1>2 DEF JarMoves, RowsMove, IssuedTokens

(* A call is done; the browser may take over its token. *)
LEMMA LeaveKeeps ==
  ASSUME Typed, ServerInv, NEW c \in Call, Leave(c),
         jar'.refresh \in {jar.refresh, calls[c].new}
  PROVE  CallsOnlyMove /\ JarMoves /\ RowsMove /\ IssuedTokens \subseteq IssuedTokens'
<1>1. /\ calls'[c].pc = "idle" /\ calls'[c].token = NoToken /\ calls'[c].new = NoToken
      /\ \A d \in Call : d # c => calls'[d] = calls[d]
      /\ UNCHANGED rows
  BY LeaveFacts DEF Typed
<1>2. CallsOnlyMove
  BY <1>1 DEF CallsOnlyMove, ServerInv, NobodyRevokes, At
<1>. QED  BY <1>1, <1>2 DEF JarMoves, RowsMove, IssuedTokens

(* A statement that inserts no row. *)
PlainStatement(c) ==
  \/ FindNone(c) \/ FindRevoked(c) \/ RevokeFamily(c) \/ FindExpired(c) \/ FindLive(c)
  \/ MarkRotated(c) \/ MarkPruned(c) \/ FindAdmin(c) \/ RevokeAllForAdmin(c) \/ Fails(c)

LEMMA PlainGoesTo ==
  ASSUME Typed, NEW c \in Call, PlainStatement(c)
  PROVE  \E pc \in {"refused", "failed", "reuse", "issue", "admin", "granted", "cleared"} :
           GoTo(c, pc) /\ (pc = "granted" => calls[c].token \in Token)
<1>1. CASE FindAdmin(c)
  <2>1. calls[c].token \in Token
    BY <1>1 DEF FindAdmin, At, Typed, TokensTypeOK
  <2>. QED  BY <1>1, <2>1 DEF FindAdmin
<1>2. CASE ~FindAdmin(c)
  BY <1>2 DEF PlainStatement, FindNone, FindRevoked, RevokeFamily, FindExpired, FindLive,
              MarkRotated, MarkPruned, RevokeAllForAdmin, Fails
<1>. QED  BY <1>1, <1>2

LEMMA PlainRows ==
  ASSUME Typed, NEW c \in Call, PlainStatement(c)
  PROVE  \A t \in Token : rows'[t].family = rows[t].family /\ rows'[t].expired = rows[t].expired
<1>1. ASSUME NEW S, RevokeRows(S)
      PROVE  \A t \in Token : rows'[t].family = rows[t].family /\ rows'[t].expired = rows[t].expired
  BY <1>1 DEF RevokeRows, Typed, TokensTypeOK, TokenRow
<1>2. CASE RevokeFamily(c) \/ RevokeAllForAdmin(c)
  BY <1>1, <1>2 DEF RevokeFamily, RevokeAllForAdmin
<1>3. CASE MarkRotated(c)
  <2>1. calls[c].token \in Token /\ rows \in [Token -> TokenRow]
    BY <1>3 DEF MarkRotated, Present, Typed, TokensTypeOK
  <2>. QED  BY <1>3, <2>1 DEF MarkRotated, TokenRow
<1>4. CASE UNCHANGED rows
  BY <1>4
<1>. QED  BY <1>2, <1>3, <1>4 DEF PlainStatement, FindNone, FindRevoked, FindExpired, FindLive,
              MarkPruned, FindAdmin, Fails

LEMMA PlainKeeps ==
  ASSUME Typed, ServerInv, NEW c \in Call, PlainStatement(c), UNCHANGED jar
  PROVE  CallsOnlyMove /\ JarMoves /\ RowsMove
<1>1. PICK pc \in {"refused", "failed", "reuse", "issue", "admin", "granted", "cleared"} :
        GoTo(c, pc) /\ (pc = "granted" => calls[c].token \in Token)
  BY PlainGoesTo
<1>2. /\ calls'[c].pc = pc /\ calls'[c].token = calls[c].token /\ calls'[c].new = calls[c].new
      /\ \A d \in Call : d # c => calls'[d] = calls[d]
  BY <1>1, GoToFacts DEF Typed
<1>3. CallsOnlyMove
  BY <1>1, <1>2, SessionNullsAreDistinct DEF CallsOnlyMove, ServerInv, NobodyRevokes, At
<1>. QED  BY <1>3, PlainRows DEF JarMoves, RowsMove

(* A login opens its family. *)
LEMMA EnterKeeps ==
  ASSUME Typed, ServerInv, NEW c \in Call, NEW n \in Token, NEW f \in Family, Enter(c, n, f),
         UNCHANGED jar, IssuedTokens \subseteq IssuedTokens'
  PROVE  NobodyRevokes' /\ CallsAreIssued' /\ LoginsAreFresh'
<1>1. /\ rows' \in [Token -> TokenRow] /\ rows'[n].state = "live" /\ rows'[n].family = f
      /\ \A t \in Token : t # n => rows'[t] = rows[t]
      /\ rows'[n].expired = FALSE
  <2>1. calls[c].admin \in Admin \cup {NoAdmin}
    BY DEF Typed, TokensTypeOK, CallState
  <2>2. rows'[n].expired = FALSE
    BY DEF Enter, NewRow, Absent, Typed, TokensTypeOK
  <2>. QED  BY <2>1, <2>2, NewRowIs DEF Enter, Typed
<1>2. /\ calls'[c].pc = "granted" /\ calls'[c].new = n /\ calls'[c].token = calls[c].token
      /\ \A d \in Call : d # c => calls'[d] = calls[d]
  BY DEF Enter, Typed, TokensTypeOK, CallState
<1>3. n \notin IssuedTokens /\ n \in IssuedTokens' /\ n # NoToken
  BY <1>1, SessionNullsAreDistinct DEF IssuedTokens, Enter
<1>4. \A d \in Call : calls[d].token # n /\ calls[d].new # n
  BY <1>3 DEF ServerInv, CallsAreIssued
<1>5. jar.refresh # n
  BY <1>3 DEF Typed, CookieIsIssued
<1>6. NobodyRevokes' /\ CallsAreIssued'
  <2>1. NobodyRevokes'
    BY <1>2 DEF NobodyRevokes, At, ServerInv
  <2>2. ASSUME NEW d \in Call
        PROVE  {calls'[d].token, calls'[d].new} \subseteq IssuedTokens' \cup {NoToken}
    BY <1>2, <1>3 DEF ServerInv, CallsAreIssued
  <2>. QED  BY <2>1, <2>2 DEF CallsAreIssued
<1>7. ASSUME NEW d \in Call, calls'[d].pc = "granted", calls'[d].token = NoToken
      PROVE  LoginIsFresh(d)'
  <2>1. CASE d = c
    <3>1. {t \in Token : rows'[t].family = f} = {n}
      BY <1>1 DEF Enter, FamilyRows
    <3>. QED  BY <1>1, <1>2, <1>4, <1>5, <2>1, <3>1 DEF LoginIsFresh, FamilyRows
  <2>2. CASE d # c
    <3>1. LoginIsFresh(d) /\ calls[d].new \in Token /\ calls'[d] = calls[d]
      BY <1>2, <1>7, <2>2 DEF ServerInv, LoginsAreFresh, At, Typed, TokensTypeOK
    <3>2. calls[d].new # n /\ rows[calls[d].new].family # f
      BY <1>4, <3>1 DEF Enter, FamilyRows
    <3>3. {t \in Token : rows'[t].family = rows'[calls[d].new].family} = {calls[d].new}
      BY <1>1, <3>1, <3>2 DEF LoginIsFresh, FamilyRows
    <3>4. \A e \in Call : calls'[e].token # calls[d].new /\ (calls'[e].new = calls[d].new => e = d)
      BY <1>2, <3>1, <3>2 DEF LoginIsFresh
    <3>. QED  BY <1>1, <3>1, <3>2, <3>3, <3>4 DEF LoginIsFresh, FamilyRows
  <2>. QED  BY <2>1, <2>2
<1>. QED  BY <1>6, <1>7 DEF LoginsAreFresh, At

(* A rotation inserts into the family of its token. *)
LEMMA IssueKeeps ==
  ASSUME Typed, ServerInv, NEW c \in Call, NEW n \in Token, Issue(c, n),
         UNCHANGED jar, IssuedTokens \subseteq IssuedTokens'
  PROVE  NobodyRevokes' /\ CallsAreIssued' /\ LoginsAreFresh'
<1>0. calls[c].token \in Token /\ rows[calls[c].token].state # "absent"
  BY DEF Issue, At, Typed, TokensTypeOK
<1>1. /\ rows'[n].state = "live" /\ rows'[n].family = rows[calls[c].token].family
      /\ \A t \in Token : t # n => rows'[t] = rows[t]
      /\ rows'[n].expired = FALSE
  BY <1>0 DEF Issue, NewRow, Absent, Typed, TokensTypeOK
<1>2. /\ calls'[c].pc = "mark" /\ calls'[c].new = n /\ calls'[c].token = calls[c].token
      /\ \A d \in Call : d # c => calls'[d] = calls[d]
  BY DEF Issue, Typed, TokensTypeOK, CallState
<1>3. n \notin IssuedTokens /\ n \in IssuedTokens' /\ n # NoToken
  BY <1>1, SessionNullsAreDistinct DEF IssuedTokens, Issue
<1>4. \A d \in Call : calls[d].token # n /\ calls[d].new # n
  BY <1>3 DEF ServerInv, CallsAreIssued
<1>6. NobodyRevokes' /\ CallsAreIssued'
  <2>1. NobodyRevokes'
    BY <1>2 DEF NobodyRevokes, At, ServerInv
  <2>2. ASSUME NEW d \in Call
        PROVE  {calls'[d].token, calls'[d].new} \subseteq IssuedTokens' \cup {NoToken}
    BY <1>2, <1>3 DEF ServerInv, CallsAreIssued
  <2>. QED  BY <2>1, <2>2 DEF CallsAreIssued
<1>7. ASSUME NEW d \in Call, calls'[d].pc = "granted", calls'[d].token = NoToken
      PROVE  LoginIsFresh(d)'
  <2>1. d # c
    BY <1>2, <1>7
  <2>2. LoginIsFresh(d) /\ calls[d].new \in Token /\ calls'[d] = calls[d]
    BY <1>2, <1>7, <2>1 DEF ServerInv, LoginsAreFresh, At, Typed, TokensTypeOK
  <2>3. calls[d].new # n /\ rows[calls[d].new].family # rows[calls[c].token].family
    BY <1>0, <1>4, <2>2 DEF LoginIsFresh, FamilyRows
  <2>4. {t \in Token : rows'[t].family = rows'[calls[d].new].family} = {calls[d].new}
    BY <1>1, <2>2, <2>3 DEF LoginIsFresh, FamilyRows
  <2>5. \A e \in Call : calls'[e].token # calls[d].new /\ (calls'[e].new = calls[d].new => e = d)
    BY <1>2, <2>2, <2>3 DEF LoginIsFresh
  <2>. QED  BY <1>1, <2>2, <2>3, <2>4, <2>5 DEF LoginIsFresh, FamilyRows
<1>. QED  BY <1>6, <1>7 DEF LoginsAreFresh, At

-----------------------------------------------------------------------------
(* Who waits for a login waits for a call without a cookie. *)
LEMMA LoginWaitFrame ==
  ASSUME Typed, ServerInv,
         \A d \in Call, y \in Tab : Waits(d, y, "login")' =>
           /\ Waits(d, y, "login")
           /\ \/ calls'[d] = calls[d]
              \/ /\ calls'[d].token = calls[d].token
                 /\ calls'[d].pc \in {"granted", "refused", "failed"}
  PROVE  LoginsHaveNoCookie'
  BY DEF ServerInv, LoginsHaveNoCookie

LEMMA SendKeepsLogins ==
  ASSUME Typed, ServerInv, NEW c \in Call, NEW x \in Tab, NEW code \in Codes,
         NEW pc \in {"find", "enter"}, NEW t, NEW a, Arrive(c, pc, t, a), Expects(c, x, code),
         code = "login" => pc = "enter" /\ t = NoToken
  PROVE  LoginsHaveNoCookie'
<1>1. \A d \in Call, y \in Tab, k \in Codes :
        Waits(d, y, k)' <=> (d = c /\ y = x /\ k = code) \/ Waits(d, y, k)
  BY ExpectsFacts DEF Typed
<1>2. \A y \in Tab, k \in Codes : ~Waits(c, y, k)
  BY ExpectsFacts DEF Typed
<1>3. /\ calls'[c].pc = pc /\ calls'[c].token = t
      /\ \A d \in Call : d # c => calls'[d] = calls[d]
  BY ArriveFacts DEF Typed
<1>4. ASSUME NEW d \in Call, NEW y \in Tab, Waits(d, y, "login")'
      PROVE  calls'[d].pc \in {"enter", "granted", "refused", "failed"} /\ calls'[d].token = NoToken
  <2>1. CASE d = c
    BY <1>1, <1>2, <1>3, <1>4, <2>1 DEF Codes
  <2>2. CASE d # c
    BY <1>1, <1>3, <1>4, <2>2 DEF ServerInv, LoginsHaveNoCookie, Codes
  <2>. QED  BY <2>1, <2>2
<1>. QED  BY <1>4 DEF LoginsHaveNoCookie

LEMMA AnswerKeepsLogins ==
  ASSUME Typed, ServerInv, NEW c \in Call, AnswerGone(c), Leave(c) \/ UNCHANGED calls
  PROVE  LoginsHaveNoCookie'
<1>1. \A d \in Call, y \in Tab, k \in Codes : Waits(d, y, k)' <=> d # c /\ Waits(d, y, k)
  BY GoneFacts DEF Typed
<1>2. \A d \in Call : d # c => calls'[d] = calls[d]
  BY LeaveFacts DEF Typed
<1>. QED  BY <1>1, <1>2, LoginWaitFrame DEF Codes

LEMMA ServerKeepsLogins ==
  ASSUME Typed, ServerInv, NEW c \in Call, Serve(c) \/ Fails(c), UNCHANGED waiter
  PROVE  LoginsHaveNoCookie'
<1>1. \A d \in Call, y \in Tab : Waits(d, y, "login")' <=> Waits(d, y, "login")
  BY DEF Waits
<1>2. ASSUME NEW y \in Tab, Waits(c, y, "login")
      PROVE  /\ calls'[c].token = calls[c].token /\ calls'[c].pc \in {"granted", "refused", "failed"}
             /\ \A d \in Call : d # c => calls'[d] = calls[d]
  <2>1. calls[c].pc \in {"enter", "granted", "refused", "failed"}
    BY <1>2 DEF ServerInv, LoginsHaveNoCookie
  <2>2. CASE Fails(c)
    BY <2>2, GoToFacts DEF Fails, Typed
  <2>3. CASE \E n \in Token, f \in Family : Enter(c, n, f)
    BY <2>3 DEF Enter, Typed, TokensTypeOK, CallState
  <2>. QED
    BY <2>1, <2>2, <2>3 DEF Serve, At, FindNone, FindRevoked, RevokeFamily, FindExpired, FindLive,
       Issue, MarkRotated, MarkPruned, FindAdmin, Revoke, RevokeAllForAdmin
<1>3. \A d \in Call : d # c => calls'[d] = calls[d]
  <2>1. CASE \E n \in Token, f \in Family : Enter(c, n, f)
    BY <2>1 DEF Enter, Typed, TokensTypeOK
  <2>2. CASE \E n \in Token : Issue(c, n)
    BY <2>2 DEF Issue, Typed, TokensTypeOK
  <2>3. CASE Revoke(c)
    BY <2>3, GoToFacts DEF Revoke, Typed
  <2>4. CASE PlainStatement(c)
    BY <2>4, PlainGoesTo, GoToFacts DEF Typed
  <2>. QED  BY <2>1, <2>2, <2>3, <2>4 DEF Serve, PlainStatement
<1>. QED  BY <1>1, <1>2, <1>3, LoginWaitFrame

(* Time passes for tokens that are not on their way to the browser. *)
LEMMA DaysKeep ==
  ASSUME Typed, DaysPass
  PROVE  RowsMove /\ UNCHANGED calls /\ jar'.refresh \in {jar.refresh, NoToken}
<1>1. UNCHANGED calls /\ \A t \in Token : rows'[t].family = rows[t].family
  <2>1. Passes
    BY DEF DaysPass, RefreshExpires, Passes
  <2>. QED  BY <2>1, EnvironmentFades DEF Typed, RowsOnlyFade
<1>2. ASSUME NEW t \in Token, \E c \in Call : calls[c].new = t
      PROVE  rows'[t].expired = rows[t].expired
  <2>1. ASSUME NEW u \in Token, RefreshExpires(u)
        PROVE  rows'[t].expired = rows[t].expired
    BY <1>2, <2>1 DEF RefreshExpires, Expire, Typed, TokensTypeOK
  <2>2. ASSUME NEW u \in Token, RevocationAges(u)
        PROVE  rows'[t].expired = rows[t].expired
    BY <2>2 DEF RevocationAges, Typed, TokensTypeOK, TokenRow
  <2>3. CASE PruneExpiredTokens
    BY <2>3 DEF PruneExpiredTokens, Typed, TokensTypeOK, TokenRow
  <2>. QED  BY <2>1, <2>2, <2>3 DEF DaysPass
<1>3. jar'.refresh \in {jar.refresh, NoToken}
  BY DEF DaysPass, RefreshExpires, browserVars, Typed, CookieIsIssued
<1>. QED  BY <1>1, <1>2, <1>3 DEF RowsMove

LEMMA StillKeeps ==
  ASSUME Typed, ServerInv, UNCHANGED calls, RowsMove, jar'.refresh \in {jar.refresh, NoToken}
  PROVE  CallsOnlyMove /\ JarMoves
<1>1. CallsOnlyMove
  BY DEF CallsOnlyMove, ServerInv, NobodyRevokes, At
<1>. QED  BY <1>1 DEF JarMoves

LEMMA ServerInvStep ==
  ASSUME Typed, ServerInv, [CmsNext]_cmsVars
  PROVE  ServerInv'
<1>i. IssuedTokens \subseteq IssuedTokens'
  BY CmsStepIsTokenStep, IssuedStay DEF Typed
<1>m. ASSUME CallsOnlyMove, JarMoves, RowsMove, LoginsHaveNoCookie'
      PROVE  ServerInv'
  BY <1>i, <1>m, MovesKeepFresh, MovesKeepIssued DEF ServerInv
<1>s. ASSUME UNCHANGED <<rows, calls, waiter>>, jar'.refresh \in {jar.refresh, NoToken}
      PROVE  ServerInv'
  <2>1. RowsMove
    BY <1>s DEF RowsMove
  <2>2. LoginsHaveNoCookie'
    BY <1>s DEF ServerInv, LoginsHaveNoCookie, Waits
  <2>. QED  BY <1>m, <1>s, <2>1, <2>2, StillKeeps
<1>1. CASE UNCHANGED cmsVars
  BY <1>1, <1>s DEF cmsVars, browserVars, tokenVars
<1>2. ASSUME NEW x \in Tab, TabStep(x)
      PROVE  ServerInv'
  <2>1. ASSUME NEW q \in Query,
               \/ Ask(x, q) \/ Repeat(x, q) \/ LoginRejected(x)
               \/ OkArrives(x, q) \/ ErrorArrives(x, q) \/ JoinFlight(x, q)
        PROVE  ServerInv'
    BY <2>1, <1>s DEF Ask, Repeat, LoginRejected, OkArrives, ErrorArrives, JoinFlight, tokenVars
  <2>2. ASSUME NEW q \in Query, NEW c \in Call,
               \/ StartFlight(x, q, c) \/ TimerFires(x, c) \/ BecomesVisible(x, c)
               \/ SendLogin(x, c)
        PROVE  ServerInv'
    <3>1. PICK code \in Codes, pc \in {"find", "enter"}, t \in {jar.refresh, NoToken}, a \in {NoAdmin} \cup Admin :
            /\ Arrive(c, pc, t, a)
            /\ Expects(c, x, code)
            /\ code = "login" => pc = "enter" /\ t = NoToken
            /\ UNCHANGED jar
      BY <2>2 DEF StartFlight, TimerFires, BecomesVisible, SendLogin, SendRefresh,
         Refresh, Login, Codes
    <3>2. LoginsHaveNoCookie'
      BY <3>1, SendKeepsLogins
    <3>3. pc \in {"find", "enter", "revokeAll"}
      OBVIOUS
    <3>. QED  BY <1>m, <3>1, <3>2, <3>3, ArriveKeeps
  <2>3. \E q \in Query : q = "login"
    BY DEF Query
  <2>. QED  BY <1>2, <2>1, <2>2, <2>3 DEF TabStep
<1>3. ASSUME NEW c \in Call, Deliver(c)
      PROVE  ServerInv'
  <2>1. AnswerGone(c) /\ Leave(c) /\ jar'.refresh \in {jar.refresh, calls[c].new}
    BY <1>3 DEF Deliver, RefreshArrives, LoginArrives, AnyFails, RefreshFails, LoginFails,
       CookiesSet
  <2>. QED  BY <1>m, <2>1, LeaveKeeps, AnswerKeepsLogins
<1>4. ASSUME NEW c \in Call, Cut(c)
      PROVE  ServerInv'
  <2>1. AnswerGone(c) /\ UNCHANGED <<rows, calls, jar>>
    BY <1>4 DEF Cut, AnyFails, RefreshFails, LoginFails, tokenVars
  <2>2. RowsMove
    BY <2>1 DEF RowsMove
  <2>. QED  BY <1>m, <2>1, <2>2, StillKeeps, AnswerKeepsLogins
<1>5. ASSUME NEW c \in Call, Unheard(c)
      PROVE  ServerInv'
  <2>1. Leave(c) /\ UNCHANGED <<jar, waiter>> /\ waiter[c] = Nobody
    BY <1>5 DEF Unheard, browserVars
  <2>2. \A d \in Call : d # c => calls'[d] = calls[d]
    BY <2>1, LeaveFacts DEF Typed
  <2>3. \A y \in Tab : ~Waits(c, y, "login")
    BY <2>1, CmsAssumption DEF Waits, Nobody
  <2>4. \A d \in Call, y \in Tab : Waits(d, y, "login")' <=> Waits(d, y, "login")
    BY <2>1 DEF Waits
  <2>5. LoginsHaveNoCookie'
    BY <2>2, <2>3, <2>4, LoginWaitFrame
  <2>. QED  BY <1>m, <2>1, <2>5, LeaveKeeps
<1>6. ASSUME NEW c \in Call, ServerStep(c) \/ ServerFails(c) \/ Throttled(c)
      PROVE  ServerInv'
  <2>1. (Serve(c) \/ Fails(c)) /\ UNCHANGED <<jar, waiter>>
    BY <1>6 DEF ServerStep, ServerFails, Throttled, browserVars
  <2>2. LoginsHaveNoCookie'
    BY <2>1, ServerKeepsLogins
  <2>3. ASSUME NEW n \in Token, NEW f \in Family, Enter(c, n, f)
        PROVE  ServerInv'
    BY <1>i, <2>1, <2>2, <2>3, EnterKeeps DEF ServerInv
  <2>4. ASSUME NEW n \in Token, Issue(c, n)
        PROVE  ServerInv'
    BY <1>i, <2>1, <2>2, <2>4, IssueKeeps DEF ServerInv
  <2>5. ~Revoke(c)
    BY DEF Revoke, ServerInv, NobodyRevokes
  <2>6. CASE PlainStatement(c)
    BY <1>m, <2>1, <2>2, <2>6, PlainKeeps
  <2>. QED  BY <2>1, <2>3, <2>4, <2>5, <2>6 DEF Serve, PlainStatement
<1>7. ASSUME NEW c \in Call, LogoutElsewhere(c)
      PROVE  ServerInv'
  <2>1. PICK a \in Admin : Arrive(c, "revokeAll", NoToken, a) /\ UNCHANGED <<jar, waiter>>
    BY <1>7 DEF LogoutElsewhere, LogoutAll, browserVars
  <2>2. waiter[c] = Nobody /\ \A d \in Call : d # c => calls'[d] = calls[d]
    BY <2>1, ArriveFacts DEF Typed, CmsInv, CmsTypeOK, IdleIsUnheard
  <2>3. \A y \in Tab : ~Waits(c, y, "login")
    BY <2>2, CmsAssumption DEF Waits, Nobody
  <2>4. \A d \in Call, y \in Tab : Waits(d, y, "login")' <=> Waits(d, y, "login")
    BY <2>1 DEF Waits
  <2>5. LoginsHaveNoCookie'
    BY <2>2, <2>3, <2>4, LoginWaitFrame
  <2>6. "revokeAll" \in {"find", "enter", "revokeAll"} /\ NoToken \in {jar.refresh, NoToken}
    OBVIOUS
  <2>. QED  BY <1>m, <2>1, <2>5, <2>6, ArriveKeeps
<1>8. CASE AccessExpires
  BY <1>8, <1>s DEF AccessExpires, tokenVars, Typed, CookieIsIssued
<1>9. CASE DaysPass
  <2>1. UNCHANGED waiter
    BY <1>9 DEF DaysPass, RefreshExpires, browserVars
  <2>2. LoginsHaveNoCookie'
    BY <1>9, <2>1, DaysKeep DEF ServerInv, LoginsHaveNoCookie, Waits
  <2>. QED  BY <1>9, <1>m, <2>2, DaysKeep, StillKeeps
<1>. QED  BY <1>1, <1>2, <1>3, <1>4, <1>5, <1>6, <1>7, <1>8, <1>9 DEF CmsNext

-----------------------------------------------------------------------------
(* Only the arrival of a refresh lets a request be repeated, and that      *)
(* brings an access token, which lasts until the repeat is made.           *)
LEMMA RepeatsPassStep ==
  ASSUME Typed, RepeatsPass, [CmsNext]_cmsVars
  PROVE  RepeatsPass'
<1>t. /\ jar \in [access : BOOLEAN, refresh : Token \cup {NoToken}]
      /\ CmsTypeOK /\ request \in [Tab -> [Query -> RequestState]]
  BY DEF Typed, CmsInv, CmsTypeOK
<1>q. ASSUME UNCHANGED request, jar.access => jar'.access
      PROVE  RepeatsPass'
  BY <1>q DEF RepeatsPass
<1>b. ASSUME NEW x \in Tab, NEW q \in Query, NEW state \in RequestState, Becomes(x, q, state),
             state # "again", state = "denied" => q = "login", jar.access => jar'.access
      PROVE  RepeatsPass'
  BY <1>b, <1>t, BecomesFacts DEF RepeatsPass
<1>1. CASE UNCHANGED cmsVars
  BY <1>1, <1>q DEF cmsVars, browserVars
<1>2. ASSUME NEW x \in Tab, TabStep(x)
      PROVE  RepeatsPass'
  <2>s. {"none", "sent", "ok", "401", "error", "waiting", "denied"} \subseteq RequestState
        /\ "login" \in Query
    BY DEF RequestState, Query
  <2>1. ASSUME NEW q \in Query, Ask(x, q) \/ OkArrives(x, q) \/ ErrorArrives(x, q) \/ JoinFlight(x, q)
        PROVE  RepeatsPass'
    <3>1. \E state \in {"none", "ok", "401", "error", "waiting"} : Becomes(x, q, state)
      BY <2>1 DEF Ask, Answers, GuardSays, OkArrives, ErrorArrives, JoinFlight
    <3>2. UNCHANGED jar
      BY <2>1 DEF Ask, OkArrives, ErrorArrives, JoinFlight
    <3>. QED  BY <1>b, <2>s, <3>1, <3>2
  <2>2. ASSUME NEW q \in Query, Repeat(x, q)
        PROVE  RepeatsPass'
    <3>1. UNCHANGED jar /\ jar.access
      BY <2>2 DEF Repeat, RepeatsPass
    <3>2. \E state \in {"ok", "error", "denied"} :
            Becomes(x, q, state) /\ (state = "denied" => q = "login")
      BY <2>2, <3>1 DEF Repeat, Answers, GuardSays
    <3>. QED  BY <1>b, <2>s, <3>1, <3>2
  <2>3. ASSUME NEW q \in Query, NEW c \in Call, StartFlight(x, q, c)
        PROVE  RepeatsPass'
    BY <1>b, <2>s, <2>3 DEF StartFlight, SendRefresh
  <2>4. ASSUME NEW c \in Call, TimerFires(x, c) \/ BecomesVisible(x, c)
        PROVE  RepeatsPass'
    BY <1>q, <2>4 DEF TimerFires, BecomesVisible, SendRefresh
  <2>5. ASSUME NEW c \in Call, SendLogin(x, c)
        PROVE  RepeatsPass'
    BY <1>b, <2>s, <2>5 DEF SendLogin
  <2>6. CASE LoginRejected(x)
    BY <1>b, <2>s, <2>6 DEF LoginRejected
  <2>. QED  BY <1>2, <2>1, <2>2, <2>3, <2>4, <2>5, <2>6 DEF TabStep
<1>3. ASSUME NEW c \in Call, Deliver(c) \/ Cut(c)
      PROVE  RepeatsPass'
  <2>1. PICK x \in Tab : \/ \E code \in Triggers : RefreshArrives(c, x, code)
                         \/ LoginArrives(c, x)
                         \/ AnyFails(c, x)
    BY <1>3 DEF Deliver, Cut
  <2>s. {"none", "again"} \subseteq RequestState /\ "login" \in Query
    BY DEF RequestState, Query
  <2>2. ASSUME NEW code \in Triggers, RefreshArrives(c, x, code)
        PROVE  RepeatsPass'
    <3>1. jar'.access
      BY <2>2 DEF RefreshArrives, CookiesSet
    <3>2. UNCHANGED request \/ Released(x, "again")
      BY <2>2 DEF RefreshArrives, FlightSucceeds
    <3>3. \A y \in Tab, r \in Query : request'[y][r] = "denied" => request[y][r] = "denied"
      BY <1>t, <3>2 DEF Released
    <3>. QED  BY <3>1, <3>3 DEF RepeatsPass
  <2>3. CASE LoginArrives(c, x)
    <3>1. jar'.access /\ Becomes(x, "login", "none")
      BY <2>3 DEF LoginArrives, CookiesSet
    <3>. QED  BY <1>b, <2>s, <3>1
  <2>4. ASSUME NEW code \in Triggers, RefreshFails(c, x, code)
        PROVE  RepeatsPass'
    <3>1. UNCHANGED request \/ Released(x, "none")
      BY <2>4 DEF RefreshFails, FlightFails
    <3>2. \A y \in Tab, r \in Query : request'[y][r] \in {"again", "denied"} => request'[y][r] = request[y][r]
      BY <1>t, <3>1 DEF Released
    <3>. QED  BY <2>4, <3>2 DEF RepeatsPass, RefreshFails
  <2>5. CASE LoginFails(c, x)
    BY <1>b, <2>s, <2>5 DEF LoginFails
  <2>. QED  BY <2>1, <2>2, <2>3, <2>4, <2>5 DEF AnyFails
<1>4. ASSUME NEW c \in Call,
             \/ Unheard(c) \/ ServerStep(c) \/ ServerFails(c) \/ Throttled(c)
             \/ LogoutElsewhere(c)
      PROVE  RepeatsPass'
  BY <1>4, <1>q DEF Unheard, ServerStep, ServerFails, Throttled, LogoutElsewhere, browserVars
<1>5. CASE AccessExpires
  BY <1>5 DEF AccessExpires, RepeatsPass
<1>6. CASE DaysPass
  <2>1. UNCHANGED request
    BY <1>6 DEF DaysPass, RefreshExpires, browserVars
  <2>2. jar'.access = jar.access
    BY <1>6, <1>t DEF DaysPass, RefreshExpires, browserVars
  <2>. QED  BY <1>q, <2>1, <2>2
<1>. QED  BY <1>1, <1>2, <1>3, <1>4, <1>5, <1>6 DEF CmsNext

(* Which refreshes are under way. *)
LEMMA RefreshingStill ==
  ASSUME UNCHANGED waiter
  PROVE  \A d \in Call : Refreshing(d)' <=> Refreshing(d)
  BY DEF Refreshing, Waits

LEMMA UnheardIsNone ==
  ASSUME NEW c \in Call, \/ waiter[c] = Nobody
                         \/ \E x \in Tab : Waits(c, x, "login")
  PROVE  ~Refreshing(c)
<1>1. PICK x : waiter[c] = [tab |-> x, code |-> "login"]
  BY DEF Waits, Nobody
<1>2. ASSUME NEW y \in Tab, NEW code \in Triggers, waiter[c] = [tab |-> y, code |-> code]
      PROVE  FALSE
  <2>1. code # "login"
    BY <1>2, CmsAssumption
  <2>2. waiter[c].code = code /\ waiter[c].code = "login"
    BY <1>1, <1>2
  <2>. QED  BY <2>1, <2>2
<1>. QED  BY <1>2 DEF Refreshing, Waits

LEMMA RefreshingStarts ==
  ASSUME Typed, NEW c \in Call, NEW x \in Tab, NEW code \in Codes,
         NEW pc \in {"find", "enter"}, NEW t, NEW a, Arrive(c, pc, t, a), Expects(c, x, code)
  PROVE  /\ ~Refreshing(c)
         /\ \A d \in Call : Refreshing(d)' <=> (d = c /\ code \in Triggers) \/ Refreshing(d)
<1>1. \A y \in Tab, k \in Codes : ~Waits(c, y, k)
  BY ExpectsFacts DEF Typed
<1>2. \A d \in Call, y \in Tab, k \in Codes :
        Waits(d, y, k)' <=> (d = c /\ y = x /\ k = code) \/ Waits(d, y, k)
  BY ExpectsFacts DEF Typed
<1>3. Triggers \subseteq Codes
  BY CmsAssumption DEF Codes
<1>. QED  BY <1>1, <1>2, <1>3 DEF Refreshing

LEMMA RefreshingEnds ==
  ASSUME Typed, NEW c \in Call, AnswerGone(c), Leave(c) \/ UNCHANGED calls
  PROVE  \A d \in Call : Refreshing(d)' <=> d # c /\ Refreshing(d)
<1>1. \A d \in Call, y \in Tab, k \in Codes : Waits(d, y, k)' <=> d # c /\ Waits(d, y, k)
  BY GoneFacts DEF Typed
<1>2. Triggers \subseteq Codes
  BY CmsAssumption DEF Codes
<1>. QED  BY <1>1, <1>2 DEF Refreshing

LEMMA WholeFacts ==
  ASSUME Typed, SessionIsWhole, session = "on"
  PROVE  /\ jar.refresh \in Token /\ jar.refresh # NoToken
         /\ rows[jar.refresh].state # "absent"
         /\ ~rows[jar.refresh].expired
         /\ \A d \in Call : Refreshing(d) => Rotates(d)
         /\ \A d, e \in Call : Refreshing(d) /\ Refreshing(e) => d = e
         /\ (\A d \in Call : ~Refreshing(d)) => rows[jar.refresh].state = "live"
         /\ \A c \in Call : calls[c].token \in FamilyRows(rows[jar.refresh].family) =>
              Refreshing(c) \/ At(c, "failed")
  BY SessionNullsAreDistinct DEF SessionIsWhole, Typed, CookieIsIssued, IssuedTokens

(* What keeps a session whole while the browser keeps its token.           *)
KeepsFamilies ==
  \A t \in Token : rows[t].state # "absent" =>
    rows'[t].family = rows[t].family /\ rows'[t].admin = rows[t].admin

StaysGood(t) ==
  rows[t].state = "live" /\ ~rows[t].expired => rows'[t].state = "live" /\ ~rows'[t].expired

LEMMA WholeFrame ==
  ASSUME Typed, ServerInv, SessionIsWhole, session = "on",
         jar'.refresh = jar.refresh, \A d \in Call : Refreshing(d)' <=> Refreshing(d),
         KeepsFamilies, ~rows'[jar.refresh].expired, StaysGood(jar.refresh),
         \A d \in Call : Refreshing(d) =>
           /\ calls'[d] = calls[d]
           /\ calls[d].pc \in {"mark", "admin", "granted"} => StaysGood(calls[d].new),
         \A c \in Call : calls'[c].token = NoToken \/
           (calls'[c].token = calls[c].token /\ (At(c, "failed") => At(c, "failed")'))
  PROVE  SessionIsWhole'
<1> DEFINE R == jar.refresh
<1>1. /\ R \in Token /\ rows[R].state # "absent" /\ ~rows[R].expired
      /\ rows'[R].family = rows[R].family /\ rows'[R].admin = rows[R].admin
  BY WholeFacts DEF KeepsFamilies
<1>2. ASSUME NEW d \in Call, Refreshing(d)
      PROVE  Rotates(d)'
  <2>1. Rotates(d) /\ calls'[d] = calls[d]
    BY <1>2, WholeFacts
  <2>2. calls[d].pc \in {"find", "issue", "mark", "failed"} => rows'[R].state = "live"
    BY <1>1, <2>1 DEF Rotates, StaysGood
  <2>3. ASSUME calls[d].pc \in {"mark", "admin", "granted"}
        PROVE  /\ calls[d].new \in Token \ {R}
               /\ rows'[calls[d].new].state = "live"
               /\ ~rows'[calls[d].new].expired
               /\ rows'[calls[d].new].family = rows'[R].family
               /\ rows'[calls[d].new].admin = rows'[R].admin
    <3>1. /\ calls[d].new \in Token \ {R} /\ rows[calls[d].new].state = "live"
          /\ ~rows[calls[d].new].expired /\ rows[calls[d].new].family = rows[R].family
          /\ rows[calls[d].new].admin = rows[R].admin
      BY <2>1, <2>3 DEF Rotates
    <3>. QED  BY <1>1, <1>2, <2>3, <3>1 DEF StaysGood, KeepsFamilies
  <2>. QED  BY <2>1, <2>2, <2>3 DEF Rotates
<1>3. (\A d \in Call : ~Refreshing(d)') => rows'[R].state = "live"
  BY <1>1, WholeFacts DEF StaysGood
<1>4. ASSUME NEW c \in Call, calls'[c].token \in Token, rows'[calls'[c].token].family = rows[R].family
      PROVE  Refreshing(c) \/ At(c, "failed")'
  <2>1. calls[c].token = calls'[c].token /\ calls[c].token \in IssuedTokens
    BY <1>4, SessionNullsAreDistinct DEF ServerInv, CallsAreIssued
  <2>2. calls[c].token \in FamilyRows(rows[R].family)
    BY <1>4, <2>1 DEF IssuedTokens, KeepsFamilies, FamilyRows
  <2>3. Refreshing(c) \/ At(c, "failed")
    BY <2>2, WholeFacts
  <2>. QED  BY <1>4, <2>3, SessionNullsAreDistinct
<1>. QED  BY <1>1, <1>2, <1>3, <1>4, WholeFacts DEF SessionIsWhole, FamilyRows

LEMMA WholeFlight ==
  ASSUME Typed, ServerInv, SessionIsWhole, session = "on", NEW c \in Call,
         jar'.refresh = jar.refresh, KeepsFamilies, ~rows'[jar.refresh].expired,
         \A d \in Call : d # c => calls'[d] = calls[d] /\ ~Refreshing(d),
         \A d \in Call : Refreshing(d)' <=> d = c,
         Rotates(c)'
  PROVE  SessionIsWhole'
<1> DEFINE R == jar.refresh
<1>1. R \in Token /\ rows[R].state # "absent" /\ rows'[R].family = rows[R].family
  BY WholeFacts DEF KeepsFamilies
<1>2. ASSUME NEW d \in Call, calls'[d].token \in Token, rows'[calls'[d].token].family = rows[R].family
      PROVE  d = c \/ At(d, "failed")'
  <2> SUFFICES ASSUME d # c PROVE At(d, "failed")'
    OBVIOUS
  <2>1. calls[d].token = calls'[d].token /\ calls[d].token \in IssuedTokens
    BY <1>2, SessionNullsAreDistinct DEF ServerInv, CallsAreIssued
  <2>2. calls[d].token \in FamilyRows(rows[R].family)
    BY <1>2, <2>1 DEF IssuedTokens, KeepsFamilies, FamilyRows
  <2>. QED  BY <2>2, WholeFacts DEF At
<1>. QED  BY <1>1, <1>2 DEF SessionIsWhole, FamilyRows

LEMMA FamiliesKept ==
  ASSUME Typed, ServerInv, [CmsNext]_cmsVars
  PROVE  KeepsFamilies
<1>f. ASSUME RowsOnlyFade PROVE KeepsFamilies
  BY <1>f DEF RowsOnlyFade, KeepsFamilies
<1>1. [TokenNext]_tokenVars /\ TokensTypeOK
  BY CmsStepIsTokenStep DEF Typed
<1>2. CASE UNCHANGED tokenVars
  BY <1>2 DEF tokenVars, KeepsFamilies
<1>3. CASE Passes
  BY <1>1, <1>3, <1>f, EnvironmentFades
<1>4. ASSUME NEW c \in Call,
             \/ AnyRequest(c) \/ FindNone(c) \/ FindRevoked(c) \/ RevokeFamily(c)
             \/ FindExpired(c) \/ FindLive(c) \/ MarkPruned(c) \/ FindAdmin(c)
             \/ Revoke(c) \/ RevokeAllForAdmin(c) \/ Fails(c) \/ Leave(c)
      PROVE  KeepsFamilies
  BY <1>1, <1>4, <1>f, OtherSteps DEF RowsKeepLinks
<1>5. ASSUME NEW c \in Call, NEW n \in Token, NEW f \in Family, Enter(c, n, f)
      PROVE  KeepsFamilies
  BY <1>1, <1>5 DEF Enter, NewRow, KeepsFamilies, TokensTypeOK
<1>6. ASSUME NEW c \in Call, NEW n \in Token, Issue(c, n)
      PROVE  KeepsFamilies
  BY <1>1, <1>6 DEF Issue, NewRow, KeepsFamilies, TokensTypeOK
<1>7. ASSUME NEW c \in Call, MarkRotated(c)
      PROVE  KeepsFamilies
  BY <1>1, <1>7, <1>f, MarkFades
<1>. QED  BY <1>1, <1>2, <1>3, <1>4, <1>5, <1>6, <1>7, StepKinds

(* A call that is no refresh under way leaves the family alone. *)
LEMMA OthersKeepFamily ==
  ASSUME Typed, ServerInv, SessionIsWhole, session = "on", NEW c \in Call, Serve(c),
         ~EndsSession(c), ~Refreshing(c)
  PROVE  /\ \A t \in FamilyRows(rows[jar.refresh].family) :
              rows[t].state # "absent" /\ rows[t].admin = rows[jar.refresh].admin =>
                rows'[t] = rows[t]
         /\ calls'[c].token = calls[c].token
         /\ \A d \in Call : d # c => calls'[d] = calls[d]
<1>1. calls[c].token \notin FamilyRows(rows[jar.refresh].family)
  <2>1. ~At(c, "failed")
    BY DEF Serve, At, Enter, FindNone, FindRevoked, RevokeFamily, FindExpired,
       FindLive, Issue, MarkRotated, MarkPruned, FindAdmin, Revoke, RevokeAllForAdmin
  <2>. QED  BY <2>1, WholeFacts
<1>2. ~Revoke(c)
  BY DEF Revoke, ServerInv, NobodyRevokes
<1>3. ASSUME NEW n \in Token, NEW f \in Family, Enter(c, n, f)
      PROVE  /\ \A t \in Token : rows[t].state # "absent" => rows'[t] = rows[t]
             /\ calls'[c].token = calls[c].token
             /\ \A d \in Call : d # c => calls'[d] = calls[d]
  BY <1>3 DEF Enter, NewRow, Typed, TokensTypeOK, CallState
<1>4. ASSUME NEW n \in Token, Issue(c, n)
      PROVE  /\ \A t \in Token : rows[t].state # "absent" => rows'[t] = rows[t]
             /\ calls'[c].token = calls[c].token
             /\ \A d \in Call : d # c => calls'[d] = calls[d]
  BY <1>4 DEF Issue, NewRow, Typed, TokensTypeOK, CallState
<1>5. CASE PlainStatement(c)
  <2>1. /\ calls'[c].token = calls[c].token
        /\ \A d \in Call : d # c => calls'[d] = calls[d]
    BY <1>5, PlainGoesTo, GoToFacts DEF Typed
  <2>2. ASSUME RevokeFamily(c), NEW t \in FamilyRows(rows[jar.refresh].family)
        PROVE  rows'[t] = rows[t]
    <3>1. calls[c].token \in Token
      BY <2>2 DEF RevokeFamily, At, Typed, TokensTypeOK
    <3>. QED  BY <1>1, <2>2, <3>1 DEF RevokeFamily, RevokeRows, FamilyRows
  <2>3. ASSUME MarkRotated(c), NEW t \in FamilyRows(rows[jar.refresh].family)
        PROVE  rows'[t] = rows[t]
    BY <1>1, <2>3 DEF MarkRotated, FamilyRows, Typed, TokensTypeOK
  <2>4. CASE UNCHANGED rows
    BY <2>1, <2>4
  <2>5. ASSUME RevokeAllForAdmin(c), NEW t \in Token, rows[t].admin = rows[jar.refresh].admin
        PROVE  rows'[t] = rows[t]
    <3>1. rows[t].admin # calls[c].admin
      BY <2>5, WholeFacts DEF EndsSession, RevokeAllForAdmin
    <3>. QED  BY <2>5, <3>1 DEF RevokeAllForAdmin, RevokeRows
  <2>. QED  BY <1>5, <2>1, <2>2, <2>3, <2>4, <2>5 DEF FamilyRows, PlainStatement, FindNone, FindRevoked,
              FindExpired, FindLive, MarkPruned, FindAdmin, Fails
<1>. QED  BY <1>2, <1>3, <1>4, <1>5 DEF Serve, PlainStatement, FamilyRows

(* The refresh under way finds a live token and goes through to the end. *)
LEMMA FlightServes ==
  ASSUME Typed, ServerInv, SessionIsWhole, session = "on", KeepsFamilies,
         NEW c \in Call, Refreshing(c), Serve(c), UNCHANGED <<jar, waiter>>
  PROVE  SessionIsWhole'
<1> DEFINE R == jar.refresh
<1>1. /\ R \in Token /\ ~rows[R].expired /\ rows[R].state # "absent" /\ Rotates(c)
      /\ calls[c].token = R
      /\ calls[c].pc \in {"find", "issue", "mark", "admin", "granted", "failed"}
      /\ calls[c].pc \in {"find", "issue", "mark"} => rows[R].state = "live"
  BY WholeFacts DEF Rotates
<1>2. /\ \A d \in Call : Refreshing(d)' <=> d = c
      /\ \A d \in Call : d # c => ~Refreshing(d)
  BY WholeFacts, RefreshingStill
<1>f. calls[c].pc # "failed"
  BY DEF Serve, At, Enter, FindNone, FindRevoked, RevokeFamily, FindExpired,
     FindLive, Issue, MarkRotated, MarkPruned, FindAdmin, Revoke, RevokeAllForAdmin
<1>q. ASSUME \A d \in Call : d # c => calls'[d] = calls[d], ~rows'[R].expired, Rotates(c)'
      PROVE  SessionIsWhole'
  BY <1>2, <1>q, WholeFlight
<1>3. CASE At(c, "find")
  <2>1. Present(R) /\ rows[R].state = "live"
    BY <1>1, <1>3 DEF Present, At
  <2>2. FindLive(c)
    BY <1>1, <1>3, <2>1 DEF Serve, At, Enter, FindNone, FindRevoked, RevokeFamily, FindExpired,
       Issue, MarkRotated, MarkPruned, FindAdmin, Revoke, RevokeAllForAdmin
  <2>3. GoTo(c, "issue") /\ UNCHANGED rows
    BY <2>2 DEF FindLive
  <2>4. /\ calls'[c].pc = "issue" /\ calls'[c].token = R
        /\ \A d \in Call : d # c => calls'[d] = calls[d]
    BY <1>1, <2>3, GoToFacts DEF Typed
  <2>. QED  BY <1>1, <1>q, <2>1, <2>3, <2>4 DEF Rotates
<1>4. CASE At(c, "issue")
  <2>1. PICK n \in Token : Issue(c, n)
    BY <1>4 DEF Serve, At, Enter, FindNone, FindRevoked, RevokeFamily, FindExpired,
       FindLive, MarkRotated, MarkPruned, FindAdmin, Revoke, RevokeAllForAdmin
  <2>2. /\ rows'[n].state = "live" /\ rows'[n].family = rows[R].family /\ ~rows'[n].expired
        /\ rows'[n].admin = rows[R].admin
        /\ \A t \in Token : t # n => rows'[t] = rows[t]
    BY <1>1, <2>1 DEF Issue, NewRow, Absent, Typed, TokensTypeOK
  <2>3. n # R
    BY <1>1, <2>1 DEF Issue
  <2>4. /\ calls'[c].pc = "mark" /\ calls'[c].token = R /\ calls'[c].new = n
        /\ \A d \in Call : d # c => calls'[d] = calls[d]
    BY <1>1, <2>1 DEF Issue, Typed, TokensTypeOK, CallState
  <2>5. rows[R].state = "live"
    BY <1>1, <1>4 DEF At
  <2>. QED  BY <1>1, <1>q, <2>2, <2>3, <2>4, <2>5 DEF Rotates
<1>5. CASE At(c, "mark") \/ At(c, "admin")
  <2>1. /\ calls[c].new \in Token \ {R} /\ rows[calls[c].new].state = "live"
        /\ ~rows[calls[c].new].expired /\ rows[calls[c].new].family = rows[R].family
        /\ rows[calls[c].new].admin = rows[R].admin
    BY <1>1, <1>5 DEF At, Rotates
  <2>2. CASE At(c, "mark")
    <3>1. Present(R)
      BY <1>1, <2>2 DEF Present, At
    <3>2. MarkRotated(c)
      BY <1>1, <2>2, <3>1 DEF Serve, At, Enter, FindNone, FindRevoked, RevokeFamily, FindExpired,
         FindLive, Issue, MarkPruned, FindAdmin, Revoke, RevokeAllForAdmin
    <3>3. GoTo(c, "admin") /\ \A t \in Token : t # R => rows'[t] = rows[t]
      BY <1>1, <3>2 DEF MarkRotated, Typed, TokensTypeOK
    <3>4. /\ rows'[R].expired = rows[R].expired /\ rows'[R].family = rows[R].family
          /\ rows'[R].admin = rows[R].admin
      BY <1>1, <3>2, PlainRows DEF PlainStatement, KeepsFamilies
    <3>5. /\ calls'[c].pc = "admin" /\ calls'[c].token = R /\ calls'[c].new = calls[c].new
          /\ \A d \in Call : d # c => calls'[d] = calls[d]
      BY <1>1, <3>3, GoToFacts DEF Typed
    <3>. QED  BY <1>1, <1>q, <2>1, <3>3, <3>4, <3>5 DEF Rotates
  <2>3. CASE At(c, "admin")
    <3>1. Present(calls[c].new)
      BY <2>1 DEF Present
    <3>2. FindAdmin(c)
      BY <2>3 DEF Serve, At, Enter, FindNone, FindRevoked, RevokeFamily, FindExpired,
         FindLive, Issue, MarkRotated, MarkPruned, Revoke, RevokeAllForAdmin
    <3>3. GoTo(c, "granted") /\ UNCHANGED rows
      BY <3>1, <3>2 DEF FindAdmin
    <3>4. /\ calls'[c].pc = "granted" /\ calls'[c].token = R /\ calls'[c].new = calls[c].new
          /\ \A d \in Call : d # c => calls'[d] = calls[d]
      BY <1>1, <3>3, GoToFacts DEF Typed
    <3>. QED  BY <1>1, <1>q, <2>1, <3>3, <3>4 DEF Rotates
  <2>. QED  BY <1>5, <2>2, <2>3
<1>6. ~At(c, "granted")
  BY DEF Serve, At, Enter, FindNone, FindRevoked, RevokeFamily, FindExpired,
     FindLive, Issue, MarkRotated, MarkPruned, FindAdmin, Revoke, RevokeAllForAdmin
<1>. QED  BY <1>1, <1>f, <1>3, <1>4, <1>5, <1>6 DEF At

LEMMA WholeServer ==
  ASSUME Typed, ServerInv, SessionIsWhole, KeepsFamilies, NEW c \in Call, ServerStep(c)
  PROVE  SessionIsWhole'
<1> SUFFICES ASSUME session' = "on" PROVE SessionIsWhole'
  BY DEF SessionIsWhole
<1>1. Serve(c) /\ UNCHANGED <<jar, waiter>> /\ session = "on" /\ ~EndsSession(c)
  BY DEF ServerStep, SessionEnds
<1>2. CASE Refreshing(c)
  BY <1>1, <1>2, FlightServes
<1>3. CASE ~Refreshing(c)
  <2>1. /\ \A t \in FamilyRows(rows[jar.refresh].family) :
              rows[t].state # "absent" /\ rows[t].admin = rows[jar.refresh].admin =>
                rows'[t] = rows[t]
        /\ calls'[c].token = calls[c].token
        /\ \A d \in Call : d # c => calls'[d] = calls[d]
    BY <1>1, <1>3, OthersKeepFamily
  <2>2. /\ jar.refresh \in Token /\ rows[jar.refresh].state # "absent" /\ ~rows[jar.refresh].expired
    BY <1>1, WholeFacts
  <2>3. ~rows'[jar.refresh].expired /\ StaysGood(jar.refresh)
    BY <2>1, <2>2 DEF FamilyRows, StaysGood
  <2>4. ASSUME NEW d \in Call, Refreshing(d), calls[d].pc \in {"mark", "admin", "granted"}
        PROVE  StaysGood(calls[d].new)
    <3>1. /\ calls[d].new \in FamilyRows(rows[jar.refresh].family)
          /\ rows[calls[d].new].state = "live"
          /\ rows[calls[d].new].admin = rows[jar.refresh].admin
      BY <1>1, <2>4, WholeFacts DEF Rotates, FamilyRows
    <3>. QED  BY <2>1, <3>1 DEF StaysGood
  <2>5. ~At(c, "failed")
    BY <1>1 DEF Serve, At, Enter, FindNone, FindRevoked, RevokeFamily, FindExpired,
       FindLive, Issue, MarkRotated, MarkPruned, FindAdmin, Revoke, RevokeAllForAdmin
  <2>6. \A d \in Call : calls'[d].token = calls[d].token /\ (At(d, "failed") => At(d, "failed")')
    BY <2>1, <2>5 DEF At
  <2>. QED  BY <1>1, <1>3, <2>1, <2>3, <2>4, <2>6, RefreshingStill, WholeFrame
<1>. QED  BY <1>2, <1>3

(* A handler breaks off.  The refresh under way has not revoked its token, *)
(* unless it fails at its last statement.                                  *)
LEMMA WholeFails ==
  ASSUME Typed, ServerInv, SessionIsWhole, NEW c \in Call, Fails(c), UNCHANGED <<jar, waiter>>,
         session' = "on" => session = "on" /\ ~(Refreshing(c) /\ At(c, "admin"))
  PROVE  SessionIsWhole'
<1> SUFFICES ASSUME session' = "on" PROVE SessionIsWhole'
  BY DEF SessionIsWhole
<1>1. session = "on" /\ ~(Refreshing(c) /\ At(c, "admin"))
  OBVIOUS
<1>2. /\ calls'[c].pc = "failed" /\ calls'[c].token = calls[c].token
      /\ \A d \in Call : d # c => calls'[d] = calls[d]
      /\ UNCHANGED rows /\ calls[c].pc \notin {"granted", "failed"}
  BY GoToFacts DEF Fails, Typed
<1>3. KeepsFamilies /\ \A t : StaysGood(t)
  BY <1>2 DEF KeepsFamilies, StaysGood
<1>4. CASE Refreshing(c)
  <2>1. Rotates(c) /\ rows[jar.refresh].state = "live" /\ ~rows[jar.refresh].expired
    BY <1>1, <1>2, <1>4, WholeFacts DEF Rotates, At
  <2>2. Rotates(c)'
    BY <1>2, <2>1 DEF Rotates
  <2>3. \A d \in Call : (d # c => ~Refreshing(d)) /\ (Refreshing(d)' <=> d = c)
    BY <1>1, <1>4, WholeFacts, RefreshingStill
  <2>. QED  BY <1>1, <1>2, <1>3, <2>1, <2>2, <2>3, WholeFlight
<1>5. CASE ~Refreshing(c)
  <2>1. \A d \in Call : calls'[d].token = calls[d].token /\ (At(d, "failed") => At(d, "failed")')
    BY <1>2 DEF At
  <2>. QED  BY <1>1, <1>2, <1>3, <1>5, <2>1, WholeFacts, RefreshingStill, WholeFrame
<1>. QED  BY <1>4, <1>5

(* A tab learns of a refresh that has failed, or of a login that gets lost. *)
LEMMA WholeGone ==
  ASSUME Typed, ServerInv, SessionIsWhole, NEW c \in Call, AnswerGone(c), UNCHANGED <<rows, jar>>,
         Leave(c) \/ UNCHANGED calls, Refreshing(c) => At(c, "failed"),
         session' = "on" => session = "on"
  PROVE  SessionIsWhole'
<1> SUFFICES ASSUME session = "on" PROVE SessionIsWhole'
  BY DEF SessionIsWhole
<1>1. /\ \A d \in Call : d # c => calls'[d] = calls[d]
      /\ calls'[c] = calls[c] \/ calls'[c].token = NoToken
  BY LeaveFacts DEF Typed
<1>2. \A d \in Call : Refreshing(d)' <=> d # c /\ Refreshing(d)
  BY RefreshingEnds
<1>3. KeepsFamilies /\ \A t : StaysGood(t)
  BY DEF KeepsFamilies, StaysGood
<1>4. CASE ~Refreshing(c)
  <2>1. \A d \in Call : calls'[d].token = NoToken \/
          (calls'[d].token = calls[d].token /\ (At(d, "failed") => At(d, "failed")'))
    BY <1>1 DEF At
  <2>2. \A d \in Call : Refreshing(d) => calls'[d] = calls[d]
    BY <1>1, <1>4
  <2>3. \A d \in Call : Refreshing(d)' <=> Refreshing(d)
    BY <1>2, <1>4
  <2>. QED  BY <1>3, <2>1, <2>2, <2>3, WholeFacts, WholeFrame
<1>5. CASE Refreshing(c)
  <2>1. rows[jar.refresh].state = "live" /\ \A d \in Call : ~Refreshing(d)'
    BY <1>2, <1>5, WholeFacts DEF Rotates, At
  <2>2. ASSUME NEW d \in Call, calls'[d].token \in FamilyRows(rows[jar.refresh].family)
        PROVE  At(d, "failed")'
    <3>1. calls'[d] = calls[d]
      BY <1>1, <2>2, SessionNullsAreDistinct DEF FamilyRows
    <3>2. Refreshing(d) \/ At(d, "failed")
      BY <2>2, <3>1, WholeFacts
    <3>3. Refreshing(d) => d = c
      BY <1>5, WholeFacts
    <3>. QED  BY <1>5, <3>1, <3>2, <3>3 DEF At
  <2>. QED  BY <2>1, <2>2, WholeFacts DEF SessionIsWhole, FamilyRows
<1>. QED  BY <1>4, <1>5

(* An untouched server: the browser's own steps. *)
LEMMA WholeStill ==
  ASSUME Typed, ServerInv, SessionIsWhole, UNCHANGED <<rows, calls, waiter>>,
         jar'.refresh = jar.refresh, session' = "on" => session = "on"
  PROVE  SessionIsWhole'
<1>1. KeepsFamilies /\ \A t : StaysGood(t)
  BY DEF KeepsFamilies, StaysGood
<1> SUFFICES ASSUME session = "on" PROVE SessionIsWhole'
  BY DEF SessionIsWhole
<1>2. \A d \in Call : calls'[d].token = calls[d].token /\ (At(d, "failed") => At(d, "failed")')
  BY DEF At
<1>. QED  BY <1>1, <1>2, RefreshingStill, WholeFacts, WholeFrame

(* A call arrives or leaves that is no refresh under way. *)
LEMMA WholeOther ==
  ASSUME Typed, ServerInv, SessionIsWhole, UNCHANGED <<rows, jar>>, NEW c \in Call,
         ~Refreshing(c), \A d \in Call : Refreshing(d)' <=> Refreshing(d),
         calls'[c].token = NoToken, \A d \in Call : d # c => calls'[d] = calls[d],
         session' = "on" => session = "on"
  PROVE  SessionIsWhole'
<1>1. KeepsFamilies /\ \A t : StaysGood(t)
  BY DEF KeepsFamilies, StaysGood
<1> SUFFICES ASSUME session = "on" PROVE SessionIsWhole'
  BY DEF SessionIsWhole
<1>2. \A d \in Call : calls'[d].token = NoToken \/
        (calls'[d].token = calls[d].token /\ (At(d, "failed") => At(d, "failed")'))
  BY DEF At
<1>. QED  BY <1>1, <1>2, WholeFacts, WholeFrame

(* A tab starts the refresh; a second one crosses the session. *)
LEMMA WholeStart ==
  ASSUME Typed, ServerInv, SessionIsWhole, NEW x \in Tab, NEW c \in Call, NEW code,
         SendRefresh(x, c, code), code = "interceptor" => ~FlightIsUp(x)
  PROVE  SessionIsWhole'
<1> SUFFICES ASSUME session' = "on" PROVE SessionIsWhole'
  BY DEF SessionIsWhole
<1>0. /\ Arrive(c, "find", jar.refresh, NoAdmin) /\ Expects(c, x, code) /\ UNCHANGED jar
      /\ session = "on" /\ code \in Triggers /\ code \in Codes /\ ~Crosses(x, code)
  BY CmsAssumption DEF SendRefresh, Refresh, Codes
<1>a. ASSUME NEW d \in Call, Refreshing(d)
      PROVE  FALSE
  <2>1. code = "interceptor" /\ Waits(d, x, "interceptor")
    BY <1>0, <1>a DEF Crosses
  <2>2. tab[x].flight = d
    BY <2>1 DEF Typed, CmsInv, CmsTypeOK, FlightsAreReal
  <2>. QED  BY <2>1, <2>2, CmsAssumption DEF FlightIsUp
<1>1. /\ Arrive(c, "find", jar.refresh, NoAdmin) /\ Expects(c, x, code) /\ UNCHANGED jar
      /\ session = "on" /\ code \in Triggers /\ code \in Codes
      /\ \A d \in Call : ~Refreshing(d)
  BY <1>0, <1>a
<1>2. /\ calls'[c].pc = "find" /\ calls'[c].token = jar.refresh
      /\ \A d \in Call : d # c => calls'[d] = calls[d]
      /\ UNCHANGED rows
  BY <1>1, ArriveFacts DEF Typed
<1>3. \A d \in Call : Refreshing(d)' <=> d = c
  BY <1>1, RefreshingStarts
<1>4. /\ jar.refresh \in Token /\ rows[jar.refresh].state = "live" /\ ~rows[jar.refresh].expired
  BY <1>1, WholeFacts
<1>5. Rotates(c)'
  BY <1>1, <1>2, <1>4 DEF Rotates
<1>6. KeepsFamilies
  BY <1>2 DEF KeepsFamilies
<1>. QED  BY <1>1, <1>2, <1>3, <1>4, <1>5, <1>6, WholeFlight

(* Its answer makes the new token the session's. *)
LEMMA WholeArrives ==
  ASSUME Typed, ServerInv, SessionIsWhole, NEW x \in Tab, NEW c \in Call, NEW code,
         Leave(c), RefreshArrives(c, x, code)
  PROVE  SessionIsWhole'
<1> SUFFICES ASSUME session = "on" PROVE SessionIsWhole'
  BY DEF SessionIsWhole, RefreshArrives
<1> DEFINE R == jar.refresh
           n == calls[c].new
<1>1. At(c, "granted") /\ jar'.refresh = n /\ AnswerGone(c) /\ Refreshing(c)
  BY DEF RefreshArrives, CookiesSet, Refreshing
<1>2. \A d \in Call : ~Refreshing(d)' /\ (d # c => ~Refreshing(d))
  BY <1>1, WholeFacts, RefreshingEnds
<1>3. /\ calls'[c].token = NoToken /\ \A d \in Call : d # c => calls'[d] = calls[d]
      /\ UNCHANGED rows
  BY LeaveFacts DEF Typed
<1>4. /\ Rotates(c) /\ n \in Token /\ rows[n].state = "live" /\ ~rows[n].expired
      /\ rows[n].family = rows[R].family
  BY <1>1, WholeFacts DEF Rotates, At
<1>5. ASSUME NEW d \in Call, calls'[d].token \in FamilyRows(rows[n].family)
      PROVE  At(d, "failed")'
  <2>1. d # c
    BY <1>3, <1>5, SessionNullsAreDistinct DEF FamilyRows
  <2>2. calls[d].token \in FamilyRows(rows[R].family)
    BY <1>3, <1>4, <1>5, <2>1
  <2>. QED  BY <1>2, <1>3, <2>1, <2>2, WholeFacts DEF At
<1>. QED  BY <1>1, <1>2, <1>3, <1>4, <1>5 DEF SessionIsWhole, FamilyRows

(* A login begins a session nobody else knows. *)
LEMMA WholeLogin ==
  ASSUME Typed, ServerInv, SessionIsWhole, NEW x \in Tab, NEW c \in Call,
         Leave(c), LoginArrives(c, x)
  PROVE  SessionIsWhole'
<1> SUFFICES ASSUME session' = "on" PROVE SessionIsWhole'
  BY DEF SessionIsWhole
<1> DEFINE n == calls[c].new
<1>1. /\ At(c, "granted") /\ jar'.refresh = n /\ Waits(c, x, "login") /\ AnswerGone(c)
      /\ rows[n].state = "live" /\ \A d \in Call : ~Refreshing(d)
  BY DEF LoginArrives, CookiesSet
<1>2. LoginIsFresh(c) /\ n \in Token
  BY <1>1 DEF ServerInv, LoginsHaveNoCookie, LoginsAreFresh, At, Typed, TokensTypeOK
<1>3. /\ calls'[c].token = NoToken /\ \A d \in Call : d # c => calls'[d] = calls[d]
      /\ UNCHANGED rows
  BY LeaveFacts DEF Typed
<1>4. \A d \in Call : ~Refreshing(d)'
  BY <1>1, RefreshingEnds
<1>5. ASSUME NEW d \in Call, calls'[d].token \in FamilyRows(rows[n].family)
      PROVE  FALSE
  <2>1. calls'[d].token = n
    BY <1>2, <1>5 DEF LoginIsFresh
  <2>. QED  BY <1>2, <1>3, <2>1, SessionNullsAreDistinct DEF LoginIsFresh
<1>. QED  BY <1>1, <1>2, <1>3, <1>4, <1>5 DEF SessionIsWhole, FamilyRows, LoginIsFresh

(* Days pass for tokens the session has done with. *)
LEMMA WholeDays ==
  ASSUME Typed, ServerInv, SessionIsWhole, KeepsFamilies, DaysPass
  PROVE  SessionIsWhole'
<1> SUFFICES ASSUME session' = "on" PROVE SessionIsWhole'
  BY DEF SessionIsWhole
<1>1. session = "on" /\ UNCHANGED <<waiter, calls>>
  BY DEF DaysPass, RefreshExpires, SessionEnds, browserVars, Expire, RevocationAges, PruneExpiredTokens
<1>2. /\ jar.refresh \in Token /\ ~rows[jar.refresh].expired
  BY <1>1, WholeFacts
<1>3. /\ jar' = jar
      /\ ~rows'[jar.refresh].expired
      /\ \A t \in Token : rows[t].state = "live" /\ ~rows[t].expired =>
           \/ rows'[t] = rows[t]
           \/ t # jar.refresh /\ \A c \in Call : calls[c].new # t
  <2>1. ASSUME NEW u \in Token, RefreshExpires(u)
        PROVE  /\ u # jar.refresh /\ UNCHANGED jar /\ \A c \in Call : calls[c].new # u
               /\ \A t \in Token : t # u => rows'[t] = rows[t]
    BY <2>1 DEF RefreshExpires, Expire, SessionEnds, Typed, TokensTypeOK
  <2>2. ASSUME NEW u \in Token, RevocationAges(u), UNCHANGED browserVars
        PROVE  /\ UNCHANGED jar /\ ~rows'[jar.refresh].expired
               /\ \A t \in Token : rows[t].state = "live" => rows'[t] = rows[t]
    BY <1>2, <2>2 DEF RevocationAges, browserVars, Typed, TokensTypeOK, TokenRow
  <2>3. ASSUME PruneExpiredTokens, UNCHANGED browserVars
        PROVE  /\ UNCHANGED jar /\ ~rows'[jar.refresh].expired
               /\ \A t \in Token : rows[t].state = "live" /\ ~rows[t].expired => rows'[t] = rows[t]
    BY <1>2, <2>3 DEF PruneExpiredTokens, browserVars, Typed, TokensTypeOK, TokenRow
  <2>. QED  BY <1>2, <2>1, <2>2, <2>3 DEF DaysPass
<1>4. StaysGood(jar.refresh)
  BY <1>2, <1>3 DEF StaysGood
<1>5. ASSUME NEW d \in Call, Refreshing(d), calls[d].pc \in {"mark", "admin", "granted"}
      PROVE  StaysGood(calls[d].new)
  <2>1. Rotates(d) /\ calls[d].new \in Token
    BY <1>1, <1>5, WholeFacts DEF Rotates
  <2>. QED  BY <1>3, <2>1 DEF StaysGood
<1>6. \A d \in Call : calls'[d].token = calls[d].token /\ (At(d, "failed") => At(d, "failed")')
  BY <1>1 DEF At
<1>. QED  BY <1>1, <1>3, <1>4, <1>5, <1>6, RefreshingStill, WholeFrame

LEMMA WholeStep ==
  ASSUME Typed, ServerInv, SessionIsWhole, [CmsNext]_cmsVars
  PROVE  SessionIsWhole'
<1>k. KeepsFamilies
  BY FamiliesKept
<1>1. CASE UNCHANGED cmsVars
  BY <1>1, WholeStill DEF cmsVars, browserVars, tokenVars
<1>2. ASSUME NEW x \in Tab, TabStep(x)
      PROVE  SessionIsWhole'
  <2>1. ASSUME NEW q \in Query,
               \/ Ask(x, q) \/ Repeat(x, q) \/ LoginRejected(x)
               \/ OkArrives(x, q) \/ ErrorArrives(x, q) \/ JoinFlight(x, q)
        PROVE  SessionIsWhole'
    <3>1. UNCHANGED <<rows, calls, waiter, jar>> /\ (session' = "on" => session = "on")
      BY <2>1 DEF Ask, Repeat, LoginRejected, OkArrives, ErrorArrives, JoinFlight, tokenVars,
         SessionEnds
    <3>. QED  BY <3>1, WholeStill
  <2>2. ASSUME NEW q \in Query, NEW c \in Call,
               StartFlight(x, q, c) \/ TimerFires(x, c) \/ BecomesVisible(x, c)
        PROVE  SessionIsWhole'
    BY <2>2, WholeStart DEF StartFlight, TimerFires, BecomesVisible
  <2>3. ASSUME NEW c \in Call, SendLogin(x, c)
        PROVE  SessionIsWhole'
    <3>1. PICK a \in Admin : Arrive(c, "enter", NoToken, a)
      BY <2>3 DEF SendLogin, Login
    <3>2. UNCHANGED <<jar, session>> /\ Expects(c, x, "login")
      BY <2>3 DEF SendLogin
    <3>3. /\ calls'[c].token = NoToken /\ UNCHANGED rows
          /\ \A d \in Call : d # c => calls'[d] = calls[d]
      BY <3>1, ArriveFacts DEF Typed
    <3>4. "login" \notin Triggers /\ "login" \in Codes /\ "enter" \in {"find", "enter"}
      BY CmsAssumption DEF Codes
    <3>5. ~Refreshing(c) /\ \A d \in Call : Refreshing(d)' <=> Refreshing(d)
      BY <3>1, <3>2, <3>4, RefreshingStarts
    <3>. QED  BY <3>2, <3>3, <3>5, WholeOther
  <2>. QED  BY <1>2, <2>1, <2>2, <2>3 DEF TabStep, Query
<1>3. ASSUME NEW c \in Call, Deliver(c)
      PROVE  SessionIsWhole'
  <2>1. Leave(c) /\ UNCHANGED rows
    BY <1>3 DEF Deliver, Leave
  <2>2. PICK x \in Tab : \/ \E code \in Triggers : RefreshArrives(c, x, code)
                         \/ LoginArrives(c, x)
                         \/ /\ AnyFails(c, x) /\ UNCHANGED session
                            /\ calls[c].pc \in {"refused", "failed"}
    BY <1>3 DEF Deliver
  <2>3. CASE AnyFails(c, x) /\ UNCHANGED session /\ calls[c].pc \in {"refused", "failed"}
    <3>1. AnswerGone(c) /\ UNCHANGED jar
      BY <2>3 DEF AnyFails, RefreshFails, LoginFails
    <3>2. CASE session # "on"
      BY <2>3, <3>2 DEF SessionIsWhole
    <3>3. CASE session = "on"
      <4>1. Refreshing(c) => At(c, "failed")
        BY <2>3, <3>3, WholeFacts DEF Rotates, At
      <4>. QED  BY <2>1, <2>3, <3>1, <4>1, WholeGone
    <3>. QED  BY <3>2, <3>3
  <2>. QED  BY <2>1, <2>2, <2>3, WholeArrives, WholeLogin
<1>4. ASSUME NEW c \in Call, Cut(c)
      PROVE  SessionIsWhole'
  <2>1. AnswerGone(c) /\ UNCHANGED <<jar, rows, calls>>
    BY <1>4 DEF Cut, AnyFails, RefreshFails, LoginFails, tokenVars
  <2>2. IF At(c, "failed") THEN UNCHANGED session ELSE AnswerLost(c)
    BY <1>4 DEF Cut
  <2>3. CASE session' # "on"
    BY <2>3 DEF SessionIsWhole
  <2>4. CASE session' = "on"
    <3>1. session = "on" /\ (Refreshing(c) => At(c, "failed"))
      BY <2>2, <2>4 DEF AnswerLost
    <3>. QED  BY <2>1, <3>1, WholeGone
  <2>. QED  BY <2>3, <2>4
<1>f. ASSUME NEW c \in Call, ServerFails(c) \/ Throttled(c)
      PROVE  SessionIsWhole'
  <2>1. Fails(c) /\ UNCHANGED <<jar, waiter>>
    BY <1>f DEF ServerFails, Throttled, browserVars
  <2>2. session' = "on" => session = "on" /\ ~(Refreshing(c) /\ At(c, "admin"))
    BY <1>f DEF ServerFails, Throttled, browserVars, AnswerLost, At
  <2>. QED  BY <2>1, <2>2, WholeFails
<1>5. ASSUME NEW c \in Call, Unheard(c)
      PROVE  SessionIsWhole'
  <2>1. Leave(c) /\ UNCHANGED <<jar, waiter, session>> /\ waiter[c] = Nobody
    BY <1>5 DEF Unheard, browserVars
  <2>2. ~Refreshing(c) /\ \A d \in Call : Refreshing(d)' <=> Refreshing(d)
    BY <2>1, UnheardIsNone, RefreshingStill
  <2>3. /\ calls'[c].token = NoToken /\ \A d \in Call : d # c => calls'[d] = calls[d]
        /\ UNCHANGED rows
    BY <2>1, LeaveFacts DEF Typed
  <2>. QED  BY <2>1, <2>2, <2>3, WholeOther
<1>6. ASSUME NEW c \in Call, ServerStep(c)
      PROVE  SessionIsWhole'
  BY <1>6, <1>k, WholeServer
<1>7. ASSUME NEW c \in Call, LogoutElsewhere(c)
      PROVE  SessionIsWhole'
  <2>1. PICK a \in Admin : Arrive(c, "revokeAll", NoToken, a) /\ UNCHANGED <<jar, waiter, session>>
    BY <1>7 DEF LogoutElsewhere, LogoutAll, browserVars
  <2>2. /\ At(c, "idle") /\ calls'[c].token = NoToken /\ UNCHANGED rows
        /\ \A d \in Call : d # c => calls'[d] = calls[d]
    BY <2>1, ArriveFacts DEF Typed
  <2>3. waiter[c] = Nobody
    BY <2>2 DEF Typed, CmsInv, CmsTypeOK, IdleIsUnheard
  <2>4. ~Refreshing(c) /\ \A d \in Call : Refreshing(d)' <=> Refreshing(d)
    BY <2>1, <2>3, UnheardIsNone, RefreshingStill
  <2>. QED  BY <2>1, <2>2, <2>4, WholeOther
<1>8. CASE AccessExpires
  BY <1>8, WholeStill DEF AccessExpires, tokenVars, Typed, CookieIsIssued
<1>9. CASE DaysPass
  BY <1>9, <1>k, WholeDays
<1>. QED  BY <1>1, <1>2, <1>3, <1>4, <1>f, <1>5, <1>6, <1>7, <1>8, <1>9 DEF CmsNext

(* A failed request of another tab does not sign this one out. *)
LEMMA FailsElsewhere ==
  ASSUME Typed, NEW c \in Call, NEW x \in Tab, AnyFails(c, x), NEW z \in Tab, z # x
  PROVE  tab'[z] = tab[z]
<1>1. CmsTypeOK /\ tab \in [Tab -> TabState]
  BY DEF Typed, CmsInv, CmsTypeOK
<1>. QED  BY <1>1, FlightEnds, SignFacts DEF AnyFails, RefreshFails, LoginFails

(* A tab that learns of a call that has failed reports a failure. *)
LEMMA FailureIsReported ==
  ASSUME Typed, NEW c \in Call, NEW x \in Tab, AnyFails(c, x), At(c, "failed")
  PROVE  FailureReported(x)
<1>0. PICK code : waiter[c] = [tab |-> x, code |-> code]
  BY DEF AnyFails, RefreshFails, LoginFails, Waits
<1>1. waiter[c].tab = x
  BY <1>0
<1>2. waiter'[c] = Nobody
  BY DEF AnyFails, RefreshFails, LoginFails, AnswerGone, Typed, CmsInv, CmsTypeOK
<1>. QED  BY <1>1, <1>2 DEF FailureReported

(* Only logout(), /admin/auth/me and a refresh that fail sign a tab out.   *)
(* A logout takes the session "out"; the 401 of /admin/auth/me starts a    *)
(* refresh, and the repeat passes; a refresh of the session is not refused. *)
LEMMA StaysStep ==
  ASSUME Typed, ServerInv, RepeatsPass, SessionIsWhole, [CmsNext]_cmsVars,
         session = "on", session' = "on", NEW z \in Tab, tab[z].status = "authed",
         ~FailureReported(z)
  PROVE  tab'[z].status = "authed"
<1>t. tab \in [Tab -> TabState]
  BY DEF Typed, CmsInv, CmsTypeOK
<1>1. CASE UNCHANGED tab
  BY <1>1
<1>2. ASSUME NEW x \in Tab, TabStep(x)
      PROVE  tab'[z].status = "authed"
  <2>1. ASSUME NEW q \in Query, OkArrives(x, q)
        PROVE  tab'[z].status = "authed"
    BY <1>t, <2>1 DEF OkArrives, SignIn, TabState
  <2>2. ASSUME NEW q \in Query, ErrorArrives(x, q)
        PROVE  tab'[z].status = "authed"
    <3>1. q # "logout"
      BY <2>2 DEF ErrorArrives
    <3>2. CASE q \in Me
      <4>1. request[x][q] = "error"
        BY <2>2, <3>2, CmsAssumption DEF ErrorArrives, RepeatsPass
      <4>2. "none" \in RequestState /\ CmsTypeOK
        BY DEF RequestState, Typed, CmsInv
      <4>3. request'[x][q] = "none"
        BY <2>2, <4>2, BecomesFacts DEF ErrorArrives
      <4>4. x # z
        BY <3>2, <4>1, <4>3 DEF FailureReported
      <4>. QED  BY <1>t, <2>2, <3>2, <4>4, SignFacts DEF ErrorArrives
    <3>. QED  BY <2>2, <3>1, <3>2 DEF ErrorArrives
  <2>3. ASSUME NEW q \in Query, NEW c \in Call,
               StartFlight(x, q, c) \/ TimerFires(x, c)
        PROVE  tab'[z].status = "authed"
    BY <1>t, <2>3 DEF StartFlight, TimerFires, TabState
  <2>4. ASSUME NEW q \in Query, NEW c \in Call,
               \/ Ask(x, q) \/ Repeat(x, q) \/ LoginRejected(x) \/ JoinFlight(x, q)
               \/ BecomesVisible(x, c) \/ SendLogin(x, c)
        PROVE  UNCHANGED tab
    BY <2>4 DEF Ask, Repeat, LoginRejected, JoinFlight, BecomesVisible, SendLogin
  <2>5. (\E q \in Query : Ask(x, q) \/ Repeat(x, q) \/ JoinFlight(x, q)) \/ LoginRejected(x)
          => UNCHANGED tab
    BY DEF Ask, Repeat, LoginRejected, JoinFlight
  <2>. QED  BY <1>1, <1>2, <2>1, <2>2, <2>3, <2>4, <2>5 DEF TabStep, Query
<1>3. ASSUME NEW c \in Call, Deliver(c)
      PROVE  tab'[z].status = "authed"
  <2>1. PICK x \in Tab : \/ \E code \in Triggers : RefreshArrives(c, x, code)
                         \/ LoginArrives(c, x)
                         \/ AnyFails(c, x) /\ calls[c].pc \in {"refused", "failed"}
    BY <1>3 DEF Deliver
  <2>2. CASE \E code \in Triggers : RefreshArrives(c, x, code)
    BY <1>t, <2>2 DEF RefreshArrives, FlightSucceeds, Rearm, TabState
  <2>3. CASE LoginArrives(c, x)
    BY <1>t, <2>3 DEF LoginArrives, SignIn, TabState
  <2>4. CASE AnyFails(c, x) /\ calls[c].pc \in {"refused", "failed"}
    <3>1. CASE Refreshing(c)
      <4>1. At(c, "failed")
        BY <2>4, <3>1, WholeFacts DEF Rotates, At
      <4>. QED  BY <2>4, <4>1, FailureIsReported, FailsElsewhere
    <3>2. CASE ~Refreshing(c)
      BY <1>1, <2>4, <3>2 DEF AnyFails, RefreshFails, LoginFails, Refreshing
    <3>. QED  BY <3>1, <3>2
  <2>. QED  BY <2>1, <2>2, <2>3, <2>4
<1>4. ASSUME NEW c \in Call, Cut(c)
      PROVE  tab'[z].status = "authed"
  <2>1. PICK x \in Tab : AnyFails(c, x)
    BY <1>4 DEF Cut
  <2>2. CASE At(c, "failed")
    BY <2>1, <2>2, FailureIsReported, FailsElsewhere
  <2>3. CASE ~At(c, "failed")
    <3>1. ~Refreshing(c)
      BY <1>4, <2>3 DEF Cut, AnswerLost
    <3>. QED  BY <1>1, <2>1, <3>1 DEF AnyFails, RefreshFails, LoginFails, Refreshing
  <2>. QED  BY <2>2, <2>3
<1>5. ASSUME NEW c \in Call,
             \/ Unheard(c) \/ ServerStep(c) \/ ServerFails(c) \/ Throttled(c)
             \/ LogoutElsewhere(c)
      PROVE  UNCHANGED tab
  BY <1>5 DEF Unheard, ServerStep, ServerFails, Throttled, LogoutElsewhere, browserVars
<1>6. AccessExpires \/ DaysPass \/ UNCHANGED cmsVars => UNCHANGED tab
  BY DEF AccessExpires, DaysPass, RefreshExpires, browserVars, cmsVars
<1>. QED  BY <1>1, <1>2, <1>3, <1>4, <1>5, <1>6 DEF CmsNext

LEMMA SessionInit ==
  ASSUME CmsInit
  PROVE  ServerInv /\ RepeatsPass /\ SessionIsWhole
<1>1. /\ \A c \in Call : calls[c] = Idle /\ waiter[c] = Nobody
      /\ \A x \in Tab : tab[x].status = "loading" /\ ~tab[x].timer /\ tab[x].flight = NoCall
      /\ \A x \in Tab, q \in Query : request[x][q] = "none"
      /\ session = "over"
  BY DEF CmsInit, TokenInit, TokensInit
<1>2. \A c \in Call, x \in Tab, code \in Codes : ~Waits(c, x, code)
  BY <1>1, CmsAssumption DEF Waits, Nobody
<1>3. ServerInv
  BY <1>1, <1>2 DEF ServerInv, NobodyRevokes, CallsAreIssued, LoginsHaveNoCookie, LoginsAreFresh,
     Idle, At, Codes
<1>4. RepeatsPass
  BY <1>1 DEF RepeatsPass
<1>. QED  BY <1>1, <1>3, <1>4 DEF SessionIsWhole

SessionInv == Typed /\ ServerInv /\ RepeatsPass /\ SessionIsWhole

LEMMA SessionInvHolds == CmsSpec => []SessionInv
<1>1. CmsInit => TokenInit /\ CookieIsIssued
  BY DEF CmsInit, NoCookies, CookieIsIssued
<1>2. TokensTypeOK /\ CookieIsIssued /\ [CmsNext]_cmsVars => TokensTypeOK' /\ CookieIsIssued'
  BY CmsStepIsTokenStep, CookieStep, TokensTypeStep
<1>3. Typed <=> CmsInv /\ TokensTypeOK /\ CookieIsIssued
  BY DEF Typed
<1>4. CmsInit => ServerInv /\ RepeatsPass /\ SessionIsWhole
  BY SessionInit
<1>5. Typed /\ ServerInv /\ RepeatsPass /\ SessionIsWhole /\ [CmsNext]_cmsVars
        => ServerInv' /\ RepeatsPass' /\ SessionIsWhole'
  BY ServerInvStep, RepeatsPassStep, WholeStep
<1>6. CmsSpec => [](CmsInv /\ TokensTypeOK /\ CookieIsIssued)
  BY <1>1, <1>2, TokensTypeInit, CmsInvHolds, PTL DEF CmsSpec
<1>. QED  BY <1>3, <1>4, <1>5, <1>6, PTL DEF CmsSpec, SessionInv

(* Whatever number of tabs share the browser, and whichever of their       *)
(* requests, timers and visibility changes refresh: as long as no two      *)
(* refreshes that do not share refreshPromise have been under way at once  *)
(* and no answer with the next token was lost, the refresh under way holds *)
(* the one live token of the session and is not refused, whatever earlier  *)
(* sessions, expiries, prunings and failures interleave with it; so only a *)
(* failure that is reported to a tab signs that tab out.                   *)
THEOREM OnlyFailuresSignOut == CmsSpec => StaysSignedIn
<1>1. SessionInv /\ [CmsNext]_cmsVars => [NobodySignedOut({"on"})]_cmsVars
  BY StaysStep DEF SessionInv, NobodySignedOut
<1>. QED  BY <1>1, SessionInvHolds, PTL DEF CmsSpec, StaysSignedIn
=============================================================================
