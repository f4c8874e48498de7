----------------------------- MODULE CmsSession -----------------------------
(***************************************************************************)
(* The CMS in a browser (cms/src/lib/api.ts, cms/src/lib/auth.tsx) as a    *)
(* client of the session endpoints.  All tabs share the browser's cookies; *)
(* each has its own refreshPromise, timer and status.  A request carries   *)
(* the cookies of the moment it is sent, its answer sets cookies at the    *)
(* moment it arrives, and the callbacks of a tab run one at a time.        *)
(***************************************************************************)
EXTENDS TokenClients

CONSTANTS
  Tab, Page,   \* tabs, and the data requests their pages make
  Me,          \* the /admin/auth/me requests a tab can have under way
  NoCall, NoTab,
  Triggers,    \* who refreshes, of "interceptor", "timer", "visible"
  Trouble      \* what may come from outside, of "errors" (statements and
               \* connections fail), "throttle" (429), "elsewhere" (logout-all
               \* from another client), "days" (tokens expire and are pruned)

ASSUME CmsAssumption ==
  /\ NoCall \notin Call /\ NoTab \notin Tab
  /\ Page \cap Me = {} /\ (Page \cup Me) \cap {"login", "logout"} = {}
  /\ Triggers \subseteq {"interceptor", "timer", "visible"}
  /\ Trouble \subseteq {"errors", "throttle", "elsewhere", "days"}

VARIABLES
  jar,       \* cookies: is access_token there, the refresh_token
  tab,       \* AuthProvider and refreshPromise of each tab
  request,   \* requests of a tab that go through the 401 interceptor
  waiter,    \* the tab that waits for the answer of a call, and in which code
  session    \* history: is the jar's session "on", "over", or logged "out";
             \* "mixed": on, but begun while a refresh of another was under way;
             \* "crossed": on, but two refreshes that do not share refreshPromise
             \* were under way at once; "lost": on, but an answer with its next
             \* token did not arrive

browserVars == <<jar, tab, request, waiter, session>>
cmsVars == <<tokenVars, browserVars>>

Query == Page \cup Me \cup {"login", "logout"}

(* "sent": its handler is a call.  "ok", "401", "error": answered so, an   *)
(* error being any failure but a 401.  "waiting": in await refreshPromise. *)
(* "again": refreshed, to be repeated.  "denied": 401 once more.           *)
RequestState == {"none", "sent", "ok", "401", "error", "waiting", "again", "denied"}

TabState == [status : {"loading", "authed", "unauthed"},
             timer  : BOOLEAN,               \* timerRef is armed
             flight : Call \cup {NoCall}]    \* refreshPromise

Waiter == [tab  : Tab \cup {NoTab},
           code : {"interceptor", "timer", "visible", "login"}]

Nobody == [tab |-> NoTab, code |-> "login"]

NoCookies == [access |-> FALSE, refresh |-> NoToken]

CmsInit ==
  /\ TokenInit
  /\ jar = NoCookies
  /\ tab = [x \in Tab |-> [status |-> "loading", timer |-> FALSE, flight |-> NoCall]]
  /\ request = [x \in Tab |-> [q \in Query |-> "none"]]
  /\ waiter = [c \in Call |-> Nobody]
  /\ session = "over"

Waits(c, x, code) == waiter[c] = [tab |-> x, code |-> code]

Expects(c, x, code) == waiter' = [waiter EXCEPT ![c] = [tab |-> x, code |-> code]]

AnswerGone(c) == waiter' = [waiter EXCEPT ![c] = Nobody]

Becomes(x, q, state) == request' = [request EXCEPT ![x][q] = state]

(* All requests of the tab that await refreshPromise go on together. *)
Released(x, state) ==
  request' = [request EXCEPT ![x] =
    [q \in Query |-> IF request[x][q] = "waiting" THEN state ELSE request[x][q]]]

(* c is a refresh whose answer some tab awaits. *)
Refreshing(c) == \E x \in Tab, code \in Triggers : Waits(c, x, code)

SessionEnds == session' = IF session = "out" THEN session ELSE "over"

AnswerLost(c) == session' = IF session = "on" /\ Refreshing(c) THEN "lost" ELSE session

-----------------------------------------------------------------------------
(* What the code of a tab does with its state.                             *)

(* Seeded fault: the timer is not armed again. *)
RearmForgotten(x) == tab' = tab

(* scheduleRefresh: the old timer is cleared, a new one armed. *)
Rearm(x) == tab' = [tab EXCEPT ![x].timer = TRUE]

SignIn(x) == tab' = [tab EXCEPT ![x].status = "authed", ![x].timer = TRUE]

(* The catch branches of the timer, of onVisible and of the mount. *)
SignOut(x) == tab' = [tab EXCEPT ![x].status = "unauthed"]

(* logout() clears the timer too. *)
SignOutClearly(x) == tab' = [tab EXCEPT ![x].status = "unauthed", ![x].timer = FALSE]

(* Seeded fault: refreshPromise is reset only when the refresh succeeds. *)
FlightFailsUnreset(x) ==
  /\ SignOutClearly(x)
  /\ Released(x, "none")

(* catch and finally of refreshPromise: auth:logout signs the tab out, the *)
(* promise is reset and every request that awaits it rejects, which for    *)
(* the mount and for logout() means no more than auth:logout has done.     *)
FlightFails(x) ==
  /\ tab' = [tab EXCEPT ![x] = [status |-> "unauthed", timer |-> FALSE, flight |-> NoCall]]
  /\ Released(x, "none")

FlightSucceeds(x) ==
  /\ tab' = [tab EXCEPT ![x].flight = NoCall]
  /\ Released(x, "again")

-----------------------------------------------------------------------------
(* Requests.  RequireAuth shows the pages to a signed-in user only.        *)
(* /admin/auth/me is asked when the provider mounts, and again whenever    *)
(* the path changes, signed in or not: the effect depends on               *)
(* scheduleRefresh, that on navigate, and BrowserRouter's useNavigate      *)
(* returns a new function for every path.                                  *)
MayAsk(x, q) ==
  /\ request[x][q] = "none"
  /\ q \in Me \/ (q \in Page \cup {"logout"} /\ tab[x].status = "authed")

(* AdminAuthGuard.  A logout must pass CsrfGuard too, and never does: the  *)
(* csrf_token cookie has Path=/admin, no page of the CMS lives there, so   *)
(* document.cookie does not show it and x-csrf-token is not sent.          *)
GuardSays(q) ==
  CASE ~jar.access -> "401"
    [] jar.access /\ q = "logout" -> "error"
    [] OTHER -> "ok"

(* ThrottlerGuard runs before every guard, and any request may fail.       *)
Answers(q) ==
  {GuardSays(q)} \cup IF Trouble \cap {"errors", "throttle"} = {} THEN {} ELSE {"error"}

Ask(x, q) ==
  /\ MayAsk(x, q)
  /\ \E answer \in Answers(q) : Becomes(x, q, answer)
  /\ IF q = "logout" THEN SessionEnds ELSE UNCHANGED session
  /\ UNCHANGED <<tokenVars, jar, tab, waiter>>

(* return api(original): the second 401 is final, as it is of a login with *)
(* a wrong password.                                                       *)
Repeat(x, q) ==
  /\ request[x][q] = "again"
  /\ \E answer \in IF q = "login" THEN {"401"} ELSE Answers(q) :
       Becomes(x, q, IF answer = "401" THEN "denied" ELSE answer)
  /\ UNCHANGED <<tokenVars, jar, tab, waiter, session>>

(* The login page shows its form unless the user is signed in.  A wrong    *)
(* password is answered 401 and goes through the interceptor too.          *)
MayLogIn(x) == tab[x].status # "authed" /\ request[x]["login"] = "none"

LoginRejected(x) ==
  /\ MayLogIn(x)
  /\ Becomes(x, "login", "401")
  /\ UNCHANGED <<tokenVars, jar, tab, waiter, session>>

OkArrives(x, q) ==
  /\ request[x][q] = "ok"
  /\ Becomes(x, q, "none")
  /\ IF q \in Me THEN SignIn(x) ELSE UNCHANGED tab
  /\ UNCHANGED <<tokenVars, jar, waiter, session>>

(* logout() ignores the error. *)
ErrorArrives(x, q) ==
  /\ request[x][q] \in {"error", "denied"}
  /\ Becomes(x, q, "none")
  /\ CASE q \in Me -> SignOut(x)
       [] q = "logout" -> SignOutClearly(x)
       [] OTHER -> UNCHANGED tab
  /\ session' = IF q = "logout" THEN "out" ELSE session
  /\ UNCHANGED <<tokenVars, jar, waiter>>

-----------------------------------------------------------------------------
(* Refreshes.  Bound of the model: a token is left for every call that may *)
(* still issue one.                                                        *)
Room ==
  Cardinality({t \in Token : rows[t].state = "absent"})
    > Cardinality({c \in Call : calls[c].pc \in {"enter", "find", "issue"}})

(* A refresh under way that one sent by this code does not share. *)
Crosses(x, code) ==
  \E d \in Call : Refreshing(d) /\ ~(code = "interceptor" /\ Waits(d, x, "interceptor"))

SendRefresh(x, c, code) ==
  /\ code \in Triggers
  /\ Room
  /\ Refresh(c, jar.refresh)
  /\ Expects(c, x, code)
  /\ session' = IF session = "on" /\ Crosses(x, code) THEN "crossed" ELSE session
  /\ UNCHANGED jar

(* Seeded fault: refreshPromise is not looked at. *)
FlightIsUpUnchecked(x) == FALSE

FlightIsUp(x) == tab[x].flight # NoCall

(* A 401 arrives while refreshPromise is set, or starts it. *)
JoinFlight(x, q) ==
  /\ request[x][q] = "401"
  /\ FlightIsUp(x)
  /\ Becomes(x, q, "waiting")
  /\ UNCHANGED <<tokenVars, jar, tab, waiter, session>>

StartFlight(x, q, c) ==
  /\ request[x][q] = "401"
  /\ ~FlightIsUp(x)
  /\ SendRefresh(x, c, "interceptor")
  /\ tab' = [tab EXCEPT ![x].flight = c]
  /\ Becomes(x, q, "waiting")

TimerFires(x, c) ==
  /\ tab[x].timer
  /\ SendRefresh(x, c, "timer")
  /\ tab' = [tab EXCEPT ![x].timer = FALSE]
  /\ UNCHANGED request

BecomesVisible(x, c) ==
  /\ tab[x].status = "authed"
  /\ SendRefresh(x, c, "visible")
  /\ UNCHANGED <<tab, request>>

(* Seeded fault: a refresh_token that is there is not replaced. *)
CookiesSetOnce(c) ==
  [access |-> TRUE, refresh |-> IF jar.refresh = NoToken THEN calls[c].new ELSE jar.refresh]

CookiesSet(c) == [access |-> TRUE, refresh |-> calls[c].new]

RefreshArrives(c, x, code) ==
  /\ Waits(c, x, code)
  /\ code \in Triggers
  /\ At(c, "granted")
  /\ jar' = CookiesSet(c)
  /\ IF code = "interceptor" THEN FlightSucceeds(x) ELSE Rearm(x) /\ UNCHANGED request
  /\ AnswerGone(c)
  /\ UNCHANGED session

RefreshFails(c, x, code) ==
  /\ Waits(c, x, code)
  /\ code \in Triggers
  /\ IF code = "interceptor" THEN FlightFails(x) ELSE SignOut(x) /\ UNCHANGED request
  /\ AnswerGone(c)
  /\ UNCHANGED jar

-----------------------------------------------------------------------------
SendLogin(x, c) ==
  /\ MayLogIn(x)
  /\ Room
  /\ \E f \in Family : FamilyRows(f) = {}
  /\ \E a \in Admin : Login(c, a)
  /\ Becomes(x, "login", "sent")
  /\ Expects(c, x, "login")
  /\ UNCHANGED <<jar, tab, session>>

LoginArrives(c, x) ==
  /\ Waits(c, x, "login")
  /\ At(c, "granted")
  /\ jar' = CookiesSet(c)
  /\ SignIn(x)
  /\ Becomes(x, "login", "none")
  /\ AnswerGone(c)
  /\ session' = CASE rows[calls[c].new].state # "live" -> "over"
                  [] rows[calls[c].new].state = "live" /\ (\E d \in Call : Refreshing(d)) -> "mixed"
                  [] OTHER -> "on"

LoginFails(c, x) ==
  /\ Waits(c, x, "login")
  /\ Becomes(x, "login", "none")
  /\ AnswerGone(c)
  /\ UNCHANGED <<jar, tab>>

AnyFails(c, x) ==
  \/ \E code \in Triggers : RefreshFails(c, x, code)
  \/ LoginFails(c, x)

(* The answer of a call reaches the tab that waits for it. *)
Deliver(c) ==
  /\ Leave(c)
  /\ \E x \in Tab :
       \/ \E code \in Triggers : RefreshArrives(c, x, code)
       \/ LoginArrives(c, x)
       \/ calls[c].pc \in {"refused", "failed"} /\ AnyFails(c, x) /\ UNCHANGED session

(* The connection breaks; the handler goes on, and nobody gets its answer. *)
Cut(c) ==
  /\ "errors" \in Trouble
  /\ \E x \in Tab : AnyFails(c, x)
  /\ IF At(c, "failed") THEN UNCHANGED session ELSE AnswerLost(c)
  /\ UNCHANGED tokenVars

(* Seeded fault: a handler gives up halfway when its client has gone. *)
UnheardStops(c) ==
  /\ waiter[c] = Nobody
  /\ ~At(c, "idle")
  /\ calls' = [calls EXCEPT ![c] = Idle]
  /\ UNCHANGED <<rows, burnt, browserVars>>

Unheard(c) ==
  /\ waiter[c] = Nobody
  /\ Leave(c)
  /\ UNCHANGED browserVars

-----------------------------------------------------------------------------
(* A logout-all ends the session of the browser if it is of its admin. *)
EndsSession(c) ==
  /\ At(c, "revokeAll")
  /\ jar.refresh \in Token
  /\ rows[jar.refresh].admin = calls[c].admin

ServerStep(c) ==
  /\ Serve(c)
  /\ IF EndsSession(c) THEN SessionEnds ELSE UNCHANGED session
  /\ UNCHANGED <<jar, tab, request, waiter>>

(* Only the last statement of a refresh fails after the old token has been *)
(* revoked; otherwise the cookie stays good.                               *)
ServerFails(c) ==
  /\ "errors" \in Trouble
  /\ Fails(c)
  /\ IF At(c, "admin") THEN AnswerLost(c) ELSE UNCHANGED session
  /\ UNCHANGED <<jar, tab, request, waiter>>

(* ThrottlerGuard answers 429 before the handler's first statement: more   *)
(* than 10 refreshes or 5 logins within a minute.                          *)
Throttled(c) ==
  /\ "throttle" \in Trouble
  /\ At(c, "find") \/ At(c, "enter")
  /\ Fails(c)
  /\ UNCHANGED browserVars

(* The admin logs out everywhere, from another client. *)
LogoutElsewhere(c) ==
  /\ "elsewhere" \in Trouble
  /\ \E a \in Admin : LogoutAll(c, a)
  /\ UNCHANGED browserVars

(* ADMIN_ACCESS_TOKEN_TTL is over: token and cookie end together.  That    *)
(* takes minutes: not while a request is repeated with the new token.      *)
AccessExpires ==
  /\ jar.access
  /\ \A x \in Tab, q \in Query : request[x][q] # "again"
  /\ jar' = [jar EXCEPT !.access = FALSE]
  /\ UNCHANGED <<tokenVars, tab, request, waiter, session>>

(* ADMIN_REFRESH_TOKEN_TTL_DAYS are over: row and cookie end together.     *)
(* That takes days: not while the answer with the token is under way.      *)
RefreshExpires(t) ==
  /\ \A c \in Call : calls[c].new # t
  /\ Expire(t)
  /\ IF jar.refresh = t
       THEN jar' = [jar EXCEPT !.refresh = NoToken] /\ SessionEnds
       ELSE UNCHANGED <<jar, session>>
  /\ UNCHANGED <<tab, request, waiter>>

DaysPass ==
  /\ "days" \in Trouble
  /\ \/ \E t \in Token : RefreshExpires(t)
     \/ (\E t \in Token : RevocationAges(t)) /\ UNCHANGED browserVars
     \/ PruneExpiredTokens /\ UNCHANGED browserVars

TabStep(x) ==
  \/ \E q \in Query : Ask(x, q) \/ Repeat(x, q) \/ OkArrives(x, q) \/ ErrorArrives(x, q)
                        \/ JoinFlight(x, q)
  \/ \E q \in Query, c \in Call : StartFlight(x, q, c)
  \/ \E c \in Call : TimerFires(x, c) \/ BecomesVisible(x, c) \/ SendLogin(x, c)
  \/ LoginRejected(x)

CmsNext ==
  \/ \E x \in Tab : TabStep(x)
  \/ \E c \in Call : Deliver(c) \/ Cut(c) \/ Unheard(c)
                       \/ ServerStep(c) \/ ServerFails(c) \/ Throttled(c)
                       \/ LogoutElsewhere(c)
  \/ AccessExpires
  \/ DaysPass

CmsSpec == CmsInit /\ [][CmsNext]_cmsVars

-----------------------------------------------------------------------------
(* refreshPromise is exactly the refresh the interceptor of the tab has    *)
(* under way, and requests wait only while it is.                          *)
FlightsAreReal ==
  \A x \in Tab :
    /\ \A c \in Call : tab[x].flight = c <=> Waits(c, x, "interceptor")
    /\ (\E q \in Query : request[x][q] = "waiting") => tab[x].flight # NoCall

(* A call nobody has made is waited for by nobody. *)
IdleIsUnheard == \A c \in Call : At(c, "idle") => waiter[c] = Nobody

CmsTypeOK ==
  /\ jar \in [access : BOOLEAN, refresh : Token \cup {NoToken}]
  /\ tab \in [Tab -> TabState]
  /\ request \in [Tab -> [Query -> RequestState]]
  /\ waiter \in [Call -> Waiter]
  /\ session \in {"on", "mixed", "crossed", "lost", "over", "out"}
  /\ FlightsAreReal
  /\ IdleIsUnheard

(* IsATokenClient.  The CMS is one of the clients TokenClients allows, so  *)
(* what is proved there holds for it.                                      *)
IsATokenClient == TokenSpec

(* A request of the tab has failed otherwise than by a 401: an error, a    *)
(* 429, a broken connection.  The code does not tell them from a 401.      *)
FailureReported(x) ==
  \/ \E q \in Me : request[x][q] = "error" /\ request'[x][q] = "none"
  \/ \E c \in Call : waiter[c].tab = x /\ At(c, "failed") /\ waiter'[c] = Nobody

NobodySignedOut(states) ==
  \A x \in Tab :
    tab[x].status = "authed" /\ {session, session'} \subseteq states /\ ~FailureReported(x)
      => tab'[x].status = "authed"

(* StaysSignedIn.  docs/cms-frontend-plan.md:127: refreshes are            *)
(* "single-flight".  No refresh of a session that goes on is refused: not  *)
(* for another request of the tab that got its 401 at the same time, not   *)
(* for what remains of earlier sessions.  What may still sign a user out   *)
(* of it is a request that fails without a verdict on the session          *)
(* (FailureReported), an answer that got lost with the next token in it    *)
(* ("lost"), a second refresh that does not go through refreshPromise      *)
(* ("crossed"), and one that was under way at the login ("mixed").         *)
StaysSignedIn == [][NobodySignedOut({"on"})]_cmsVars

(* StaysSignedInAnyway.  docs/cms-frontend-plan.md:127 read as a promise   *)
(* of the tab: two refreshes at once do not sign the user out.             *)
StaysSignedInAnyway == [][NobodySignedOut({"on", "crossed"})]_cmsVars

(* StaysSignedInAlways.  Nor does a refresh of an earlier session that is  *)
(* refused after the login.                                                *)
StaysSignedInAlways == [][NobodySignedOut({"on", "crossed", "mixed"})]_cmsVars

(* FailuresSignNobodyOut.  docs/cms-frontend-plan.md:132: /admin/auth/me   *)
(* makes a tab unauthed after a 401 and a refresh that fails; :137 has any *)
(* refresh that fails sign out.  A 429 or an error says nothing of the     *)
(* session.                                                                *)
FailuresSignNobodyOut ==
  [][\A x \in Tab : tab[x].status = "authed" /\ session = "on" /\ session' = "on" =>
        tab'[x].status = "authed"]_cmsVars

(* OutStaysOut.  docs/cms-frontend-plan.md:140: logout() leaves the tab    *)
(* unauthed; only a login signs it in again.                               *)
OutStaysOut ==
  [][\A x \in Tab : tab[x].status = "unauthed" /\ session = "out" /\ session' = "out" =>
        tab'[x].status = "unauthed"]_cmsVars

(* AuthedKeepsRefreshing.  A signed-in tab always has a refresh ahead: its *)
(* timer is armed or the refresh the timer started is under way, whatever  *)
(* other refreshes, logouts and logins of the tab end in between.          *)
AuthedKeepsRefreshing ==
  \A x \in Tab : tab[x].status = "authed" =>
    tab[x].timer \/ \E c \in Call : Waits(c, x, "timer")

(* SignedOutHasNoTimer.  docs/cms-frontend-plan.md:139 "clear timer khi    *)
(* logout/unmount": a signed-out tab does not go on refreshing.            *)
SignedOutHasNoTimer ==
  \A x \in Tab : tab[x].status = "unauthed" => ~tab[x].timer

(* LogoutEndsSession.  docs/cms-backend-plan.md:112 "revoke phien hien tai *)
(* + clear cookie": once logout() is through, the browser holds no usable  *)
(* refresh token until somebody logs in.                                   *)
LogoutEndsSession ==
  session = "out" /\ jar.refresh # NoToken => rows[jar.refresh].state # "live"

-----------------------------------------------------------------------------
(* Fairness: handlers run and answers arrive. *)
CmsFairness ==
  \A c \in Call : WF_cmsVars(ServerStep(c)) /\ WF_cmsVars(Deliver(c))

CmsFairSpec == CmsSpec /\ CmsFairness

(* RefreshEnds.  No request waits on refreshPromise for ever, also when    *)
(* the refresh fails and others have joined it.                            *)
RefreshEnds ==
  \A x \in Tab, q \in Query : request[x][q] = "waiting" ~> request[x][q] # "waiting"
=============================================================================
