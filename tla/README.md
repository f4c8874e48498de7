# Verification of the insurance gateway

This directory holds TLA+ specifications of the gateway in this repository (a NestJS service between
partner companies and the insurer PVI, with an admin CMS), the TLC configurations that model-check
them, and proofs checked by TLAPS. Everything is read off the code; where a document or a comment
promises something the code does not do, TLC shows the counterexample (see *Findings*).

Paths below are relative to the repository root.

## 1. The system

### 1.1 Components

| component | source | state it keeps | operations | here |
|---|---|---|---|---|
| Order intake | `src/proxy/order.controller.ts`, `order-moto.controller.ts` | rows of `Transaction` (Postgres) | `createOrder`: look up the idempotency key, insert `SUBMITTING`, call PVI TaoDon, store the answer or `SUBMITTED_FAIL` | `OrderIntake` |
| Callback | `src/callback/callback.controller.ts` | the same rows | `handleCallback`: verify signature, look up, store the policy, audit, answer | `Issuance` |
| Partner poll | `src/proxy/policy.controller.ts` | the same rows | `getPolicy`: answer from the row, or ask PVI and store the policy | `Issuance` |
| Reconcile | `src/reconcile/reconcile.service.ts` | the same rows; advisory lock 987654321 | the cron pass each minute, `reconcileOne` on demand, `incrementAttempts` | `ReconcileCron`, `Issuance` |
| PVI client | `src/pvi/pvi.client.ts`, `sign.service.ts` | none | signed calls, business errors, timeout | in the modules above |
| PVI | not in the repository | its order book | takes, refuses, issues, re-issues, calls back | `PviOrders` (external) |
| Transaction views | `src/transaction/*`, `src/admin/admin-transactions.controller.ts`, `admin-api-logs`, `admin-stats`, `src/common/pagination/keyset.ts`; `cms/src/hooks/use-transactions.ts`, `use-api-logs.ts` | the pages a list shows | lists by keyset cursor, loading more, loading anew; details, manual reconcile | `KeysetList` (lists), `Issuance` (manual reconcile) |
| Partner authentication | `src/partner-auth/*` | nonce and rate keys in Redis | `canActivate`: partner and address, rate limit, timestamp, key and signature, nonce | `PartnerGuard` |
| Admin partner management | `src/admin/admin-partners.controller.ts`, `src/partner-auth/partner.service.ts` | partner and key rows | create, update, enable and disable a partner; rotate its key, revoking the old ones or not | `PartnerKeys` |
| Admin sessions | `src/admin-auth/refresh-token.service.ts`, `refresh-cleanup.cron.ts`, `src/admin/admin-auth.controller.ts` | `AdminRefreshToken` rows | login, refresh (rotate), logout, logout-all, nightly pruning | `RefreshTokens`, `TokenClients` |
| Admin guards | `src/admin-auth/admin-auth.guard.ts`, `csrf.guard.ts`, `cookie.util.ts`, `jwt.service.ts` | cookies of the browser | check the access token, check the CSRF header, set and clear cookies | `CmsSession` |
| CMS session client | `cms/src/lib/api.ts`, `auth.tsx`, `csrf.ts` | per tab: `refreshPromise`, the timer, the status | refresh on 401, by timer, on becoming visible; login, logout; `/admin/auth/me` at the mount and whenever the path changes | `CmsSession` |
| PDF cache | `src/storage/*` | one file per policy | download once, serve from disk | `PdfCache` |
| Start-time rules | `src/proxy/dto/start-not-in-past.validator.ts`, `create-order.dto.ts`, `create-order-moto.dto.ts` | none | round 00:00 of today up to the next hour and shift the end, reject a start in the past | `StartTime` |
| Stateless proxies, catalog, quotes, audit log, health, bootstrap | `src/proxy/quote*`, `catalog*`, `vehicle-type*`, `src/audit/*`, `src/health/*`, `src/main.ts` | append-only audit rows | one call each | not modelled |

### 1.2 How they interact

All order handlers share one table, `Transaction`, and one external party, PVI. No handler opens a
database transaction: each `await` is a point where any other handler of any server process (pm2 runs
one worker per core, `ecosystem.config.js`) may run, and where the process may die. Every UPDATE is
by primary key or `maGiaodich` **without a condition on the current status**, so what a handler read before an
`await` may be stale when it writes. Two things order the handlers: the unique index on
`(partnerId, idempotencyKey)` and the cron's session-level advisory lock.

```
partner --POST order--> OrderIntake --INSERT/UPDATE--> Transaction <--UPDATE-- callback <--POST-- PVI
   |                         `------TaoDon-----> PVI        ^  ^
   `--GET order--> poll --GetPolicyNumber--> PVI            |  `-- reconcileOne (admin or partner)
                     `----------UPDATE----------------------+----- reconcile cron (lock, each minute)
```

In front of the partners' handlers stands the guard. It reads the partner and its keys from Postgres, which
admins change meanwhile, and two kinds of Redis keys that all servers share: a counter per partner and minute
(INCR, then EXPIRE) and a nonce per request (SET NX EX). The body of an order then goes through
`ValidationPipe`, whose transform and validation each read the clock. Certificates are served from a directory
to which every download that finds no file writes one, without a lock.

The admin side shares another table, `AdminRefreshToken`. A login inserts the first token of a family;
each refresh reads the row of the cookie's token, inserts a successor and revokes the old row, in three
statements; a revoked token that is presented again is taken for theft and revokes the family. The
browser's tabs share the cookies, which change when an answer *arrives*, and nothing else. Within a tab
three pieces of code refresh: the 401 interceptor (one shared `refreshPromise`), the timer, and the
`visibilitychange` listener.

### 1.3 What is hard, and what must hold

* **Intake.** Two requests with one key, retries after a timeout, a crash between INSERT and TaoDon, an
  UPDATE that fails after TaoDon succeeded. *PVI is asked at most once per key; all replies name one
  order; a reply with a payment link names an order PVI took.*
* **Issuance.** Callbacks are repeated and reordered, may come before `createOrder` has stored TaoDon's
  answer, and race the poll, the manual reconcile and the cron. *A recorded policy is one PVI issued
  for that order and is never lost; a callback never misses its row; an acknowledged callback stays
  acknowledged by the row.*
* **Reconcile.** A pass works on copies of rows that are as old as all PVI calls before; a lock taken
  in one pooled session may be released in another, or lost when the pool closes the session. *An order
  leaves `SUBMITTED_OK` eventually; it is given up only after the configured number of attempts.*
* **Admin sessions.** Rotation is three statements between which other rotations, logouts, the pruning
  or a failure may come. *A session that has ended never comes back; replacements form chains within
  one family.*
* **CMS.** Two refreshes at once look like token theft; an answer may arrive after the tab has changed
  its mind. A 429 or a broken connection fails a request like
  a 401 does, and `/admin/auth/me` is asked again whenever the path changes. *No refresh of a session that goes on is refused, and a tab is
  signed out of it only by a failure it was told of; a signed-in tab keeps refreshing, a signed-out one does not; a
  request that waits for a refresh goes on.*
* **Partner authentication.** Copies of a signed request arrive twice, late or mangled, at several servers;
  a nonce is forgotten after a fixed time; INCR and EXPIRE are two commands; the limit changes meanwhile.
  *Between two copies of a request that pass lies the life of a nonce; a mangled copy uses up no nonce; no minute lets more by than the limit, and nobody
  is turned away before it is used up; a request sent after its key was rotated out does not pass.*
* **Partner management.** A revoking rotation is two statements. *A partner keeps a key it can sign with.*
* **PDF cache.** Several downloads write one file while others read it; a crash leaves part of it. *The file
  writers leave is one document from end to end, and so is what is served while nobody writes.*
* **Lists.** Rows appear, with equal times or late, and leave, while pages are put together. *A list is in
  order, without repetition, and skips no row that was in it all the time.*
* **Start time.** Midnight in a time zone of its own; two clock reads; a transform that writes into its
  source. *An accepted order begins when asked, or at the next full hour of today, and keeps its term.*

`PROJECT.json` lists each of these hazards at its line, with the properties that watch it.

## 2. Modules

```
PviOrders <- Transactions <- OrderIntake   \
                          <- Issuance       >- Gateway <- MCGateway   (TLC)
                          <- ReconcileCron /      |  \
                                   OrderPromise --+   `- GatewayTypes <- GatewaySafety (TLAPS)
```

```
RefreshTokens <- TokenClients <- MCTokens                (TLC)
                     ^   `------ TokenProofs <--.        (TLAPS)
                     `---------- CmsSession <- MCCms     (TLC)
                                     `-------- CmsProofs (TLAPS, with TokenProofs)
```

```
PartnerKeys <- PartnerGuard <- MCPartner     (TLC)
                     `-------- PartnerProofs (TLAPS)

StartTime  <-- StartProofs (TLAPS) --.
KeysetList <-- ListProofs  (TLAPS)   |   all three <-- MCApart (TLC)
PdfCache   <-- CacheProofs (TLAPS) --'
```

| module | content |
|---|---|
| `PviOrders` | PVI as the client sees it. External. `pvi[m]`: how far the TaoDon request for order `m` got, for whom it was sent, all policies issued, the current one. `Foreign` are orders of another deployment that shares the CpId: callbacks may come for them. |
| `Transactions` | the table. One operator per SQL statement: `Insert`, `SetSubmitted`, `SetFailed`, `SetIssued`, `SetReconciled`, `SetAttempts`; `CanInsert` is the unique index. `fresh` abstracts `updatedAt` against the grace cutoff; `prKey` stands for the columns written together from TaoDon's answer. |
| `OrderIntake` | `createOrder`, one action per stretch between two awaits. A thread of `Request` holds the partner and key it serves and the UUID it drew. Every await can also fail (`OrderTimeout`, `RecordSubmittedThrows`) or be the last thing the process does (`AbandonIntake`); an UPDATE that fails may have been applied. Both products run the same steps. |
| `Issuance` | `handleCallback`, `getPolicy` and `reconcileOne` as threads of `Handler`. A valid callback carries any policy PVI ever issued for that order, any number of times, in any order. |
| `ReconcileCron` | `reconcile`, `runReconcile`, `incrementAttempts`. A pass copies `reconcileAttempts` at its query and writes copy + 1 later. Passes, Postgres sessions and processes are separate: any session of the process's pool may run the lock, and any the unlock. |
| `Gateway` | all handlers side by side, PVI's steps, time; the properties that need several components; fairness. |
| `OrderPromise` | the abstract specification of idempotent ordering: a key is *placed*, PVI is *asked* at most once, answers name the placed order. |
| `RefreshTokens` | the `AdminRefreshToken` table and the handlers of login, refresh, logout and logout-all as calls that run one statement at a time. A row is `live`, `revoked`, `aged` (revoked more than seven days ago), or `deleted`; `burnt` remembers the families revoked for reuse. `refused` is the 401; a failing statement, a crash or the throttle's 429 ends a call with `failed`, which says nothing of the session. |
| `TokenClients` | those handlers with any client: every token ever issued may be sent again, at any time, by any number of callers. It is the abstract view of the browser. |
| `CmsSession` | the CMS: cookies (`jar`), tabs (`refreshPromise` is `flight`, `timerRef` is `timer`), the requests that go through the interceptor, and who waits for which call (`waiter`). `/admin/auth/me` may be asked in any status (`MayAsk`): its effect (`cms/src/lib/auth.tsx:58-67`) depends on `scheduleRefresh`, that on `navigate`, and `useNavigate` under `BrowserRouter` returns a new function for every path. `Throttled` is a 429 to a refresh or a login, `Answers` has it for the other requests. A call whose connection breaks goes on unheard. `session` remembers whether the browser's session is on, over, or was logged out; only what ends it at the server, or a logout, does so, and no failing request. `"mixed"` is a session that began while a refresh of an earlier one was under way, `"crossed"` one that has had two refreshes at once that do not share `refreshPromise`, `"lost"` one of which an answer with the next token did not arrive. |
| `PartnerKeys` | partners and their keys: one action per service method, but for a revoking rotation, which is two (`RotateSecret`, `RevokeOld`) and can stop between them. `raced` remembers the partners of which two revoking rotations overlapped. |
| `PartnerGuard` | `canActivate`, one action per await, for every copy (`Delivery`) the network brings of a request; `intact` says whether the copy still is what was signed. Redis counters and nonces with their expiry, and a clock. A signature is abstracted to what it establishes: which key signed this content. |
| `StartTime` | `resolveGioDau`, `shiftEndTime` and the transforms of both DTOs as operators over ticks, and `ValidationPipe` running them on one body at a time. `early` names the end fields the JSON of a body names before the start: class-transformer has copied them when the transform writes the shifted end into the source. |
| `KeysetList` | `parsePaginationQuery`, `buildKeysetWhere`, `buildPageResponse` and the pages `useInfiniteQuery` makes of them, for one choice of filters. `steady` remembers the rows that were in the list ever since its first page was asked for. |
| `PdfCache` | `getOrFetch` and the stream that answers, for one policy: `fs.writeFile` truncates and then writes block after block, the stream reads block after block. `torn` says that a writer stopped halfway or that two wrote different documents at once. |
| `MCGateway`, `MCTokens`, `MCCms`, `MCPartner` | values for TLC. |
| `MCApart` | `StartTime`, `KeysetList` and `PdfCache` in one module: they share no state, so `part` says which one a behaviour is of. |
| `GatewayTypes`, `GatewaySafety`, `TokenProofs`, `CmsProofs`, `PartnerProofs`, `StartProofs`, `ListProofs`, `CacheProofs` | the proofs. |

Names follow the code (`createOrder`'s results are `ToResult`, `maGiaodich` is `ma`, statuses keep their
names; `"ABSENT"` is a missing row). Definitions marked *Seeded fault* are never part of a
specification: each is a plausible bug (a dropped guard, an off-by-one, a reordered write) that can be
put in place of the definition after it to see a property fail.

Left out of the model because no property tells it apart: payloads and their validation, the wording of
answers, audit content, masking, HTTP details. The signature of a callback is abstracted to what it
establishes (`SignatureIsValid`: PVI issued that policy for that order). A password is right
(`SendLogin`) or wrong (`LoginRejected`). Pages of the CMS are data requests a signed-in tab makes; a tab that is not signed in may log in at any time;
the reload of a page is a tab that is left alone and a new one that mounts.

## 3. Model checking

Run `tlc -config <run>.cfg <module>.tla` with `MCGateway` (`intake`, `issuance`, `gateway`, `settle`,
`stale_attempt`), `MCTokens` (`tokens`), `MCCms` (`cms`, `single_flight`, `refresh_ends`, `logout_ignored`),
`MCPartner` (`partner`) or `MCApart` (`apart`). Each run bounds threads, orders, policies and attempts in its
`.cfg`. Bounds that stand inside guards are `AttemptCap` and `DepthCap`; in `CmsSession`, `Room` (a token is
left for every call that may still issue one); in `PartnerGuard` and `KeysetList`, `Horizon` (the clock stops),
in `StartTime`, `Sunset`; and in `PartnerKeys` and `PartnerGuard`, `Crowd` (below). Deadlock checking is off:
when all orders, tokens or ticks are spent and all threads idle, nothing has to happen.

| run | question | instance | result |
|---|---|---|---|
| `intake` | is ordering idempotent under races, timeouts, failed UPDATEs, crashes, retries? | 3 requests, 2 partners x 2 keys, 3 orders | `OrderInv`, `AtMostOncePerKey`, `SameKeySameOrder`, `OneOrderOneKey`, `PrKeyMeansTaken`, `KeepsPromise` hold (with every other handler at work: theorem `PromiseKept`) |
| `issuance` | do callbacks, polls and manual reconciles keep policies right, whatever their order? | 1 request, 2 handlers, 3 policies, one order and one foreign order; PVI may issue at once | `RecordedPolicyIsReal`, `CallbackFindsItsOrder`, `AckedPolicyIsKept`, `PolicyNeverErased` hold |
| `gateway` | does any mix of handlers make up a status? what does the attempt counter guarantee when two passes overlap? | 2 processes with one pass and one session each, 1 request thread, 1 handler, 2 orders | `TypeOK`, `StatusIsEarned`, `TimeoutIsEarned`, `PendingKeepsAttempts` hold |
| `settle` | does every order leave `SUBMITTED_OK`? | 1 process, 1 pass, 2 sessions | `PendingIsSettled` holds under `FairSpec` |
| `tokens` | do racing rotations, logouts and prunings keep families right? | any client, 2 calls, 3 tokens, 2 families | `TokensTypeOK`, `ReplacementsAreChained`, `DeadStaysDead` hold |
| `cms` | does a tab keep its promise, timer and requests together? is it a client of `TokenClients`? what may sign its user out? | 1 tab with all its refreshes, 1 `/admin/auth/me`, no page, 2 calls, 3 tokens, 2 families; statements and connections fail, 429 | `CmsTypeOK`, `AuthedKeepsRefreshing`, `IsATokenClient`, `StaysSignedIn` hold |
| `single_flight` | do several requests of a tab share one refresh, so that none of them signs the user out? | 1 tab, its interceptor alone, 2 pages and 1 `/admin/auth/me`, 2 calls, 3 tokens, 2 families; expiry, pruning | `StaysSignedIn` holds; no session becomes `"crossed"` here, so its exceptions are those of a session begun during a refresh |
| `refresh_ends` | can a request wait for ever? | 1 tab, interceptor only, 1 `/admin/auth/me` and a logout, 2 calls, 2 tokens, 1 family; statements and connections fail, logout-all elsewhere | `RefreshEnds` holds under `CmsFairSpec` |
| `partner` | do nonces, limits and rotations hold when copies, rotations, expiries and crashes meet? | 1 partner, 3 keys, 1 request; 2 rotations and 1 copy, or 1 rotation and 2 copies; a minute of 2 s; a nonce lives as long as a timestamp may be old | `GuardTypeOK`, `KeepsAKey`, `PassesAreApart`, `NonceNeedsSignature`, `RotatedOutStops`, `RateHolds`, `LimitedOnlyWhenFull` hold |
| `apart` | is the cover of an order what was asked for? do pages make a list? is a certificate whole? | a day and a half, bodies for yesterday, today and tomorrow; 4 rows in pages of 1 or 2; 3 downloads, 2 URLs | `StartTypeOK`, `TermIsKept`, `BeginsAsAsked`, `TodayIsNotPast`, `ProductsAgree`, `ListedInOrder`, `NothingSkipped`, `FileIsWhole`, `ServedWhole` hold |
| `stale_attempt` | see *Findings* | smallest instance that shows it | violated |
| `logout_ignored` | see *Findings* | 3 tokens, 1 family, 2 calls; 1 tab with all its refreshes and 1 `/admin/auth/me`, nothing fails | violated |

**Why the bounds suffice.** A race on a key needs two requests; the third covers a retry that arrives while the
loser still looks up the winner. Two partners with two keys are what it takes to mix up the two halves of the
index. Three policies and two handlers let an old callback overtake a re-issue twice. Two attempts
(`MaxAttempts = 2`) separate "not yet", "last" and "given up"; `AttemptCap` lies above it in `gateway`
because overlapping passes and reconciles may exceed the maximum. `PayFirst` says that customers pay, and PVI
issues, only once the payment link is out (`docs/motor-insurance-flow.md:244`); `issuance` drops it, so that callbacks overtake
`createOrder`, and every other order run keeps it, because without it a row that reconcile has already counted may
become `SUBMITTED_OK` with no attempts left. Threads are reused, so a run of any length is made of a few
threads. `settle` has one order: a pass that breaks off leaves that order for the next, but that it leaves other rows behind, and
that all of them are settled, is not checked. Two calls are a race of two rotations, or of a rotation and a logout, and calls are reused too; three
tokens are a login and two rotations of one token, or two in a row; two families are one session and the
login after it, whose answer may come while a refresh of the first is still under way; that is where
`cms` and `single_flight` need both. `cms` has no page: the request of a page joins or starts a refresh as `/admin/auth/me` does, and its
answer changes nothing in the tab; `single_flight` has two of them with `/admin/auth/me`. That run takes the timer and
the visibility refresh, which the code always has, out on purpose: it shows what the shared promise does by itself. Two requests
that get their 401 together never cross there, so that `StaysSignedIn` applies to them; with the other two refreshes, in
`cms`, sessions do cross, and are then excepted. A logout-all elsewhere is in `refresh_ends` and in the theorems; in `cms` it would
multiply the states beyond what a run can do. Two tabs are left to the theorems too, which hold for any number.
The access token does not expire while a request is repeated with it (`AccessExpires`): that would take minutes.
A token does not expire while the answer that carries it is under way (`RefreshExpires`): that would
take days. Symmetry permutes orders, policies, tokens, calls and threads, except in the two liveness runs.

In `partner`, `Crowd` lets three of two rotations and two copies act in one behaviour: a race of two rotations
with a request between them, and a race of two copies with a rotation between them; a limit of 1 makes the second
request of a minute the one too many. `Horizon` (3 ticks) spans two minutes, so that counters and nonces expire and a minute
ends while a handler works. `RateTtl` and `Stall` (how long a handler may take between
reading the clock and the Redis command that relies on it) satisfy `RateAssumption` with
equality, so a tick less would show. `NonceTtl = Skew`, as the defaults have it (300 s both), so that a copy comes after its
nonce is forgotten and before its timestamp is out of date, and does pass again: `PassesAreApart` is about that. The
partner's clock runs ahead in the proofs only (`Ahead`).

In `apart` three parts share one run because they share no state: their graphs add up and do not multiply. A
day has three hours of two minutes of two ticks, and Vietnam's clock is an hour ahead: `Sunrise` to `Sunset`
crosses midnight in either clock, so each request can come before, at and after a full hour and in the
last hour of a day; `Lag` lets a full hour pass between the transform and the validator. The bodies have
times 00:00, the first minute and a full hour, and texts of the right form that name no day. Three downloads are
two writers and a reader, or two readers of what a writer left; documents of two and three blocks show a truncated file and
one that keeps the tail of another. Four rows over two moments make equal times; `CommitLag` lets a row become
visible a tick after its time.

**Fairness.** `CmsFairSpec`, used by `refresh_ends` only: a handler at work goes on, and the answer
of a call reaches the tab that waits for it or its connection breaks; both follow from event loops that
run and from TCP. Nobody has to ask, log in or fire a timer. `FairSpec`, used by `settle` only: Time passes, the cron fires each minute, idle pooled
sessions are closed (`pg.Pool`'s `idleTimeoutMillis`): weak fairness for what stays enabled. The steps
of a pass get strong fairness because a crash or a failing query may interrupt each of them, though not every time. Nothing
is assumed of partners, customers, PVI or the callbacks: a pass that asks PVI may get a policy,
no policy or an error for ever, and the order is still settled because each outcome counts. The property would be false if sessions were never closed: a
lock whose unlock went to another session of the pool would then stop the cron for good. The guard, the list and the
cache promise nothing that must eventually happen: a request that fails is answered, and the caller asks again.

## 4. Findings

Each is a disagreement between the code and what the repository says of it. The first two have a run of
their own that shows the counterexample. Each of the others is seen by checking the property named, which the
module defines, with the constants of the `.cfg` named.

| property | what the code does | what is said |
|---|---|---|
| `SubmittedOkAwaitsCallback`, run `stale_attempt` | `incrementAttempts` (`src/reconcile/reconcile.service.ts:98-118`) writes `SUBMITTED_OK`/`CALLBACK_TIMEOUT` from the copy the pass read. A callback that lands during the PVI call is answered "00" and then its `ISSUED` is overwritten. The policy number stays, the status does not; the cron or a poll repairs it while attempts are left. | `docs/architecture.md:305`: `SUBMITTED_OK` means waiting for the callback |
| `LogoutEndsSession`, run `logout_ignored` | `csrf_token` has `Path=/admin` (`src/admin-auth/cookie.util.ts:49`), the pages of the CMS live at `/`, `/login`, `/transactions`, ..., so `document.cookie` does not show it, no `x-csrf-token` is sent, `CsrfGuard` answers 403, and `logout()` ignores the error: cookies and session stay. Any other POST or PATCH of the CMS is refused in the same way | `docs/cms-backend-plan.md:112`: logout revokes the session and clears the cookies; `docs/cms-frontend-plan.md:21`: JS can read `csrf_token` |
| `TermIsAlwaysKept`, invariant of `apart.cfg` | the transform of `GioDau` writes the shifted end into the source object (`src/proxy/dto/create-order.dto.ts:82-83`), from which class-transformer has already copied a `NgayCuoi` that the JSON names first. The documented bodies do (`docs/motor-insurance-flow.md:177-180`, `docs/uat-curl-testing.md:104`): ordered for 00:00 of today, `GioCuoi` moves past midnight and `NgayCuoi` stays, and the term is a day short | `src/proxy/dto/start-not-in-past.validator.ts:37-38`: start and end move by one delta, to keep the term |
| `StaysSignedInAnyway`, action property of `logout_ignored.cfg` | the timer and the visibility refresh (`cms/src/lib/auth.tsx:46`, `:84`) do not go through `refreshPromise`. A tab that becomes visible when its timer is due sends one token twice; the second is reuse, the family is revoked and the user signed out | `docs/cms-frontend-plan.md:127`: refreshes are single-flight |
| `StaysSignedInAlways`, action property of `single_flight.cfg` | with the interceptor alone: a refresh sent with the cookie of an earlier session may be refused after a login has been answered. `auth:logout` (`cms/src/lib/api.ts:34-45`, `auth.tsx:71-76`) does not ask whose refresh it was, and the new session is signed out of the tab | the same section, `:127-130`: a failed refresh ends the session it refreshes |
| `FailuresSignNobodyOut`, action property of `logout_ignored.cfg` with `Trouble = {"throttle"}` | a 429 (more than 10 refreshes a minute, `src/admin/admin-auth.controller.ts:55`; 100 requests, `src/app.module.ts:27`) or any other failure of a refresh or of `/admin/auth/me` signs the tab out (`cms/src/lib/auth.tsx:49`, `:66`, `:86`), though cookie and row are both good | `docs/cms-frontend-plan.md:132`: `unauthed` after a 401 and a refresh that failed; `:137` does have any refresh that fails sign out |
| `OutStaysOut`, action property of `logout_ignored.cfg` | `logout()` changes the path, `/admin/auth/me` is asked again (`cms/src/lib/auth.tsx:58-67`), and as the session lives on (`LogoutEndsSession` above), the answer signs the tab in again and arms its timer | `docs/cms-frontend-plan.md:140`: logout leaves the tab `unauthed`, at `/login` |
| `SignedOutHasNoTimer`, invariant of `logout_ignored.cfg` | the answer of a timer refresh that was under way at the logout calls `scheduleRefresh` all the same (`auth.tsx:47`): the signed-out tab refreshes on | `docs/cms-frontend-plan.md:139`: clear the timer on logout |
| `OnePassAtATime`, invariant of `gateway.cfg` | the advisory lock belongs to a pooled session that makes no query while PVI is asked; HTTP calls may take 15 s, the pool closes idle sessions after 10 s, and a second process starts a pass | `src/reconcile/reconcile.service.ts:16-18`: only one pass really runs each minute |
| `SubmittingIsInFlight`, invariant of `intake.cfg` | a process that dies in `createOrder` leaves `SUBMITTING` for good; a retry with the key replays that row and the cron never looks at it | `docs/architecture.md:304`: `SUBMITTING` means TaoDon is being called |
| `FailedMeansRefused`, invariant of `intake.cfg` | a TaoDon timeout, or a failing UPDATE after a success, is stored as `SUBMITTED_FAIL` although PVI took the order | `docs/architecture.md:306`: `SUBMITTED_FAIL` means PVI's Status was not 00 |
| `RevokedFamilyIsDead`, invariant of `tokens.cfg` | a rotation that read its row as live inserts the successor after another call has detected reuse and revoked the family (`src/admin-auth/refresh-token.service.ts:66-77`): the new token is live | `docs/cms-backend-plan.md:83`: the whole family is revoked; the comment at `refresh-token.service.ts:65` |
| `KeepsAKeyAlways`, invariant of `partner.cfg` | two rotations with `revokeOld` at once each revoke the key the other has just created (`src/partner-auth/partner.service.ts:95-109`): both answers name a key, and the partner has none that counts | the answers themselves |
| `AtMostOnce`, invariant of `partner.cfg` | with the defaults `PARTNER_AUTH_SKEW_SECONDS = PARTNER_AUTH_NONCE_TTL_SECONDS = 300` (`src/config/env.ts:27-28`) a nonce is forgotten 300 s after its claim (`src/partner-auth/nonce-store.service.ts:8-21`), while the timestamp is still good: until 301 s after it, and up to 600 s after the claim when the partner's clock is ahead | `docs/partner-auth-plan.md:29`: the nonce is unique in the allowed window; `:30`: 5 minutes, or a bit longer than the timestamp window |
| `AlwaysServedWhole`, invariant of `apart.cfg` | a server that dies inside `writeFile` leaves part of a document; its size is not 0, so every later download serves it as the whole (`src/storage/pdf-storage.service.ts:64`) | `src/storage/pdf.controller.ts`: the answer is the certificate |

Noted on the way, each plain from the lines named, without a property:

* an order for 00:00 of today that comes after 23:00 is rounded to 00:00 and rejected as past, which
  `TodayIsNotPast` allows and `docs/uat-curl-testing.md:141-143` does not mention;
* dates and times of the right form that do not exist (31/02/2026, 25:99) pass: the comment at
  `start-not-in-past.validator.ts:147` leaves them to the format check, which looks at digits only;
* the CMS sends `allowedIps` as one string (`cms/src/hooks/use-partners.ts:36`), the DTO wants an array, and the
  form is refused; it labels the limit "req/s" (`cms/src/routes/partners/create-dialog.tsx:108`), which counts per minute;
* the filter "IN" of the API log asks for `IN_FROM_PARTNER` (`cms/src/routes/api-logs/list.tsx:9`), the log holds
  `IN_FROM_PVI`; the `to` date of a list is midnight UTC of that day, which leaves the day out;
* a cached certificate is never fetched again, also after PVI has re-issued the policy under another URL;
* `docs/partner-auth-plan.md:50-56` checks the nonce before the HMAC and the partner's status last; the guard claims the nonce after
  the HMAC, on purpose (`src/partner-auth/partner-auth.guard.ts:110-111`; `NonceNeedsSignature` is about that);
* the unique index spans both products: a motorbike request with the key of a car order is answered with the car order.

What still holds in spite of them is in the passing runs: an acknowledged callback's policy number stays
(`AckedPolicyIsKept`), overlapping passes never give an order up early (`TimeoutIsEarned`), a failed or lost
submission never leads to a second order for the key (`AtMostOncePerKey`); a live token born into a
revoked family keeps that session alive, but no session that has really come to its end is revived
(`DeadStaysDead`); no refresh of a session that goes on is
refused, unless two refreshes crossed, one was under way when it began, or an answer with its next token was lost, so that a tab is
signed out of it only by a failure it was told of (`StaysSignedIn`); two copies of a request pass only if they are the life of a nonce apart (`PassesAreApart`); bodies that name the end after the start keep their term (`TermIsKept`); a partner loses its
last key only to two revoking rotations at once (`KeepsAKey`); and a file is spoilt only by a writer that stopped
halfway or by two that wrote different documents (`FileIsWhole`). `ServedWhole` speaks of what is served while nobody writes: a
download that reads while another writes may get a part.

## 5. Proofs

`tlapm <module>.tla` checks them. They hold for every set of partners, keys, orders, policies, threads,
passes, sessions and processes, with no bound on their number, and any `MaxAttempts >= 1`; those about admin
sessions for every set of tokens, families, admins, calls, tabs and pages; those about partners for every
number of keys, rotations, requests and copies, every limit, skew and nonce TTL; those
about start times for every length of minute, hour and day that divide each other, every offset and every body; those about
certificates for every set of documents, lengths and downloads; those about lists for every set of rows, every limit and
page size, and any number of pages.

*Assumptions* (all named in the modules, evaluated by TLC in the runs of those modules):

- null values differ from real ones: `NullsAreDistinct`, `SessionNullsAreDistinct`, parts of `CmsAssumption`,
  `KeysAssumption`, `CacheAssumption`, `TextAssumption`, `BodyAssumption`;
- constants have their types: `ForeignAssumption`, `AttemptsAssumption`, `PayFirstAssumption`,
  `CronAssumption` (each pass and session has a process), `TicksAssumption` (whole minutes and hours; the offset is whole
  hours), `ClockAssumption`, `ListAssumption`;
- settings: `RateAssumption` (a counter outlives its minute), which `RATE_BUCKET_TTL_SEC = 120` meets.

Three theorems have a hypothesis of their own, because what they state is false without it:

- `PassesOnce` assumes `NonceOutlivesTimestamps`. The defaults of `src/config/env.ts:27-28` do *not* meet it (section 4), so it
  speaks of deployments that set a longer nonce TTL. `PassesTwice` assumes `TwoNoncesOutliveTimestamps`, which the defaults
  meet unless the partner's clock is some five minutes ahead: 2 x 300 s against 301 s, `Ahead` and `Stall`.
  `PassesKeepApart` holds for every setting.
- `PendingIsFound` assumes `PayFirst` (see section 3).

The model itself assumes that a drawn UUID is fresh.

*The gateway*

| theorem | states | argument |
|---|---|---|
| `TypeCorrect` | `Spec => []TypeOK` | inductive because it also says that a thread past its first step holds an order, that a thread about to write a policy holds one, and that the lock has a holder exactly when its depth is not 0. One lemma per component, one step per action. |
| `OrderCorrect` | `Spec => []OrderInv` | see below |
| `AskedOnce` | `Spec => []AtMostOncePerKey` | from `OrderInv` |
| `AnswersAgree`, `OneCallerEach` | `Spec => []SameKeySameOrder`, `Spec => []OneOrderOneKey` | from `TypeOK` and `OrderInv` |
| `PromiseKept` | `Spec => KeepsPromise` | every step is a `Place` (INSERT), an `Ask` (TaoDon leaves), an `Answer` (a reply) or invisible |
| `PolicyCorrect` | `Spec => []PolicyInv` | see below |
| `PoliciesAreReal`, `StatusesAreEarned`, `GivenUpIsEarned`, `LinksAreReal` | `Spec => []` of `RecordedPolicyIsReal`, `StatusIsEarned`, `TimeoutIsEarned`, `PrKeyMeansTaken` | from `PolicyInv` |
| `NoPolicyIsLost` | `Spec => PolicyNeverErased` | the frame lemmas of `PolicyInv`: a handler that writes `policyNumber` writes one it holds |
| `CallbacksFindOrders`, `AcksAreKept` | `Spec => []` of `CallbackFindsItsOrder`, `AckedPolicyIsKept` | from `PolicyInv`, and `OrderInv` for the row |
| `PendingIsFound` | `PayFirst` gives `Spec => []PendingKeepsAttempts` | see below |

`AtMostOncePerKey` is not inductive: it speaks of PVI's orders, which are safe only because rows are
unique, because a row is written before the order is sent, and because no two calls hold one UUID.
`OrderInv` says exactly that: `OneRowPerOwner` (the unique index at work), `ThreadsKnowTheirRow` (a call has its row
once it is past the INSERT, not before, and PVI has not heard of the order before the call sends it), `SentOrdersHaveRows`
(PVI knows only orders with a row, for the row's owner), `RepliesNameRows`, and `WorkersHaveRows` (callbacks,
polls and passes work on rows that exist, so their UPDATEs create none). Steps of all other handlers are
dealt with by two frame lemmas (`OrdersFrame`, `WorkersFrame`): they keep every row in being and with its owner
(`RowsStay`). The same fact makes them invisible to the promise (`PromiseFrame`).

`PolicyInv` says that whatever anyone holds of a policy, PVI has said of that order: in its own book
(`PoliciesAreTaken`), in each row (`RowIsEarned`: its policy, its status, its attempts), in the local copies of
calls, of callbacks and polls, and of passes (`CallsHoldTaken`, `HandlersHoldPolicies`, `PassesHoldTaken`) and in the answers given
(`AnswersAreTrue`, `PrKeyMeansTaken`). The copies are the point: every handler writes from a copy it
took steps before, and the invariant holds because what PVI has once said of an order it never takes back, so that a copy
may be old but never wrong.

`LinkInv` is the argument that an order that waits is found again. Until the link is stored PVI issues nothing
(`UnlinkedHasNoPolicy`), the row has status other than SUBMITTED_OK (`RowIsLinked`), so that no pass works on it
(`PassesHoldLinked`), and its counter is 0; the call that stores the link (`CallsAwaitTheLink`) therefore
starts the wait with all attempts. It needs `PayFirst`: a PVI that issues before the link is stored breaks the first step.

*Admin sessions*

| theorem | states | argument |
|---|---|---|
| `TokensTypeCorrect` | `TokenSpec => []TokensTypeOK` | inductive because it says that a call past its look-up works on a row that was written |
| `DeadFamiliesStayDead` | `TokenSpec => DeadStaysDead` | a row becomes live only by an INSERT; a rotation inserts only into the family of a row it has found live, and `Dead` excludes such a rotation; a login opens a new family |
| `Chained` | `TokenSpec => []ReplacementsAreChained` | by `ChainInv`: links lead to written rows (`LinksAreReal` of `TokenProofs`), and a rotation about to link owns its successor (`MarksAreOwn`) |
| `CmsIsATokenClient` | `CmsSpec => IsATokenClient` | the cookie is always `NoToken` or a token the server has issued (`CookieIsIssued`); each step of the CMS is then a request `TokenClients` allows, a step of the server, or invisible |
| `CmsSessionsStayDead` | `CmsSpec => DeadStaysDead` | from the two before |
| `CmsTypeCorrect`, `KeepsRefreshing` | `CmsSpec => []CmsTypeOK`, `CmsSpec => []AuthedKeepsRefreshing` | together inductive, over `TokensTypeOK`: a call that is idle is expected by nobody, so a new call never inherits a waiter, and the timer's call is the only one whose end may leave a tab without a timer; it arms it or signs out |
| `OnlyFailuresSignOut` | `CmsSpec => StaysSignedIn` | see below |

`StaysSignedIn` says of the code as it is, with any number of tabs and all their refreshes, that no refresh of a session that is
`"on"` is refused, so the invariant says why it cannot be. `SessionIsWhole`: while the session is on, at most one refresh of any
tab is under way; the jar's token is not expired, and is live unless that refresh has revoked it; the refresh presents the jar's
token, has not been refused, and once it has inserted the successor holds a live token of the same family; if it failed, it did so
before it revoked anything (`Rotates`); and every other call that presents a token of that family has failed already, so nothing can look like
reuse. To carry it over a login: a login is sent without a cookie (`LoginsHaveNoCookie`) and has a family of its own that no call
presents (`LoginsAreFresh`), and calls present tokens that exist (`CallsAreIssued`). A request that is repeated after a
refresh has a new access token with it, so that only a login is ever denied twice (`RepeatsPass`): that is why `/admin/auth/me`,
however often it is asked, signs nobody out but by a failure other than a 401. Each exception is needed at one step: a second
refresh presents the token that the first is about to revoke (`session` becomes `"crossed"`); a login that is answered while a
refresh is under way starts a session that a refusal of the old one may end (`"mixed"`); when the answer of a rotation does not
arrive, the cookie that stays is a revoked token (`"lost"`); and a failure that is reported signs the tab out by
itself (`FailureReported`). Section 4 has what the code does then.

*Partners, certificates, lists, start times*

| theorem | states | argument |
|---|---|---|
| `GuardTypeCorrect`, `KeyIsKept` | `Spec => []GuardTypeOK`, `Spec => []KeepsAKey` | by `KeysInv`: all keys a finished revoking rotation found are revoked (`OlderIsRevoked`), and while no two revoking rotations of a partner overlap (`OneRevokes`) the key a rotation has just made lives (`OwnKeyLives`) |
| `RotatedOutIsStopped`, `MangledCopiesLeaveTheNonce` | `Spec => []` of `RotatedOutStops`, `NonceNeedsSignature` | by `SignedInv`: a copy that arrives after the rotation finds its key revoked at each later step, because revocation is never undone (`KeysStay`); a claim is reached only by a verified copy |
| `PassesKeepApart` | `Spec => []PassesAreApart` | by `NonceInv`: a copy that passed leaves a nonce that lasts its time from then on (`PassedLeavesNonce`), and the next is claimed when that one has expired |
| `PassesOnce` | `NonceOutlivesTimestamps` gives `Spec => []AtMostOnce` | by `NonceInv` too: copies pass only from the time of the timestamp, less what the partner's clock is ahead, until it is out of date and the last handler is through (`PassedInTime`). Two that are a nonce's life apart do not fit in (`PassesFit`) |
| `PassesTwice` | `TwoNoncesOutliveTimestamps` gives `Spec => []AtMostTwice` | and three do not fit into two lives |
| `LimitHolds`, `TurnedAwayOnlyWhenFull` | `Spec => []RateHolds`, `Spec => []LimitedOnlyWhenFull` | by `RateInv`: the handlers counted in a minute hold exactly the places 1 to the counter, each its own (`PlacesAreTaken`, `PlacesDiffer`), so those let by are at most the limit; here `RateAssumption` is used |
| `CacheTypeCorrect`, `FileLeftWhole`, `AnswersWhole` | `CacheSpec => []` of `CacheTypeOK`, `FileIsWhole`, `ServedWhole` | by `CacheInv`: the writer who opened the file last has all its blocks in place, and what another writes of the same document is the same |
| `ListCorrect`, `ListInOrder`, `ListSkipsNothing` | `ListSpec => []` of `ListInv`, `ListedInOrder`, `NothingSkipped` | by `ListInv`: the pages shown, and those of the fetch under way, are in order and hold each row of `steady` (of `since`) that is not beyond the last cursor (`ShownInv`, `FetchInv`). A row keeps its place while it changes (`createdAt` and `id` do not), and a later page holds rows beyond the cursor only. That `findMany` *has* an answer in order, for any finite set of rows, is a lemma: each row goes to the place that the number of newer rows gives it, which needs no induction |
| `StartTypeCorrect` | `Spec => []StartTypeOK` | `%` and `\div` over any positive divisor |
| `TermKept`, `BeginsWhenAsked` | `Spec => []TermIsKept`, `Spec => []BeginsAsAsked` | the transform moves start and end by one amount; rounding up across midnight moves the date by one day and the hour to 00:00 together |
| `TodayAccepted` | `Spec => []TodayIsNotPast` | the next full hour of the arrival is still ahead when the fields are validated, unless it passed in between |
| `ProductsTreatedAlike` | `Spec => []ProductsAgree` | both transforms reduce to the same function of the four fields |

*Only model-checked:* `PendingIsSettled` and `RefreshEnds`: liveness under fairness is outside
what TLAPS can do. What they rest on is proved: a request that waits has a call under way that its tab expects (`FlightsAreReal`
and `IdleIsUnheard` in `CmsTypeOK`), and an order that is pending is one the query of a pass finds (`PendingIsFound`).
The findings are counterexamples and need no proof.

## 6. Plan

The order path came first because a mistake there costs a customer money or cover; then the sessions of
admins, the partners' guard, and the parts that stand apart (start times, lists, certificates). All of these are
modelled, checked and proved as sections 2, 3 and 5 say.

Left:

- `OrderIntake`: the product of a request, so that the answer of a motorbike request that meets a car order can be
  stated as a property of its own. The order itself is covered (`SameKeySameOrder`, `AtMostOncePerKey`).

Not modelled, and why:

- the CMS pages other than the two lists: forms and tables that keep no state beyond one view;
- the stateless proxies (quotes, catalog), health and bootstrap: no state beyond one call;
- the audit log: append-only; its failures appear as a handler that stops;
- `src/admin/admin.controller.ts`: not registered in any module.
