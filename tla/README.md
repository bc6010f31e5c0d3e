# GhostKey in TLA+

TLA+ specifications of GhostKey (this repository): a server in Rust that
authenticates users, keeps their smart accounts and session keys and routes
signed ERC-4337 user operations ("intents") to a bundler; a TypeScript SDK with
React hooks; a reference application built on them; and a dashboard, a server and
a page, that shows and streams what the agents and the server log.

Each module models the code it names line by line of its *control*: every
state change, guard, early return and error path, in the order of the code.
`PROJECT.json` maps each definition to its source lines.

## Inventory

| Component | State it keeps | Operations | Interacts through | What is hard | What makes it correct |
|---|---|---|---|---|---|
| Intent pipeline (`routes/intent.rs`, `chain.rs`) | `intents` rows; a background task per intent | `execute` (INSERT, spawn), `submit_to_bundler` (sponsor, send, mark, poll, settle), `update_intent_status` | rows read by `status`; JSON-RPC to paymaster and bundler | crash between awaits, dropped handlers, lost UPDATEs and answers, give-up while the operation lives on | rows tell the truth about bundler and chain, change as promised, get settled, nothing sent twice |
| Rate limiter (`middleware/rate_limit.rs`) | a deque of stamps per key | `check` | called by `login`, `wallet_nonce`, `execute` from any worker thread | stamp read before the lock; boundary of the window | at most 10 per 60 s and key; no one denied without cause |
| Authentication (`routes/auth.rs`, `auth_jwt.rs`, `middleware/auth_extractor.rs`) | `users`, `siwe_nonces`, `token_denylist`; stateless tokens | `login`, `verify_wallet_login`, `wallet_nonce`, `refresh`, `logout`, `AuthUser` | the extractor runs first in every authenticated route | racing first logins, replayed messages, logout against requests in flight, second resolution | one user per credential, a nonce spent once, logout final |
| Intent admission (`execute`'s checks, `chain_for`) | reads `sessions`, `accounts` | expiry, target, value, calldata, owner, chain | precedes the pipeline's INSERT | checks spread over several awaits | every row within its session's scope, dispatched to its account's chain |
| Account and session registry (`routes/account.rs`, `routes/session_key.rs`) | `accounts`, `sessions` | create (idempotent), fetch, issue | read by admission | racing creates; u64 to i64 in the expiry | one account per user and chain, SPEC-013 |
| Recovery (`routes/recovery.rs`) | `recovery` rows | init | none | none: one INSERT nobody reads | - |
| Activity log and live stream (`activity.rs`, `dashboard/server.js`) | `ACTIVITY.log`, `lastLogSize`, SSE clients, document sizes | `emit`, `appendActivity`, `broadcastNewEntries`, `handleDocChange` | file appended by several processes | unread lines skipped, lines sent twice, bytes against characters | every line reaches each connected client once |
| CI poller (`dashboard/server.js`) | `seenRunIds` | `pollCIRuns` | writes the activity log | run seen before it completes; overlapping polls | each completed run logged once |
| SDK hooks (`sdk/src/hooks`, `client.ts`) | the client's token; React state per hook | `login`, `logout`, `connect`, `createAccount`, `issueSessionKey`, `registerSessionKeyOnChain`, `initiateRecovery`, `sendIntent`, `reset`, ... | one token for all hooks; the server's routes | calls that overlap, answers that arrive after a logout or a reset, a deadline equal to the server's | what is shown is true and never of work that is over; no token outlives what is shown of it; calls return |
| UserOperation building (`sdk/src/userop.ts`, `crypto.ts`) | none of its own; the account's nonce at the EntryPoint | `buildUserOperation`: read the nonce, sponsor, hash, sign | called by `sendIntentWithSessionKey` and by scripts; EntryPoint and bundler external | a nonce that is read long before the operation is mined; keys in two textual forms | a nonce read after an operation was mined is a later one; a signed operation whose nonce is used up was overtaken |
| Reference application (`example/src/App.tsx`) | the hooks' state and the page's own private key | log in, create the account, issue a key, send | one hook of each kind; UserOperation building | steps gated by the state of earlier steps, which a logout or another user changes meanwhile | session, account and key fit together; every busy button comes back |
| Dashboard client (`dashboard/src/App.tsx`), and the endpoints behind it (`server.js`) | per mounted panel: what is shown, selected, loading, typed | `setActiveTab`, auto-refresh, `load`, `selectAgent`, `loadTable`, `runQuery`, `handleSend`, `connectSSE`, `postEntry`, `mergePr`, ... | HTTP and the event stream of the dashboard's server; GitHub, documents, database, `INBOX.md` behind it | requests that cross, fail or are refused; stale lists behind a button; read-modify-write of a file; timers that outlive their purpose | what is shown, awaited, said to be fine, filed or merged is so, or the named cause has occurred |
| SDK primitives (`siwe.ts`, `kernel-address.ts`, `session-registration.ts`) | none | format, derive, encode | external formats | none for a state machine | agreement with the formats |
| Configuration, database, plumbing | none | parse, migrate, map errors | - | - | - |
| Story application (`story/`) | a scroll position | none that others see | - | - | - |

Vendored and generated code (`dashboard/.vite`), documents, tests and assets
are no components.

## Modules

| Module | Models | Proofs |
|---|---|---|
| `IntentLifecycle` | the promise to a client that polls: how a row may change | implemented by `IntentPipeline` |
| `IntentPipeline` | `execute`'s INSERT and spawn, `submit_to_bundler`, restarts; bundler and chain external | `IntentPipelineProofs` |
| `RateLimiter` | `RateLimiter::check`, racing threads, the clock | `RateLimiterProofs` |
| `AuthPromise` | the promise to the clients of login, refresh and logout: as if one request were done after the other | implemented by `Auth` |
| `Auth` | login, nonces, tokens, denylist | `AuthProofs` |
| `Registry` | accounts and session keys, the 64-bit expiry | in `IntentServiceProofs` |
| `IntentAdmission` | `execute`'s checks on top of `Registry` | in `IntentServiceProofs` |
| `IntentService` | `IntentAdmission` and `IntentPipeline` as one server: from the checks to the chain | `IntentServiceProofs` |
| `ActivityStream` | the activity log, its writers, the offset, SSE clients | `StreamProofs` |
| `CiPoller` | `pollCIRuns` on top of `ActivityStream` | `StreamProofs` |
| `SdkClient` | the shared client: its token, and the calls under way | in `SdkProofs` |
| `SdkLogin` | `useLogin`, `useWalletLogin` | in `SdkProofs` |
| `SdkResources` | `useAccount`, `useSessionKey`, `useRecovery` | in `SdkProofs` |
| `SdkSendIntent` | `useSendIntent`, over the rows `IntentLifecycle` promises | in `SdkProofs` |
| `Sdk` | a page with all of them | in `SdkProofs` |
| `EndToEnd` | `Sdk` and `IntentPipeline` together, with the requests between them | `SdkProofs` |
| `UserOps` | `buildUserOperation`, request by request, for one account | in `ReferenceAppProofs` |
| `ReferenceApp` | the reference application's page on top of `UserOps`, with scripts beside it | `ReferenceAppProofs` |
| `DashFeeds` | the twenty cards and lists that ask for a document or a list and show it | in `DashboardProofs` |
| `DashDatabase` | the database browser and `/api/db` | in `DashboardProofs` |
| `DashMemo` | the memo form, the inbox, `POST /api/memo` on `INBOX.md` | in `DashboardProofs` |
| `DashActivity` | the activity tab: loads, `EventSource`, reconnection, composer; the server's watcher | in `DashboardProofs` |
| `DashPulls` | the open pull requests, their checks and the merge button | in `DashboardProofs` |
| `Dashboard` | the page: twelve tabs over the five modules before, and auto-refresh | `DashboardProofs` |
| `MC*` | small instances for TLC | |

### IntentPipeline

| Variable | In the code |
|---|---|
| `call[i]` | where the future of `execute` is: before or at its checks, at the INSERT, resumed, answered, dropped |
| `row[i]` | the row's `status`, `tx_hash`, `block_number`, `reason` |
| `task[i]` | the program counter of `submit_to_bundler`, its loop counter, and the row its last `update_intent_status` will write |
| `wire[i]` | the `eth_sendUserOperation` request and the bundler's verdict |
| `op[o]` | what the bundler and the chain know of an operation |
| `mishap[i]` | history: which faults struck the intent |

Every `.await` is a boundary between two actions. The answer of a service is
one action (`SendOk`, `PollNull`, ...), the UPDATE that records it a later one
(`MarkSubmitted`, `Settle`), so the world may change in between. `PollNull` is
the JSON-RPC answer `"result": null`, which `get_operation_receipt` returns as
`Some(Null)`; `PollNone` is an answer without a `result`; `PollErr` a transport
error, which leaves the loop. An UPDATE may fail, and the code does not notice.
`Restart` loses all tasks and handlers and keeps the database; of the calls at
their checks it takes some, those that were made before it, and leaves the others to
come after it.

Two calls may carry the same operation, or two of one account nonce; which is
chosen in `Init` and covers both. The bundler may take, refuse, evict or get an
operation mined, with success or reverted.

### RateLimiter

`log[k]` holds every stamp ever pushed for key `k` and `head[k]` how many were
popped: the deque is the rest. Keeping the popped part makes "any Limit + 1
successive admissions" expressible. `Stamp` is `Instant::now()`, `Check` the
critical section under the DashMap entry's lock. Rust's lock gives no bound on
the wait; `MaxWait` bounds how far the clock may move past a waiting thread's
stamp, and appears in the properties as the slack it causes. With `MaxWait = 0`
they are the exact sliding window.

### Auth

A call of the server is a record that says which statement it sends next.
Tokens are their claims, `[sub, iat]`: `exp` is `iat + Ttl`. The clock is in
seconds, as the claims are. A wallet login reads the clock before its DELETE is
sent, as the code does. `refresh` has no await and is one step; it looks at
neither the denylist nor `AuthUser`, which is why `RevokedStaysOut` speaks of
the routes behind `AuthUser`. `issued`, `logins`, `spent`, `drawn` and `revoked`
are history. The verdict on a SIWE message is a choice.

`AuthPromise` knows the history only: what clients were answered. Its steps are whole
requests, it remembers who signed in as whom and when, and it has neither tables nor restarts.
`PromiseKept` says that `Auth` implements it: a first login that loses the race for
its credential, or whose process dies after the INSERT, never shows in an answer.

### Registry and IntentAdmission

A call of `create`, `issue` or `execute` has a fixed body (`createBody`,
`issueBody`, `execBody`) and a position; rows are never changed or deleted, so
`accounts`, `sessions` and `intents` are the sets of the calls that inserted
them, and a row's columns are found in its call. `told` is the account id a
create was answered with. `issue[s]` keeps the clock that was read and the sum
that went into `expires_at`. `exec[e]` keeps what the handler has read: the time
of its expiry check, the account's chain, and the adapter it picked.

`Half` is 2^63: `Signed` is the cast of a `u64` to `i64` and the wrapping sum of a
release build; in a debug build that sum panics, which is `EndIssue`.
`Configured` are the chains with an adapter, `Base` the one `chain_for` falls
back to. Calls may end anywhere (`EndCreate`, `EndIssue`, `Refuse`, `Drop`).

`IntentPipeline` takes `execute`'s checks for a choice. `IntentService` puts both
together: its variables are those of `IntentAdmission` and those of
`IntentPipeline`, except for `call`, which `HandlerState` makes of the positions here
(`session`, `owner` and `chain` are `checking` there, `expired` is `refused`). A step
of the handler is one of both (`Inserts`, `Spawns`, `Leaves`) or of the checks alone;
the task, the bundler and the chain move in `Background`. `Restart` ends every call of
create, issue and execute that is past its first statement, and every task, and keeps
the tables; calls at their first statement are those that come later.
`PipelineHolds` is the refinement of `IntentPipeline`, and `OnlyAuthorised` what neither module can
say alone: what the bundler has of an operation it has from a call within its
session's scope and lifetime. The operation is opaque to the server: nothing compares
the call that it signs with the target and the value that were checked.

### ActivityStream and CiPoller

| Variable | In the code |
|---|---|
| `file` | `ACTIVITY.log`: entries, named by who wrote them, and newlines |
| `writing` | the backend stands between the two writes of `writeln!` |
| `lastLogSize`, `sseClients`, `docSizes`, `seenRunIds` | the dashboard's globals |
| `docLen` | the documents' lengths in characters; at a start `docSizes` notes their sizes in bytes, which may be more (`SizesInBytes`) |
| `since`, `got`, `aligned`, `shown` | history: when a client connected, how often each position was sent to it, whether the offset was ever moved past units it did not stand for, and what polls were told |
| `github`, `poll`, `looping` | a run's status, calls of `pollCIRuns`, the one whose loop runs |

An entry is one character and a wide one (it holds a character beyond ASCII)
two bytes. Lengths in bytes and characters therefore differ by the number of
wide entries, and an offset that ran ahead skips entries whole, where the
program cuts them and drops the rest as malformed. Lines of CI runs are wide:
their detail has dashes. The dashboard is one thread: its callbacks are single
steps, except for the loop of `pollCIRuns`, which writes several lines and which
the other processes' writes fall between.

### Sdk

| Variable | In the code |
|---|---|
| `token` | `GhostKeyClient.token`: whose it is |
| `calls[c]` | a call of an asynchronous function, the hook it belongs to, and what it awaits; `user` is whom a login is for, or whose token the request under way carries |
| `loginStatus`, `userId`, `loginError` | the state of each `useLogin`, those inside a `useWalletLogin` among them |
| `address`, `connectError` | the state of each `useWalletLogin` |
| `held`, `loading`, `resourceError` | `useAccount`, `useSessionKey`, `useRecovery`: whether the record is there, the flag, the error |
| `intentStatus`, `txHash`, `sendError` | the state of `useSendIntent` |
| `elapsed[c]`, `returned[c]` | the time of a send's `pollUntilSettled`, in intervals, and what the send resolved to |
| `record`, `owner` | the server's rows, which move as `IntentLifecycle` says, and whose they are |

The page is one thread: a step is what a function does from one await to the
next, and any other function may run between. Setters take effect when they are
called; nothing in the hooks reads state, so that React renders later changes
nothing. A poll's answer may take time, so that `PollsOn` moves `elapsed` on
within the deadline; that it falls past the deadline is `PollTimesOut`. The
server answers a poll only to the intent's owner, which a login of someone else
in between is not.

In `Sdk` the server is any that keeps the promise of `IntentLifecycle`. `EndToEnd` puts
`IntentPipeline` there: a call of the page that posts an intent is the server's call of the
same number (`handler`), `posted` are those whose POST was sent, and the server
handles nothing else. `record` is what the page can ask for of the server's rows
(`row`): a page may give up a POST which the server goes on with, and the
row is then inserted for nobody. `Beside` is what the page's steps assume of the
server: an acceptance or a refusal was answered by the handler, while a request that
fails says nothing of it. `BothHold` says that each side finds the other to be what its
own module takes it for.

### UserOps and ReferenceApp

| Variable | In the code |
|---|---|
| `op[b]` | the operation that build `b` is at: which request it awaits, the form of its key, its nonce; `saw` and `blamed` are history |
| `chainNonce` | the account's nonce at the EntryPoint |
| `authStatus`, `userId`, `account`, `accLoading`, `sessionKey`, `sessLoading`, `intentStatus` | the state of the page's four hooks |
| `privKey` | the page's own state, `sessionPrivKey` |
| `calls[c]` | a request of the page and what its closure holds |
| `keys`, `overlapped` | the keys generated so far; history: two issues were under way at once |

A build is two requests (`fetchNonce`, `sponsorUserOperation`), each of which may
fail, and one step that packs, hashes and signs. A key is kept only in the form in
which it is written (`toHex` of `crypto.ts` writes no prefix, viem wants one). The
buttons' `disabled` and the steps that are shown are the guards of the page's
actions. `SdkClient` and its sisters model the hooks for any number of instances and
requests; `ReferenceApp` has one of each, so that it is short enough to follow
key, account and user through all four.

### Dashboard

A panel that is unmounted loses its state, and panels share none: a state of
`Dashboard` follows one panel from its mount to its unmount, and the others are off.
A tab is any of its panels, so that all are covered.

| Variable | In the code |
|---|---|
| `tab` | `activeTab` |
| `feed`, `src` | one of the panels of `DashFeeds`: what is selected, shown and loading, its requests; history: the states its source has had since the mount |
| `db`, `reads`, `queries` | `DatabasePanel`, its table reads and queries |
| `memo`, `posts`, `loads`, `file` | `MemoCenterPanel`, its posts and loads; `INBOX.md` and what the endpoint holds of it |
| `act`, `gets`, `stream` | `ActivityPanel`, its loads; the log, `offset` and `astray` (where `lastLogSize` is, in lines, and whether bytes have moved it past them), and what the connection still holds |
| `pr`, `panel`, `lists`, `merges` | one pull request at GitHub; `PRPanel`, its loads and its merge requests |

A request is sent, read by its server, and answered, in three steps, and may fail
before the last; requests of one panel overtake each other. Of a document or list only
what the cards tell apart is kept (`Classes`), and a card's function says what is
rendered of it (`Card`). An answer without data (GitHub's refusal, `{error}`, a
file that is not there) is `Refused`. `StrictMode` runs the effects of a mount twice
in development: `FeedMount`, `MemoMount`, `ActMount` and `PullsMount` may start two loads. The
button "merge" is enabled by `canMerge` on a list and on checks read one after the
other; `POST /api/memo` reads the whole inbox and writes it back, with other
processes between. A panel that throws while it is rendered takes the page with it:
`db.status = "blank"`.

Six of the cards take an answer without data, or none, for a clear one (`Trusting`).
Two of them are green from the start: the badge of `IssuesPanel` and of
`IssuesTabPanel` is a green 0 whenever the list is empty, also while the first answer
is awaited and, in `IssuesPanel`, beside the error after a failed request; the OVERALL
line of `HealthPanel` is green whenever it tells of no gaps, as "UNKNOWN" too.
`CalmHasCause` says that no other card is green while its source has never been clear,
and that these are so only as long as no data reached them. The sentence "No open
issues" is the one that looks at the error, which stays once it is set
(`NoOpenIssues`): it is wrong only when GitHub refused.

`DashActivity` has the server's side of the stream with the ways in which it goes
wrong. What the server writes itself it sends at once and moves `lastLogSize` by bytes,
from wherever it was (`appendActivity`): an entry with a dash or an arrow leaves the
position beyond the line's end (`astray`), and of what another process writes next the
watcher then reads nothing, or the rest, which is no JSON; if lines were unread before,
they are overtaken, and the position no longer stands for them. The entry of a changed
document is sent without moving the position, so that the watcher sends it again
(`handleDocChange`). `ActivityStream` follows positions unit by unit and counts what each
client was sent; here a position is a number of lines and, astray, a choice, lines are
whole, and the question is what of it shows in the list. `StreamExact` lists what may
disturb the list; each of its exceptions is needed, TLC finds a counterexample
without it. An answer of `[]`, which the server gives when it cannot read the log and
the page takes any answer for that is no list, is one of them.

## Runs

| Run | Shows | Bounds |
|---|---|---|
| `intent_pipeline` | invariants, refinement of `IntentLifecycle`, at-most-once sending, settlement | 2 intents, 2 operations of one nonce, 2 polls; intents interact only through operations, so two of each give every race; 2 polls distinguish first, middle and last |
| `confirmed_unmined` | violated: `ConfirmedIsMined` | same |
| `rate_limiter` | the limiter's properties | 3 threads (one more than Limit), 1 key (keys do not interact), Limit 2, window 2, wait 1, clock to 6: three windows |
| `auth` | nonces, revocation, and that the answers are those of `AuthPromise` (in which users do not split) | 2 calls at a time, unboundedly many in sequence; an e-mail address and a wallet; 2 user ids, 1 nonce; clock to 2 with tokens and nonces of 1 s, so both expire; a fifth token is checked and nothing after it (`FourTokens`), since four give two users a login and a refresh each. Calls and user ids are symmetric: no property names one |
| `admission` (`IntentService`) | one account, scope, lifetime, chain, that nothing but authorised calls reaches the bundler, and that the server with its checks is the one `IntentPipeline` describes | 2 creates, 1 issue, 1 execute, so the two that race are there and no two of the others interact (an instance of two executes of one operation passes too); 2 users, 2 chains of which 1 is configured; 4-bit integers (`Half` = 8) with lifetimes of 0, one that overflows a second later (7) and one that is negative as an `i64` (15); clock to 2; 1 operation, 1 poll; restarts at will. Creates and users are symmetric. Every call happens once, so the system ends: no deadlock check |
| `selectors_ignored` | violated: `SelectorKept` | same, with 2 selectors |
| `activity_stream` | how often and whether lines reach a client | 6 units: three lines, or spoilt ones; 1 client (clients do not interact), 1 document; the backend's lines wide, so that restarts misalign, the dashboard's not, so that own appends need not |
| `ci_poller` | a run is logged once and when completed | 2 polls, 1 run, 6 units: a spoilt line of the run, a second one, and another. Polls are symmetric |
| `end_to_end` | what the hooks show of the server and of the chain, the token, and that calls return | 2 calls: each shared piece of state is raced for by two; 2 users, 1 `useLogin`, 1 `useWalletLogin`, 2 intervals, so that a send polls, sleeps again and times out. Logouts and resets are not calls and unbounded. One of the two calls is the login that a send needs: 1 operation, and 1 poll of the server's, which is enough for it to settle before, between and after the page's. `BothHold` passes on these bounds too, in more time than a run may take, and an instance of `Sdk` alone with 3 calls passes the invariants (5 million states); the theorems take any number |
| `dashboard` | what the page shows, awaits, keeps and merges | 2 requests of a kind, so that each pair of crossings occurs; 2 labels or agents, 2 tables of 1 and 2 pages (so a page index can be beyond the last one), 2 queries; 2 drafts and 2 posts, 1 memo of another process; 3 entries in a list that keeps 2, so that one is cut off; 1 broken connection; 2 clicks on merge, 1 load and 1 change of the pull request. A feed's source has 2 states. Requests are symmetric, except for the pull requests'; therefore no liveness is checked here |
| `reference_app` | session, account, key and nonces fit together, and buttons come back | 2 users, 2 requests at a time, 2 session keys, 1 send of the page and 2 scripts: three builds, so that two can clash, overlapping or one after the other, before and after a third is mined |
| `step4_unreachable` | violated: `SendFailsForCause` | same |

A passing run and the theorems of its modules state the same properties, except for
liveness and except where the table of theorems in `PROJECT.json` names none.

### What the violated runs say

* `confirmed_unmined`: the bundler answers `"result": null` until an operation
  is in a block; the server takes the first such answer for a receipt and
  confirms the intent, without a block number. `sdk/tests/e2e.bundler.test.ts`
  treats the same answer as "not yet".
* `selectors_ignored`: `execute` looks at targets and value only; the security
  model says that the calldata's prefix is validated too.
* `step4_unreachable`: the page hands the key that it has generated, written
  without `0x`, to viem, which drops its first two characters and throws. Its
  README says that the page shows the full flow, up to the intent.

### Known divergences

Other disagreements are in the models, without a run of their own.

* `appendActivity` adds its own line's bytes to `lastLogSize` while lines before it
  are unread, and counts bytes where the reader counts characters (`server.js:141`).
  The comment at `server.js:419` says that the watcher picks the backend's lines
  up: `LinesPickedUp` does not hold, `AlignedDelivers` is what does.
* A CI run is marked as seen before its status is looked at (`server.js:523`). The
  comment at `server.js:508` says that each newly completed run gets an entry:
  `RunReported` does not hold.
* `useWalletLogin` has an instance of `useLogin` of its own (`useWalletLogin.ts:33`), so
  a logout in another hook clears the shared token and leaves the wallet's hook
  'authenticated'. `docs/sdk/hooks.md:9` says that all hooks share state:
  `AuthenticatedHasToken` holds only of pages with one login hook (`OneLoginHook`).
* `loadTable` puts whatever `/api/db` answers on display; an `{error}`
  has no rows, and rendering it (`App.tsx:1298`) throws: `Show` leads to the blank page.
* `handleDocChange` sends its entry and leaves `lastLogSize` (`server.js:450`), so that the
  watcher sends it again; and `appendActivity` leaves the position inside or beyond a line
  that another process writes next, which is then not sent. In the page an entry is
  shown twice or is missing until the next load: `StreamExact` excepts both.
* The panels tell of a failed or refused request in one place and of "nothing open" in
  another: the badge of `IssuesPanel` is a green 0 beside its error (`App.tsx:425`), the
  OVERALL line a green "UNKNOWN" (`App.tsx:117`).
* `POST /api/memo` writes the whole inbox back (`server.js:65-69`), and what
  another process filed since the read is gone. `docs/agents/meta/DASHBOARD.md:141`
  calls the file append-only: `MemosAreKept` excepts `file.raced`.
* A receipt with `success: false` confirms the intent (`PollReceipt` takes any mined
  operation), where SPEC-033 says failed. The HTTP client has no timeout, so that a
  service that never answers keeps an intent open, where the security model says
  that it is marked failed.
* The hook reference has `logout()` call `POST /auth/logout`; `logout` changes nothing
  but the page. Two creates of one account that race end with `InsertAccount`'s
  `conflict`, an error, where SPEC-013 promises the existing account. Tokens differ
  only in their claims, so two logins within a second share one, where SPEC-002 asks
  for a new one.

## Fairness

`ServerFairness` is weak fairness of each handler's and each task's own next
step: tokio polls every future that was woken and the database answers every
statement. Nothing is fair about clients, disconnects, restarts, eviction or
mining. `ServicesAnswer` is weak fairness of some answer of paymaster and
bundler, error or not. It is an assumption about those services which the code
does not enforce, and `AcceptedSettles` fails without it.
In the stream the one fair action is `broadcastNewEntries`: `fs.watch` calls back
after the file has changed. Clients, writers and restarts are not fair.
In `Sdk` each call's next step is fair: timers fire, and the browser ends a request
that nobody answers. That is not so of a wallet's prompts, which is why
`CallsReturn` leaves `connect` out, nor of the server's progress with an intent,
which `CallsReturn` does not need: `EndToEnd` takes the page's fairness over
(`Progress(c) /\ Beside`) and assumes none of the server, whose unanswered requests fail. In `ReferenceApp` each request of the page and each build of
a send goes on, for the same reason; clicks, logouts, scripts and the bundler are not
fair. `ButtonsComeBack` needs no more: the flags are cleared on every way out of
the functions that set them. The dashboard's page is checked for safety; that its flags
are not left up for good is there as far as an invariant can say it (`WaitingIsTrue`: a
flag that is up has a request, a connection or a timer under way). The composer's button
is the exception: after a rejected `fetch` it stays as it is (`PostFails`). The other modules have safety properties only.

## Proofs

All theorems hold for every value of the constants under the named
assumptions: `MaxPollsAssumption` (at least one poll), `LimitAssumption`,
`TimeAssumption` (naturals), `NoUserAssumption` (no user is the null value),
`WordAssumption` (the clock and `ttl_seconds` fit their integers),
`ScopeAssumption` (the shape of a scope), `BaseAssumption` (Base is configured),
`StreamAssumption` (bounds are naturals, runs are no other writer's name),
`ServiceAssumption` and `EndToEndAssumption` (at least one poll, as in the pipeline),
`ClientAssumption` and `PollAssumption` (wallet hooks are login hooks, null values
are no users or hooks, at least one interval), `AppAssumption` (a build is the page's or
a script's, not both) and `DashboardAssumption` (bounds are naturals, null values are no
keys or tables, each table has a page, the list keeps at least one entry).

* `IntentPipelineProofs`. `IInv` says what the handler's position implies for
  the row (`CallInv`), the task's position for the row (`TaskInv`), the wire for
  both (`WireInv`), and that a block number, already written or still in the
  task's hands, is that of a mined operation, of which each nonce has one
  (`BlockInv`). The properties alone are not inductive: a hash on a row is true
  because the task had it, and a block because the receipt it holds stays true.
  From `IInv`: `TypeOK`, `HashMeansTaken`, `BlockMeansMined`,
  `OneWinnerPerNonce`, `StuckHasCause`, `NoSilentSubmission`, the action property
  `SentAtMostOnce`, and the refinement `Spec => Lifecycle!Spec`.
* `RateLimiterProofs`. Waiting threads' stamps lag the clock by `MaxWait` at
  most (`StampInv`), so pushes are in order up to `MaxWait` (`OrderInv`), and
  what was popped is more than a window before the clock (`PoppedInv`). The
  stamp `Limit` places before a new one was popped, hence `WindowKept`; the front
  of a full deque is in the window and everything behind it is not much older,
  hence `DeniedOnlyWhenFull`.
* `AuthProofs`. `UserInv` ties users, calls about to answer and answers given
  together; `NonceInv` says a nonce with a row is unspent and has one row;
  `RevokeInv` that answered logouts are in the denylist, which nothing leaves. From
  `IInv` also the refinement of `AuthPromise`, action by action: an INSERT is a stutter
  there, the answer is the login. `ProvenanceTheorem` is proved of the promise alone and
  carried over: each token was answered to a login of its user, or to a refresh of an
  older one that had not expired, and so on back to a login.
* `IntentServiceProofs`. `RowInv` says what the tables say of each other (one
  account per user and chain, a session's account exists and is its user's, its
  expiry is the computed one), `ExecInv` what an `execute` that got so far has
  found out. Rows never change, so what was read stays true, also over a restart. The arithmetic is
  two lemmas: a wrapped expiry is never later than the lifetime asked for, and
  it is exact when that fits. Every step of `IntentService` is one of `IntentPipeline`
  or none (`ServiceMaps`), so that the pipeline's inductive invariant and its theorems
  carry over from `IntentPipelineProofs` by instance, without a second proof. `TableInv` ties
  the table to the pipeline's rows and `SourceInv` what the bundler has to a request; with
  both sides' invariants they are `ServiceInv`, from which `OnlyAuthorised` follows. From the
  parts: `OneAccount`, `ScopeKept`, `LifetimeKept`, `ExpiredIsDue`, `BookedOnItsChain`, and all
  promises of the pipeline for the server with its checks (`ServiceKeepsPromises`).
* `StreamProofs`, for `ActivityStream`. `SentInv`: what is behind the offset was not sent by
  the watcher, hence `SentBounded`. `AlignedInv`: an aligned offset is within the
  file, so that a client that connects has nothing before the offset to miss,
  hence `AlignedDelivers`. An entry that can be read afterwards could be read
  before (`StaysReadable`). The step theorem also covers the poller's appends.
  For `CiPoller`: a run with a readable line has been seen (`SeenInv`), before
  and after a restart, so the loop logs none twice; what a poll was told is
  completed has been (`ToldInv`). Every step of the composition is one of the
  stream or none, so the stream's invariant carries over.
* `SdkProofs`. `NothingLeftHanging` is inductive only with what a call's position
  says of its hook and user (`CallsConsistent`); a step that ends a call must clear
  the flag that only this call may have justified, a step that goes on keeps it
  justified, and one of another hook does not touch either. `TimeIsLeft` keeps the
  clock of a send within its budget. `ShownIsTrue` rests on the server's rows: a
  terminal row stays what it is and a hash stays on it, so what was shown once
  stays true. `NoHiddenToken` holds because a hook is told of a user whenever the
  token is set, and `logout` clears the token whichever hook it is called of.
  `OneLoginHook` is `AuthenticatedHasToken` for pages with one login hook.
  For `EndToEnd`, `Coupled` says what page and server know of each other: a row that the
  page can ask for is the server's, and what was not posted is not handled. With it each
  step of the server is one of `Sdk`'s server, a submission or a settlement or nothing
  the page can see (`ServerMaps`, on top of `LifecycleStep` of `IntentPipelineProofs`),
  and each step of the page leaves the pipeline alone: `BothTheorem`. All theorems of
  both sides then hold of the two together; from one of each, `ShownOnChain` and `OneSendPerNonce`.

* `ReferenceAppProofs`. `OpsInv`: a nonce that was read is at most the chain's, a mined
  operation's is below it, each nonce below it is a mined operation's, and what a build
  saw mined has a smaller nonce than its own; hence `NonceClashHasCause`: whoever used up
  a signed operation's nonce was not yet mined when that nonce was read. The two
  builds need not overlap: that the first operation is not mined yet is enough. `CallsInv` and `KeysInv` say that the account a page
  shows does not change once there is one, that the key under way belongs to it, and
  that a key in `privKey` that is not the session's can only stem from issues that
  overlapped; hence `SessionIsThePages`. `SendsInv`: one send of the page builds at a time.
* `DashboardProofs`. One invariant per panel, and `PageInv`, their conjunction: a
  step of one panel leaves the others' variables alone, so that each is preserved by its
  own steps only. `AsksInv` and `ReadsInv` say of requests under way that they ask for
  what is selected unless two have crossed. `FormInv`, `FileInv` and `KeptInv` follow a draft
  through form, post and inbox: while a post is under way the form is empty, has its
  draft, or has one that was typed meanwhile, and what the endpoint holds of the file lacks only what others
  filed since. `PullsFit` and `MergesFit` carry "was fit to merge, or has changed
  since" from the reads to the merge. `SettledInv` says how a card
  that waits for nothing came to have no data, hence `CalmHasCause`. `CalmInv` says that a
  load that nothing disturbs is answered with the log as it is, and that the position of
  a list that is exact is either a line's end or, astray, not before the log's; `StreamExact`
  then follows through lemmas about sequences that are appended to, reversed and cut
  (`Pushed`, `Popped`).

Only model-checked: `AcceptedSettles`, `AlignedFollows`, `CallsReturn` and
`ButtonsComeBack` (liveness) and the violated promises.

## Not modelled

The bundler's validation of operations, signatures and contents of operations,
formats and encodings, HTTP details, CORS, configuration, and the migrations'
two dialects. Of the SDK: how addresses, operations and messages are computed, a
change of the provider's config (which makes a new client without a token), and
`GhostKeyClient.refresh`, which no hook calls. Database errors are modelled where the code reacts to or ignores
them; a statement that answers an error is taken to have had no effect, so that an INSERT
of `execute` that commits and then fails (a row without a task) is not in `Refuse`. The process's memory, pool size and timeouts of the database are not.
Reads that change nothing (`fetch`, `status`, `GET /api/activity`) and the
recovery insert are left out, and so is the time `issue` tells the client when
its sum is no date. For the stream, `POST /api/memo` is an edit of the inbox and an
append, two steps. What the entries of the log say, beyond who wrote them and
whether they are ASCII, is not modelled, nor a write of one entry that another
process sees half of.

Of the dashboard's page: the contents of documents and the parsers' text work, of
which only what the cards tell apart is kept; text filters, sorting, CSV quoting, folding
and the detail window; what the activity's views count; layout. Of a pull request the server
asks GitHub for 50 check runs (`server.js:248`), and `GitHubChecks` takes them for all: with
more, the button is offered while one that was not seen fails. A merge whose answer is lost is
as a refusal to the page (`MergeAnswered`), but the page does not give a request up before
GitHub has decided. Of `server.js`: the static files. Of
`session-registration.ts` and `kernel-address.ts`: calldata and addresses, which have no
state (the registration is then one `buildUserOperation`). The story application is
scripted on mocked data, and no other part depends on it.

## Plan

1. Done: the server's pipeline, limiter, authentication, registry and admission, the
   log, stream and poller, the SDK's hooks, the building of operations, the reference
   application and the dashboard's page, all with proofs.
2. Done: `IntentAdmission` and `IntentPipeline` together (`IntentService`), the page and
   the pipeline together (`EndToEnd`), and the promise of `Auth`, all with proofs.
3. `Provider`: `Sdk` with a client that a change of the config replaces while calls
   are under way, and what then is left of the properties.
4. `DashActivity` on top of `ActivityStream`: which lines a page has after a
   reconnection when the offset is not aligned.
5. The SDK's pure functions, as operators checked against reference definitions:
   the packing of gas fields and nonces in `userop.ts`, the validity fields of
   `session-registration.ts`; the server's start-up in `config.rs`.
