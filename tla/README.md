# Gotra, specified

This directory holds TLA+ specifications of Gotra, the tunnel service in this
repository, with the TLC runs that model-check them and the TLAPS proofs of the
theorems about them.  Gotra gives a developer's local HTTP application a public
address: an *agent* on the developer's machine keeps a WebSocket to a
*gateway*, which forwards public requests over it and captures the exchanges;
an *API* serves accounts, projects, tunnels, captured requests, plans and AI
analyses to a web dashboard.

The specifications are written from the code.  `PROJECT.json` maps every
definition that models code to its lines, and lists runs, mutants, hazards,
findings and theorems.  Paths below are relative to `src/services/internal/`
unless they start with `src/`.

Contents: [the system](#1-the-system) · [the modules](#2-the-modules) ·
[the runs](#3-the-runs) · [the proofs](#4-the-proofs) ·
[findings](#5-findings) · [what is not modelled](#6-what-is-not-modelled) ·
[the plan](#7-the-plan) · [how to run it](#8-how-to-run-it)


## 1. The system

### Components

| Component | Code | State it keeps | Operations |
|---|---|---|---|
| Tunnel connection | `gateway/registry.go` (AgentConn), `gateway/server.go`, `agent/agent.go` | per connection: `pending` map (correlation id → response channel), `writeMu`, `closed`; the WebSocket in between | `handlePublic`, `serveLocally`, `forward`, `deliver`, `readLoop`, `capture`, `close`; the agent's read loop and `handleRequest` |
| Tunnel registry and routes | `gateway/registry.go` (Registry), `gateway/server.go`, `tunnels/repository.go` | `bySub` map of each instance; Redis keys `gw:route:{sub}` with a TTL; the status of the `tunnels` rows | `register`, `add`, `remove`, `refreshLoop`, `readLoop`'s deferred calls, `SetStatus` |
| Cluster forwarding | `gateway/registry.go`, `gateway/server.go` | `Registry.pending` of each instance; Redis pub/sub channels | `forwardRemote`, `deliverReply`, `runCluster`, `handleClusterRequest` |
| Agent client | `agent/agent.go`, `src/services/cmd/agent` | backoff, the connection, its write mutex, its goroutines | `Run`, `connectAndServe`, `heartbeat`, `handleRequest`, the watcher |
| Tunnel API and billing quota | `tunnels/`, `billing/` | rows of `tunnels`, `subscriptions` | `Create`, `Delete`, `CheckTunnelQuota`, `ChangePlan`, Stripe checkout and `ApplyWebhook` |
| Accounts and sessions | `auth/` | rows of `users`, `user_auth_providers`, `sessions`, `workspaces`; OAuth states in Redis; a discovered OIDC document | `Register`, `Login`, `AuthenticateOAuth`, `Refresh`, `Logout`, verification, password reset |
| Request capture and replay | `requests/` | rows of `requests`, `responses`, `replays` | `SaveCapture`, `List`, `Get`, `Replay` |
| Projects | `projects/` | rows of `projects`, `project_members` | `Create`, `Delete`, reads behind a role check |
| AI debugging | `ai/` | rows of `ai_analyses`, `ai_usage`, `ai_incidents` | `AnalyzeRequest`, `ExplainLogs`, `GenerateIncident`; the provider chain |
| Analytics store | `analytics/` | a channel of 1024 events, a batch, a ClickHouse table | `Record`, `flushLoop`, `flush`, `Close`, `QuerySummary` |
| Migration runner | `migrate/` | table `schema_migrations` | `Up` |
| HTTP server, middleware, error mapping | `server/`, `src/services/pkg/middleware`, `pkg/httpx`, `utils/error` | none of its own | routing, sign-in check, error responses |
| Tokens and passwords | `src/services/pkg/security` | none | JWT, bcrypt, random tokens |
| Configuration, clients, commands | `config/`, `src/services/pkg/{cache,database,logger}`, `cmd/` | none | start-up and shutdown |
| Host names | `gateway/server.go`, `requests/service.go` | none | `subdomainFromHost`, public URLs, `hostFromPublicURL`, the certificate `HostPolicy` |
| Web dashboard | `src/apps/web` | the session store of each tab; the refresh cookie of the browser | `bootstrap`, sign-in, `signOut`, `apiFetch`; pages over the API |

### How they interact

* An **agent** dials the gateway, writes `REGISTER_TUNNEL`, and waits for
  `REGISTERED`.  `Server.register` checks the token and the project, mints a
  subdomain, inserts a `tunnels` row, sets it active, puts the connection into
  the `Registry` (memory, then Redis route), and writes `REGISTERED`.
* A **public request** is looked up by its subdomain in the instance's registry.
  When the connection is here, `serveLocally` calls `forward`, which writes a
  `REQUEST_FORWARD` frame and waits for the answer, a timer, or the end of the
  connection.  When it is not, the Redis route names the instance that has it,
  and `forwardRemote` publishes a `clusterRequest` to that instance, which
  answers with a `clusterResponse`.
* Answered exchanges are **captured** by a goroutine of their own: to Postgres,
  for inspection, replay and AI analysis, and to the analytics store.
* The **API** and the gateway share Postgres and Redis, never memory: an API
  call that deletes a tunnel row or a project tells no gateway.
* Each tab of the **dashboard** keeps its session in memory.  On a page load it
  exchanges the browser's refresh cookie for an access token and a new cookie
  (`bootstrap` over `Refresh`); sign-in and sign-out set and clear that same
  cookie, which all tabs share.
* **Billing** limits tunnels through `tunnels.QuotaChecker`, called by the API.
  The gateway inserts rows without it.

### What is hard, and what makes each component correct

| Component | Hard behaviour | Correct when |
|---|---|---|
| Tunnel connection | one goroutine per request, a shared mutex, answers that overtake the wait, timers racing late answers, a socket that blocks or breaks | a client gets the answer to its own request or a failure; the application runs a request at most once; every call ends; no entry leaks; what was answered, and nothing else, is captured, once |
| Registry and routes | clean-up of one connection after the registration of the next; shared keys that expire; snapshots used after an unlock; crashes; ignored errors | lookups find exactly the live connections; a stale route disappears; a live tunnel's route comes back; two owners never share a subdomain |
| Cluster forwarding | pub/sub that loses messages and accepts publications for nobody; stale routes; instances that die with calls of their own or of peers | the same promise as one gateway's; an exchange captured by one instance only |
| Agent client | several writers on one socket; reconnection; shutdown while blocked | one connection at a time, one writer at a time, a lost gateway is dialled again, stopping it ends it |
| Quota, plans, projects | check-then-insert in separate statements; a project deleted meanwhile; webhooks late, repeated, reordered | counts stay within the plan up to the number of racing calls; no plan that was not paid for; no tunnel without a project |
| Accounts and sessions | read-then-write in separate statements; two first sign-ins of one person; a double redirect; typed nil errors | one account per address, none without a way in; a state lets one callback in; an exchanged refresh token is dead |
| Host names | a name is minted in one place and taken apart in three others | what is minted leads back to its tunnel, and nothing else does |
| Dashboard session | answers to one tab's requests in any order; several tabs exchange one cookie; pages left, requests lost or cut short half-way | a tab stays as its user left it; a page load restores the session; the cookie goes bad only under a request that presented it; no page loads for ever |
| Requests, AI | several statements that fail independently; deletions between them; a fallback chain | nothing half-stored or dangling; callers told what was kept, except that an INSERT whose answer is lost is reported as failed; usage recorded for stored results only |
| Analytics | a bounded channel that drops; a close that races the last batch; batches stored in part | no event counts twice, none is lost unaccounted; a series read to its end is not behind its totals; the loop ends |
| Migrations | two runners at once, of different builds | each file applied once, in order |

`PROJECT.json` "hazards" lists what is hard to test, line by line, with the
properties that would catch it.


## 2. The modules

| Module | Models |
|---|---|
| `TunnelPromise` | abstract: what a tunnel promises to the clients of its public address |
| `TunnelForward` | one agent connection, from a request's lookup to its answer, both ends |
| `ClusterForward` | a request in a cluster of gateway instances over Redis pub/sub |
| `TunnelRegistry` | registration, clean-up, routes, refresh, crashes, rows |
| `AgentClient` | the agent's loop and the goroutines of its connections |
| `Projects` | project rows, their member, and what a role allows |
| `TunnelQuota` | plans, the quota check, tunnel rows and their projects, Stripe |
| `AppErrors` | error values, `Wrap` and the answers they are mapped to |
| `AuthAccounts` | accounts, linking, refresh tokens, OAuth states, answers |
| `WebSession` | the dashboard's tabs, their shared cookie, and the API's sessions |
| `TunnelHosts` | public URLs, Hosts and the subdomains in them, taken apart as the code does |
| `TrafficRecords` | captures, replays, AI analyses and incidents, against deletions |
| `AnalyticsStore` | the channel, the batches, the last flush, the summaries |
| `Migrate` | migration runs of several builds at once |
| `TunnelForwardProofs` | theorems about `TunnelForward` and `AgentClient`, the two ends of a connection |
| `TunnelRegistryProofs` | theorems about `TunnelRegistry`, with those about `TunnelHosts` |
| `ClusterForwardProofs`, `TunnelQuotaProofs`, `AuthAccountsProofs`, `WebSessionProofs`, `MigrateProofs` | theorems about the module of that name |
| `RecordsProofs` | theorems about `TrafficRecords` and `AnalyticsStore` |
| `MC...` | constants and symmetry for TLC; the `.cfg` files give the instances |

`TunnelForward` and `ClusterForward` both implement `TunnelPromise`
(`KeepsPromise`).  `ClusterForward` stands on `TunnelForward` (what
`serveLocally` may do with a call is the promise the latter keeps) and on
`TunnelRegistry` (a route may name any instance, right or wrong).
`TunnelQuota` is built on `Projects`, `AuthAccounts` on `AppErrors`, and
`WebSession` runs the sessions of `AuthAccounts` (`Api`, an instance in which
accounts stay as they are) behind a browser.  `AgentClient` and `AnalyticsStore`
name their specification after themselves (`AgentSpec`, `AnalyticsNext`), so that
a module of proofs can extend each together with the component beside it.

Common conventions: a goroutine is a program counter; a critical section, a
database statement or transaction, a Redis command, and one channel operation
are one step each.  *Time is abstract*: a timer may fire in any state in which
it is armed, so that properties hold for every choice of durations;
`TunnelRegistry` alone counts time, in refresh periods, because a route's TTL
and its refresh race by design.  Operators named `Bug...` are plausible wrong
versions of the definition that follows them; no specification uses them, and
each property is known to fail when one of them replaces its original.

### TunnelPromise

`asked`, `executed`, `outcome`: a request is asked, is executed by the local
application at most once (`executed` counts, and a second time is no step of
the promise), and is answered once, with its own response or a failure.
`Answer` needs an execution; `Fail` may happen to several requests at once, as
when a process dies.  A request may be executed after its client was failed.

### TunnelForward

* `pc[r]` is the goroutine of public request `r`: `idle`, `found` (looked up),
  `stored` (id minted, channel in `pending`), `writing` (holds `writeMu`),
  `written`, `waiting` (in forward's select), `done`.  `minted`, `id`,
  `pending`, `chan` are forward's correlation ids, the map and the channels of
  capacity 1; `writer` is `writeMu`.
* `reader` is the gateway's read loop with its deferred calls in their order:
  `closing` (`AgentConn.close`), `removing` (`Registry.remove`), `marking`
  (`SetStatus`).
* `down` and `up` are the two directions of the WebSocket, FIFO.  `down` has
  room for `SocketBuf` frames; a write to a full socket blocks with `writeMu`
  held, as there is no write deadline.  `peer` is the agent, which may serve,
  leave (write DISCONNECT, close) or be cut off without a word.
* `capture[r]` counts `r`'s captures: those started (`StartCapture`, with the
  answer to the client), those whose goroutine has yet to save, and the rows
  stored (`SaveCapture` stores one or, its error only logged, none).
* Left out: the contents of requests and responses; a second connection
  (`TunnelRegistry`); contention for the agent's writer (`AgentClient`).
  The agent's `http.Client` executes a request once: Go retries only idempotent
  requests on connections that broke before an answer, which the local
  application may observe as two, outside this code.

### ClusterForward

`handlePublic` on the instance the load balancer chose (`at[r]`); `ServeHere`
and `Miss` are the lookup, which may find anything; `Publish(r, i)` sends the
clusterRequest to the instance the route names; `Accept`, `Handle...`,
`Reply...` are `runCluster` and one `handleClusterRequest` goroutine per
message; `Lose` drops any message under way, `Subscribe` and `Stop` bound when
an instance listens.  `rpc` and `replies` are sets: pub/sub here may reorder,
and every id is fresh.

Captures are goroutines of the instance that has the agent: `started[r]` counts
them, `saving` has those under way, `stored[r]` the rows.  The one of an answered
exchange starts before the reply is published; it may end without a row
(`SaveCapture`), and `Stop` takes it along.  A call that failed here may have one
too: what fails in this model may be an answer of the agent's that says 502.

### TunnelRegistry

* `phase[c]` follows `Server.register` and the deferred clean-up statement by
  statement, so that those of two connections interleave anywhere.
* `bySub[i]` is instance `i`'s map, `route`/`ttl` the Redis key of a subdomain,
  `row[c]` the tunnel row.  `todo[i]` is refreshLoop's snapshot.
* `Tick` passes one refresh period (30 s): TTLs count down, tickers fire.  It
  waits for refresh rounds that are due, i.e. a round takes less than a period
  (a Redis SET per tunnel; a round that took longer than the 60 s of slack
  would let routes expire, and nothing in the code prevents that).
* `Ignoring(effect, unchanged)` is a Redis or Postgres call whose error the code
  drops; at most `MaxFaults` fail.  `Stop` is a crash or a shutdown (the code
  runs no deferred clean-up in either).  A subdomain may be minted again only
  after its row was deleted: `public_url` is UNIQUE.

### AgentClient

* `main` is where `Run`, or `connectAndServe` inside it, stands; `at[c][p]` is
  goroutine `p` of connection `c`: the handshake (`main`), the heartbeat, the
  handlers, the watcher.  All lock `writeMu` (`lock[c]`), write, and unlock.
* Goroutines of earlier connections go on: their heartbeat ends at the next
  tick, their watcher stays until the agent is stopped.
* A write needs room in the socket (`out[c] < SendBuffer`) unless the socket is
  closed on this side or gone on the other.  A gateway may stall, that is, stop
  reading without closing.  How long the agent backs off is time, and left out.

### Projects and TunnelQuota

* `member[p]` is a project's row with its owner's membership, the only one that
  any code inserts.  Deleting a project takes its tunnels with it (`ON DELETE
  CASCADE`), and a tunnel can be inserted only while its project is there.
* `ReadPlan`, `CheckCount`, `CreateTunnel` are the statements of
  `tunnels.Service.Create`; `CallFails` ends it anywhere.  `GatewayCreate` and
  `GatewayStatus` are the gateway's rows; `ChangePlan`, `StartCheckout`,
  `CompleteCheckout`, `ApplyWebhook` the ways a plan changes.
* The catalog's limits (2, 10, 50) are replaced by 1 and 2 so that they are
  reached.

### AppErrors and AuthAccounts

* An error is a value: `Nil`, a code, a sentinel's name, or the nil `*AppError`
  that is not `Nil`.  `MapError` and `WriteError` are the two ways in which
  handlers turn one into an answer, and what `errors.Is` and `errors.As` do with
  a nil pointer is a panic.
* A call is one HTTP request; `pc[k]` is its statement: `exchanging` (the
  provider is asked for a token and the profile), `matching` (address),
  `linking`, `creating` (one transaction), `issuing` (session), `revoking`
  (refresh).  `Abort` cuts any of them short.  `answer` is the answer to the
  request that ended last.
* `email`, `linked`, `workspaces` are the rows of `users`,
  `user_auth_providers` and what is provisioned with a user; `holder`,
  `parent`, `live` the sessions and which token each was exchanged for; `state`
  the OAuth states in Redis, `accepted` how many callbacks each let in.
* `Private` are the GitHub identities whose address is in GitHub's second
  answer; when that call fails the profile has no address (`ProfileEmails`).
* Password accounts are those the database already holds (`Existing`): no
  registration succeeds in this build.  Verification and reset tokens reach
  nobody either, so that `VerifyEmail` and `ResetPassword` are modelled up to
  their refusals.

### WebSession

* `store[b]` is the zustand store of tab `b`, `AuthStatus` with the user in place
  of "authenticated", or `closed` while there is no page; `started` is the ref in
  `Providers`, so that `Mount` runs `bootstrap` once a page.  `cookie` is the
  browser's refresh token.
* `request[k]` is one `fetch`: `sent` with the cookie of that moment, `answered`
  by the API, `arrived` when the browser has its headers (`Arrive` sets the
  cookie), and then heard by the page's code (`Hear` sets the store).  The two
  last are steps of their own because a page may be left, and a body lost,
  between them.
* `Serve(k)` makes the call of `AuthAccounts` for it, one statement at a time:
  `Refresh` (`Api!ReadSession`), `Rotate`, `Issue`, `Login`.  `Logout` clears the
  cookie whether or not the session was revoked, since the handler drops the
  error.  `Cut` is a statement that fails or an API that dies; `Lose` is a network
  that fails under the request or under its answer, after which the API may still
  serve it, and the browser still take its cookie.  `Load` and `ClickProvider`
  leave the page: its requests go on with nobody waiting (`Orphaned`).
* The initial state is a browser with a session from before and no tab, from
  which loads, sign-ins and sign-outs reach the others.
* `uses[t]` and `overtaken` are history, for the properties alone.  `uses[t]`
  says whether requests that presented token `t` were one, several
  (`contested`), or came to grief (`broken`), in which cases the code promises
  nothing: two tabs that present one token race for it (finding 1).
  `overtaken` has the tabs in which a sign-in was sent before `bootstrap` had
  ended, which `/login` allows: there a late bootstrap does overwrite the
  newer session, and `StaysAsLeft` exempts exactly those.

### TunnelHosts

A text (a Host, a URL, the base domain) is the sequence of its words and of the
marks `.`, `:` and `/` between them, so that the prefix and suffix tests of the
code, the cut at a slash and `net.SplitHostPort` (which fails unless there is
exactly one colon, and the Host is then taken as it is) are what they do to
sequences.  `PublicURL` is what `register` mints, `SubdomainFromHost` what a
visitor's Host leads to, `HostFromPublicURL` the Host of a replay, `HostPolicy` the
names that ACME certificates are issued for, with a suffix test of its own.  The
base domain is any text, also one with a port.  Addresses in brackets are left
out, and so is the random subdomain: that subdomains differ is
`TunnelRegistry`'s UNIQUE index.  (`newSubdomain` strips `-` and `_` from eight
random characters and would mint the empty word if there were no others; nothing
is found under that.)

### TrafficRecords

* `capture[e]` is the goroutine that saves exchange `e`: its transaction inserts
  the request, which locks the tunnel's row (`Saving`), then the response, and
  commits.  `via[e]` is the tunnel the exchange went through.
* A call is a replay, an analysis, an explanation of logs or an incident report,
  and follows its service method statement by statement: the reads that refuse
  it, the providers in their order, the row, the usage record.  A replay's
  request comes back through the gateway as an exchange like any other.
* A statement that stores has three ends: `Store` (its answer is heard),
  `StoreUnheard` (the row is there, but the connection broke or the caller has
  gone, and the call returns an error) and `StoreFails`.  The commit of a capture
  may go unheard too, which nobody notices (`CommitCapture`).
* `DeleteTunnel` and `DeleteProject` cascade as the migrations say: requests,
  responses and replays go, analyses stay and lose the request they name.

### AnalyticsStore

`queue` is the channel, `buf` the batch being gathered, `batch` the one being
sent; `loop` is flushLoop's goroutine and `final` its last round.  `table[e]`
counts `e`'s rows in ClickHouse, of which a failed `Send` may have stored any
part.  `CloseDone` and `CloseConn` are the two halves of `Close`, between and
after which the last flush runs.  A summary is two queries (`answers`), each of
which counts rows (`Rows`, `Count`) at its own moment.  What the loop over the
rows of an answer gets to see is `ReadBy`: the totals are one row or an error, of
the series any part, for `QuerySummary` does not ask `rows.Err()` why the loop
ended.

### Migrate

A runner reads the recorded versions once (`todo`), and then applies each file
it did not find in a transaction that records it (`Apply`, `Record`, `Commit`).
Postgres makes a transaction that creates the same relations wait (`Unlocked`);
then it is `Refused`, unless the file tolerates repetition and only the primary
key of `schema_migrations` stops it (`Repeatable`).  A runner may be stopped or
fail anywhere, not hear of its commit, and be started again.


## 3. The runs

| Run | Instance | Distinct states | Shows |
|---|---|---|---|
| `forward` | 2 requests, socket for 1 frame | 184k | the safety of the calls and of their captures, that every call ends, and `TunnelPromise` |
| `registry` | 2 instances, 2 connections, 1 subdomain, TTL 3, 1 fault, 1 deletion | 174k | registries, routes and rows against interleaved connections, crashes and faults; stale routes expire, live ones come back; `TunnelHosts`' facts on all Hosts of up to 5 words and marks, and under a base domain with a port |
| `cluster` | 2 requests, 2 instances | 240k | `TunnelPromise` over lossy pub/sub; captures that fail or die, and never happen twice |
| `agent` | 2 connections, 1 handler, stalls | 246k | one socket, one writer; redialling; stopping |
| `quota` | 1 user, 2 projects, 4 tunnels, 2 calls, 2 plans, 2 webhooks | 562k | bounded overshoot, paid plans, no tunnel without a project |
| `accounts` | 2 calls, 3 users, 2 identities, 4 tokens, 2 states | 225k | accounts, states, refresh tokens |
| `records` | 2 exchanges, 2 tunnels, 2 calls, 2 providers and the stub | 276k | nothing half stored, nothing dangling, callers told what was kept |
| `analytics` | 4 events, channel of 2, batches of 2 | 109k | every event accounted for, summaries whole and cut short, the loop's end |
| `migrate` | 3 runners, one of an older build, 3 files, the last repeatable | 11k | applied once, in order, no run waits for ever |
| `web` | 2 tabs, 2 users, 3 requests, all concurrent, 4 tokens | 329k | what tabs show and the cookie they share, against late, lost and reordered answers; every page load ends |
| `auth_rotation`, `auth_panic` | | | violations: see the findings |

**Why the bounds suffice.**  Every property is about one request, connection,
row or token and what one other can do to it: `NoCrossTalk` needs a second
request, `RegistryExact` a successor, `OneOpen` a second connection.  A socket
with room for one frame blocks the second writer, and the first is held up
behind it.  A TTL of three periods with one missed refresh distinguishes "comes
back in time" from "expires".  Two concurrent creations and four rows exceed a
limit of two by one, with rows of the gateway beside them.  Chains of four
tokens contain a token exchanged twice and a successor exchanged again.  Four
events fill the channel and a batch at the same time.  A second exchange lets a
replay's own capture run beside that of its original.  Two runners of one build
and one of an older race over a file that all have, a file that two have, and
one that may be run twice.  Three requests are a bootstrap, a sign-in that
overtakes it and one of another tab, or two bootstraps of one cookie and the
sign-out of a third page; an instance of four requests, two at a time, passes as
well (2.1M states, too long to keep).  For the properties that are proved, the bounds do
not matter.

**Deadlock** is checked in `registry` (tickers never stop) and `migrate` (a run
may always be repeated).  The other systems may stop: requests, rows and events
are finite, and an agent may be ended.

**Symmetry** is used in `quota` and `accounts`, which have invariants only.

**Fairness.**
`TunnelForward`: a goroutine that can go on does (WF); `LockWriter` has strong
fairness, which Go's mutex gives (a waiter of 1 ms puts it in starvation mode,
first come first served); the forward timer fires; the read deadline fires on
silence; an agent that is running reads its socket.  The application, clients,
and the end of a connection owe nothing, nor does a TCP reset that would fail a
blocked write early.
`TunnelRegistry`: goroutines go on, tickers fire, a closed connection's read
fails; agents need not connect or drop.
`ClusterForward`: the goroutine of a request goes on and its timers fire;
nothing is assumed of Redis, of peers or of the application.
`AgentClient`: the main goroutine and the watcher go on, some write that can go
on does, the watcher gets the mutex if it is free again and again (strong
fairness, as above), and a gateway that has not stalled reads.  It need not
answer, close or accept dials, and the heartbeat need not tick.
`TrafficRecords`: a call's goroutine goes on, for the gateway and the providers
answer or are given up on by the clients' timeouts (35 s for the gateway, 60 s
for Gemini, its SDK's own for Claude).
`AnalyticsStore`: flushLoop goes on; its ticker fires, and a `Send` ends (it has
a timeout).  `Migrate`: a run that can go on does, and one that waits for
another's transaction gets its turn, as Postgres queues those who wait for a
lock; nobody need start a run, and none need fail.
`WebSession`: each request goes on or its failure is noticed.  `apiFetch` has no
timeout of its own; the API answers or its connection ends, and the browser
gives up on a connection that is dead.  Nobody need load, click or leave.
`TunnelQuota` and `AuthAccounts` have safety properties only.


## 4. The proofs

Eight modules hold theorems, for every value of the constants that meets the
named assumptions.  Those say no more than the code does:

| Assumption | Says |
|---|---|
| `ForwardConstants`, `ClusterConstants`, `RegistryConstants`, `AgentConstants`, `ProjectConstants`, `QuotaConstants`, `AuthConstants`, `TrafficConstants`, `AnalyticsConstants`, `WebConstants` | the special values differ from the ordinary ones; bounds, capacities and limits are numbers of the right sign; profiles and accounts have addresses of the right kind |
| `FrameKinds` | a DISCONNECT frame is no response frame (they differ in type) |
| `RefreshInTime` | a route's TTL is longer than the period of its refresh (90 s and 30 s) |
| `QuotaFinite` | concurrent calls are finitely many, and at least one, for their number is counted |
| `WebNames`, `NoAddress` | no user is called like a state of the page, no token like a cookie's removal, and nobody has the empty address |
| `MigrateConstants`, `HostConstants` | files are numbered; the base domain is a text; a mark is no word |

All other sets may be of any size, infinite ones included.

Most properties are not inductive.  Each module defines the invariant `IInv`
(or a further one) that is, from named parts, and proves it with a lemma for
the initial states, one for each action or for actions that change the same
state, and one that joins them (`NextIInv`).  TLC has checked every such
invariant on the runs' instances.  The parts that were missing are what the
proofs tell about the code:

**`TunnelForwardProofs`** proves `PendingExact`, `NoCrossTalk`,
`AnswerUnderWay` and `CapturedIffForwarded`, and that every step is one of
`TunnelPromise` or none (`RefinesPromise`, the safety half of `KeepsPromise`).

* `IInv` is for the first two: that a client gets its own answer depends on
  every place an answer passes, so it adds `IdsUnique` (no two calls have one
  id), `FramesOwned` (a frame, handler or answer with `r`'s id is about `r`, in
  `down`, `handlers` and `up`) and `ChannelsOwned` (a channel holds its own
  call's body or a failure).  `PendingExact` links ids to calls in `deliver`.
* `CaptureInv`: a call has its outcome exactly when it is done, it had no capture
  before, and the captures that have yet to save and those that have stored a row
  are together no more than were started (`Captured`), of which a call has one.
* `OnceInv`: of one request there is one frame or one handler or neither, it
  has not run while there is a frame, and a body exists only once it ran.  It
  gives "executed at most once" of the promise, and `AnswerUnderWay` says that
  while both sides are up the answer of a call that waits is in one of four
  places.

`AgentClient` is the other end of the connection; of it this module proves
`OneOpen` (`OneConnection`), for any number of connections and handlers.
`LoopInv` adds `Unmade` (a connection that is yet to be
made has neither socket nor goroutines, so that a dial finds no writer there) and
`HandshakeFirst` (only the handshake runs until REGISTERED, so that the heartbeat
that starts then is not already writing).  Every way out of `connectAndServe`
leads through `ServeReturns`, which closes the only socket that may be open.

**`TunnelRegistryProofs`** proves `RegistryExact`, `OneOwner`, `OnlineRouted`,
`DisconnectedIsQuiet` and `ActiveRowLeaks`, for any number of instances,
connections and subdomains and any TTL that outlasts a refresh.  The argument:
an entry in the map belongs to a connection whose goroutine will still remove it
(`EntriesOwned`), a connection that serves is found unless it was replaced
(`ServedFound`), and since `public_url` is UNIQUE among the rows there are
(`UrlsUnique`), it is replaced only after its row was deleted.  `RowsQuiet` and
`ClosedMarked` say what a row's status means while the deferred calls of its
connection are still to come.  `RoundsOwned` and `RouteKept` are for the route:
the snapshot that a refresh works from names subdomains of its own instance
only, and the route has a period to live or its refresh is due in this one.

The facts about host names are in this module too.  `PublicURLLeadsBack` (mint,
then look up or replay: the same subdomain) needs a base domain without colon and
slash; `PortInBaseServesNobody` says what becomes of one with a port.
`OneNamePerSubdomain` (look up, then mint: the same host) and
`CertificatesForTunnels` (the two suffix tests agree on server names, but for a
dot in front of the base domain, which is no host) hold under any base domain.
The lemmas before them say what becomes of texts that are put together: where
their first mark is (`IndexFirst`) and what a port adds (`PortStripped`, `PortCut`).

**`ClusterForwardProofs`** proves `PendingExact`, `CapturedOnce` and the
steps of `TunnelPromise` (`RefinesPromise`), for any number of requests and
instances, with messages lost and reordered and instances stopped.  That pub/sub
executes a request at most once is `HandedOnce`: it is handed over by the one
message that asks for it or by the instance it arrived at, never both, whatever
the route said; `AnswersServed` says that an answer travels under the id of its
own request, once that is served.  `CapturesOwned` gives `CapturedOnce`: while a
request is served it has no capture yet, it is served once, a request has one
capture under way at most, and while it has, there is no row of it.

**`TunnelQuotaProofs`** proves `PaidPlansPaid`, `TunnelsHaveProjects` and
`OvershootBounded`.

* For the first two `IInv` adds `CallsHold`: a call under way was made for some
  project, which need not be there any more.  So the insertion itself must look
  (the foreign key), and a deletion must take the rows with it (`ProjectSteps`); a
  plan is set at once only to the free one, and by a webhook only to one of a
  completed checkout (`PlanSteps`).
* `OvershootBounded` needs a sum: for some plan the workspace had, the rows that
  count and the calls that were allowed a row are together at most the limit and
  all calls but one (`RoomLeft`).  A call that is allowed joins the second when
  the first is below the limit, and the others that wait are at most all but
  itself; an insertion moves one from the second to the first.  `QuotaInv` adds
  `RowsPlaced` and `CallsMade` to it, and the library's theorems on
  cardinalities do the counting.

**`AuthAccountsProofs`** proves `OneAccountPerEmail`, `NoOrphanAccount`,
`StateOnce` and `ExchangedIsDead`, for any number of requests, people,
identities and tokens.  `IInv` adds `CallsHold` (what each statement has already
established when its call stands at the next one: that a call at `issuing` for a
refresh holds a token that is no longer live, that one at `linking` holds the
account of its profile's address), `StateUnspent` (a state in Redis has let
nobody in) and `ChildrenHeld` (a token obtained in exchange has a holder).
`ErrorsAnswered` says that every error has an answer, so that what only refuses
(`EndStep`) disturbs nothing.

**`WebSessionProofs`** proves the invariant `CookieGood` and the action
properties `RestoredUnlessContested` and `StaysAsLeft`, for any number of tabs
and requests.  The three are about one set of facts:

* `UsesHeld`: what `uses` records of a token's requests is so, and a token on
  its way to the browser is live, was never presented and is in one answer only.
  So whatever order the answers are heard in, the cookie they set is good.
* `CookieHeld`: a cookie that is dead was presented by a request that will
  replace it (`Replaces`), or by one that came to grief.
* `RestoreHeld`: the token of a bootstrap that alone presented it is live until
  its own exchange, which then brings a token of the same user.
* `PagesHeld`: a page waits for one bootstrap, which ends before anything else
  it waits for or is in `overtaken`.

`AbandonStep`, `PresentStep`, `RefusedStep` and `BeginStep` are about steps that
several actions are made of.

It also proves that the API under the tabs takes only steps of `AuthAccounts`
(`StepsOfAccounts`), one lemma for each kind of request: a refresh without a
cookie is refused as a bad token is, and a sign-out is the end of a session, or
of none.  So what is proved of `AuthAccounts` holds of the dashboard's API:
`SessionsOfDashboard` carries `ExchangedIsDead` over, by the inductive invariant
and `NextIInv` of `AuthAccountsProofs` (the instance `Accounts`), which assumed
nothing about who sends requests.  `ApiConstants` shows that the dashboard's
accounts meet `AuthConstants`, `ApiInit` that a browser with a session starts
from states of the invariant, and the lemmas from `SameErrors` to `SameApi` that
the two instances of `AuthAccounts` have the same steps.

**`RecordsProofs`** proves `NoDangling` and `ToldAsKept` of `TrafficRecords`.
`CapturesHeld` and `CallsHeld` say, statement by statement, what a goroutine that
stands there has stored, of which the deletions may since have taken some; a
replay that was served was of a request that had been committed, and once that is
deleted it does not come again.  `unheard` is an end of its own there: such a
call may have its row, and has no usage.

Of `AnalyticsStore` it proves `Accounted` and `SummaryConsistent`, for any
capacity of the channel, size of the batches and number of events.

* `PipelineInv` is for the first: an event is in one of the three places, and in
  the channel once (`Apart`), what is anywhere was recorded (`Known`), and a loop
  that is not in a flush has no batch, which the next flush would lose.
* `SummaryInv` is for the second.  `AnswersOrdered` compares each answer with
  what there is to count now, for rows never go (`RowsStay`), so that a later
  query counts no less (`CountGrows`) if it is read to its end, and a part of
  the rows is never more than all (`CountMonotone`).  That what is counted was recorded rests on
  `Accounted`: an event has one row at most, so that the rows of a set of events
  are no more than the events (`CountBounded`).

**`MigrateProofs`** proves `AppliedOnce` and `InOrder` (which is `NoGap` and
`UpToDate`), for any number of runners, builds and files.  `IInv` adds
`TodoCovers` (what a runner has read is not too little: a file of its build that
is not recorded is still on its list), `OneEach` (no two transactions have one
file) and `CommitsNew` (a transaction about to commit has a file that is not
recorded).  `CommitStep` is the heart: with `CommitsNew` the count goes from none
to one, and with `TodoCovers` and `IsNext` all earlier files of the build are
recorded already.

**Only model-checked:** liveness under fairness (`EveryCallEnds`,
`StaleRouteExpires`, `RouteHeals`, `LostIsRedialled`, `StopsUnlessStalled`,
`CallsEnd`, `AcceptedSettles`, `LoopEnds`, `RunsEnd`, `TabSettles`) and with it the
liveness half of `KeepsPromise`: out of the prover's reach, as `ENABLED` is.
Every invariant and every action property that a passing run checks is proved.


## 5. Findings

Each is shown by a run in which TLC finds the stated property violated.

1. **A refresh token can be exchanged twice** (`auth_rotation`,
   `RotationLinear`): `Refresh` reads the session and revokes it in two
   statements, and the second does not look whether the first still holds.
   `ExchangedIsDead` holds all the same: once an exchange is through, the token
   is spent, so that only requests that overlap can share it.
2. **A wrapped nil error is not nil** (`auth_panic`, `WrappedNilIsNil`):
   functions that return `errorMap.Wrap(err)` as an `error` return a non-nil
   error for a nil `err`.  A password reset for a known address and the second
   sign-in of an OAuth identity end in a panic, which gin answers with 500.

Not contradicted by anything the repository says, but worth knowing:

* The tunnel quota is counted and the row inserted in separate statements, and
  the gateway inserts rows without asking.  `OvershootBounded` bounds the first;
  nothing bounds the second.  `MaxProjects` and `MaxRequestsPerDay` are enforced
  nowhere.
* Rows left `active` by a crash or a failed handshake count against the plan for
  ever (`ActiveRowLeaks` says these are the only ways).
* Only `checkout.session.completed` is handled, whatever its `payment_status`
  (which is what "paid" means in `PaidPlansPaid`): a subscription cancelled at
  Stripe keeps its plan here, a downgrade here does not cancel it there, and the
  event delivered again after a downgrade restores the paid plan.
* Nobody can register: `Register` goes on only when the lookup fails with
  `ErrNotFound`, and the lookup reports a missing row with another error.
* An invalid verification token is answered with 500 (`ConsumeEmailVerification`
  does not return the `ErrNotFound` that its comment names), and so is an invalid
  refresh token (`MapError` has no case for a sentinel).
* When GitHub's second call fails, a first sign-in gets an account without an
  address; the unique index allows one such account, so the next person's fails.
* A password reset that got that far would read the user through the pool while
  its transaction holds a connection; no request gets there in this build.
* A summary's series may be cut short beside full totals without an error:
  `QuerySummary` does not check `rows.Err()`.  (`SummaryConsistent` asks for no
  more of such a series than that it counts nothing that was not recorded.)
* A replay, analysis or incident whose INSERT was committed but not heard of is
  reported as failed; trying again stores a second row (`StoreUnheard`).
* A client may have its answer and the exchange no capture: it is saved by a
  detached goroutine with a deadline of 5 s, whose errors are logged, and which
  dies with the process.
* A base domain with a port (`TUNNEL_BASE_DOMAIN=localhost:8081`) serves nobody,
  as the port is cut off the Host but not off the suffix
  (`PortInBaseServesNobody`).
* A replay whose agent is gone records the gateway's own error page as result.
* A provider's unusable text fails an AI call; the next provider is asked only
  after an error.
* Events still in the analytics channel when `Close` is called are lost, and so
  is the last batch when the connection is closed before it is sent.
* A gateway that stalls keeps the agent from stopping: the watcher writes
  DISCONNECT before it closes the socket, with no deadline
  (`StopsUnlessStalled` makes the exception).
* Tabs that are opened together exchange one refresh token: they may all be
  served (finding 1), or the loser is sent to `/login`, though the browser by
  then has a good cookie.
* A bootstrap that ends late overwrites a sign-in sent while it was under way,
  with the session before it or with none (`overtaken` in `WebSession`).
* A sign-out whose request fails, whose `UPDATE` fails, or which is overtaken by
  another tab's exchange leaves a live session, and unless it was answered a
  good cookie, although the page shows none; signing in over a session leaves
  the old one live.
* Access tokens are never refreshed after `bootstrap`, and the query cache is
  not cleared by a sign-out.
* The document of an OIDC issuer is kept for ever, whatever it was, and sign-ins
  wait for each other while it is fetched.
* A tunnel created through the API gets a URL, under a base domain fixed in
  `tunnels/service.go`, that no gateway serves: agents do not ask for a row, and
  gateways mint one of their own.
* The agent's backoff is never reset, and each reconnection leaves a watcher
  goroutine behind.


## 6. What is not modelled

How the gateway listens (library configuration); the contents of requests, responses, prompts and reports;
cryptography, password hashing and JWT contents (tokens are unguessable
values); the discovery of OIDC endpoints, of which sign-ins see a failure like
any other; what would follow on a successful registration, verification or
password reset; configuration, logging, server start-up; Kubernetes manifests;
the dashboard's pages, which are queries over the API and forms that call it.
Components that should be modelled and are not yet are in the plan.


## 7. The plan

Order: the tunnel first, since everything else serves it; then what tunnels and
accounts cost when their statements interleave; then the supporting services.

1. `TunnelPromise`, `TunnelForward` and its proofs: *done*.
2. `TunnelRegistry`, `ClusterForward` and their proofs: *done*.
3. `Projects`, `TunnelQuota` and its proofs: *done*.
4. `AppErrors`, `AuthAccounts` and its proofs: *done*.
5. `AgentClient` and its proofs: *done*.
6. `Migrate`, `AnalyticsStore` and their proofs: *done*.
7. `TrafficRecords` and its proofs: *done*.
8. `WebSession` over the sessions of `AuthAccounts` and its proofs, `TunnelHosts`
   with its theorems: *done*.
9. That the steps of `TunnelForward` and `ClusterForward` implement those of
   `TunnelPromise`, and those of `WebSession`'s API steps of `AuthAccounts`: *done*.
10. `OidcDiscovery` (one lazily fetched document behind a mutex that every
   sign-in waits for), if it earns a run: to do.


## 8. How to run it

    tlc -workers 2 -config MCTunnelForward.cfg MCTunnelForward.tla
    tlapm TunnelForwardProofs.tla

Each run takes between a few seconds and two minutes, each proof module between
a few seconds and a few minutes.
