# Verification of Signature: signer cluster, web client, console

This directory holds TLA+ models of the repository's programs, the TLC
configurations that check them on small instances, and TLAPS proofs of the
properties that matter most. Everything is translated from the source under
`src/`; `PROJECT.json` says which lines the definitions stand for (`map`; a helper
whose lines are its caller's has no row of its own), and under `hazards` what in that
code is hard to test, line by line.

## 1. The system

| Program | What it is |
|---|---|
| `reference-keycast/` | Rust server: an OAuth provider and a remote signer (NIP-46) that keeps users' Nostr keys. Several instances run behind one load balancer, share one Postgres database and one Redis, and listen to the same relays. With it come a Svelte console (`web/`) and a client library for applications (`keycast-login/`). |
| `frontend-web/` | The React client diVine: feeds of short videos, players, camera, lists, reactions, comments. It talks to Nostr relays and to the REST API of one of them (Funnelcake). |
| `backend/` | A small axum service with sign-up and login (374 lines, no state of its own). |
| `frontend-mobile/` | The Flutter app, its web build's service worker, a static site and two crawlers that collect videos from relays. |
| `frontend-web/compute-js/` | The edge worker in front of the web client: names, profile pages on subdomains, previews for crawlers, reports. |

### Inventory

| Component | State | Operations | What is hard | What makes it correct |
|---|---|---|---|---|
| **cluster-hashring** (`coordinator.rs`, `registry.rs`, `ring.rs`) | Redis sorted set of instances scored by heartbeat; Pub/Sub channel; per instance one `ArcSwap<HashRing>` and the task-local `previous_members` | start, heartbeat, cleanup, full sync, receive join/leave, refresh, force_deregister, shutdown | two tasks replace one ring without a lock; messages are lost while a subscription is down; entries outlive crashed processes; cleanup races heartbeats | what a sync sees converges and repairs the ring; a recorded peer stays; no healthy instance is cleaned up; a shutdown is final |
| **signer daemon** (`signer_daemon.rs`, `work_queue.rs`, `authorization_channel.rs`) | handler cache (bunker key -> handler with status), bounded command channel, bounded work queue, authorization rows in Postgres | load on demand, upsert, remove (tombstone), connect, validate client, sign, evict | a load that is under way when the row is revoked; check-then-update of the connected client by several workers; commands reach one instance only | no signature for a revoked or deleted authorization; one client per authorization, unless two workers contest it; a request for an ended one gets an error |
| **web client: lists** (`useFollowList`, `useVideoLists`, `useModeration`) | replaceable lists on relays; memory, IndexedDB and localStorage caches; query data | read from a cache and refresh behind it; rewrite a whole list | three writers of one cache; lists published from stale data; same-second versions | what is shown does not go back; what settled is shown; deleted lists stay away |
| **web client: players** (`VideoPlaybackContext`, `VideoPlayer`, `useVideoMetricsTracker`) | active video, visibilities, timers; URL index, preflights, blobs; watch-time accumulator | scroll, tap, cover with the fullscreen feed; fall back to the next URL; confirm age; flush | observers, timers, effects and promises of many players interleave; answers for a URL already left | one video plays, the most visible one; the blob is that of the URL; no second counted twice |
| **web client: feeds and search** (`useVideoProvider`, `funnelcakeHealth`, infinite queries, `SearchPage`) | circuit breaker shared by all requests; pages of each query; debounced text | choose a source, retry, read the next page, redirect an empty home page | failures open the breaker while queries retry; offsets move while videos are published | a feed never loads for ever; no hole between pages; "no results" is true |
| **web client: camera and publication** (`useMediaRecorder`, `CameraRecorder`, `usePublishVideo`) | recorder, stream, segments, progress timer, publications | press and release, start over, switch camera, cancel, publish | clips arrive after the release; effects run again at each segment | no video is longer than the limit; a running recorder is watched |
| **web client: reactions, comments, accounts** | optimistic query data, mutations, logins | like, repost, comment, delete; log in four ways, switch, log out | rollback, refetch and a second click overlap; attempts outlive their dialog | at rest the screen shows what the relay has; dialogs stay usable |
| **web client: notifications, profiles, pages of one video** (`useNotifications`, `ProfilePage`, `EditProfileForm`, `useVideoEvents`, `VideoPage`) | pages of a list with a badge; profile query and form; two sources of one page | mark as read, edit and save, walk a list by keys | lists change while they are read; copies of different age meet in one query | nothing is missing in a list; a save changes what was set; the screen shows what its address asks for |
| **edge worker and service worker** (`compute-js`, `mobile/web/sw.js`) | HTTP cache and names store; caches of files | answer a request; deploy, fetch behind | a change overlaps a request; one address for many hosts | an answer is of the host asked for and not older than it says |
| **crawlers** (`frontend-mobile/crawler`) | database of events and videos, queue in memory | note, look up, queue, post in batches, end | handlers overlap at every await; a batch that is put back; crash | no video is forgotten while the process lives, unless reading it or looking it up failed; none is noted as submitted that was not |
| **console** (`web/src/routes`) | cookie on the server; user of the tab; data each page loaded | sign in and out, revoke, change password and key, teams, policies, claim links | requests outlive their page; lists are filtered by hand after a deletion; shared configuration objects | at rest a page shows what the server has, and its user is the session's |
| **login client** (`keycast-login/`) | session, handle and PKCE verifier in localStorage | authorize, exchange, refresh, log out | one-time refresh tokens, two tabs, lost answers | the stored session can be refreshed |
| **OAuth server** (`oauth.rs`, `oauth_code.rs`, `refresh_token.rs`) | authorization codes, refresh tokens, authorizations | approve, exchange code, refresh, poll, revoke | find, check, use and delete of a code are separate statements | a code or refresh token is used once |
| **registration** (`auth.rs`, `bcrypt_queue.rs`) | users, verification tokens, queue of password jobs | register, hash, verify, resend, reset | a password job keyed by a token that a resend replaces; lost jobs on restart | every verified user can log in |
| **secret pool, HTTP signing, teams API** | bounded channel; token-keyed handlers; rows | produce, take; sign, evict; create, claim | start-up, exhaustion; cached handler after revocation | bounded staleness; a claim token used once |
| **mobile services** | persisted uploads, subscriptions, caches | upload, retry, resume | restart between two steps, retry of what was done | an upload is published once |

How they interact: the OAuth server and the session handlers write
authorization rows and send `Upsert` or `Remove` on an in-process channel to the
signer daemon of the same instance; the daemons of all instances receive every
relay request and ask the hash ring which of them handles it; the ring is fed
from Redis. The console and the login client call the server over HTTP. The web
client shares nothing with the server but the protocol; its own screens interact
through the relays, the query cache and localStorage.

## 2. Plan

Done, in this order: the ring (`ClusterHashring`), which decides who acts on a
request; the signer (`Nip46Signer`), checked under every view the ring can
produce and shown to implement `SigningAuthority`; the screens of the web client,
the console, the login client, the edge worker and the crawlers, one module for each thing that has a state of
its own, composed in `MCWebPages`, `MCWebCaches` and `MCConsole`.

Next:

1. `OAuthTokens`: codes and refresh tokens of the server, with an abstract
   `OneTimeToken` that the two-statement exchange is compared with; composed with
   `KeycastLogin`, which now assumes its answers.
2. `Registration`: verification tokens and the password queue.
3. `SecretPool`, `HttpRpcCache`, and the mobile app's `UploadManager`.

Theorem worth proving after those listed: the offsets of `FeedPages` (`NothingSkipped`,
`AllReached`), with its pages defined by what they hold instead of by folds.

## 3. `ClusterHashring`

### State

| Variable | Code |
|---|---|
| `registry[i]` | score of instance `i` in the Redis sorted set, kept as its age in ticks (saturating at `StaleTicks + 1`), or `Absent` |
| `inbox[i]`, `conn[i]` | messages on the subscription of `i`, and whether it is up |
| `proc[i]` | how far `start_with_prefix`, `run`, `shutdown` of `i` have come, or how it ended |
| `hb[i]` | the heartbeat task: not started, spawned, late with its heartbeat, on time, ended |
| `sinceSync[i]` | ticks since its last full sync |
| `prev[i]` | its local `previous_members` |
| `ring[i]` | the shared `ArcSwap<HashRing>` |
| `lockPc[i]`, `snap[i]` | where the holder of the registry lock stands and the member set it fetched |
| `pubPc[i]`, `pubCopy[i]` | the listener task between `ring.load()` and `ring.store()` |
| `faults`, `manual` | what is left of the bounds `MaxFaults`, `MaxManual` |

Each await on Redis is one action, in code order: `Register`, `InitialSync`,
`Subscribe`, `PublishJoin` for `start_with_prefix`; `Heartbeat`, `Cleanup`,
`SyncRead`, `SyncEmit`, `SyncStore` for one turn of the heartbeat task;
`PubLoad`, `PubStore` for one message; `RefreshClean`, `RefreshRead`,
`RefreshStore`; `ForcePublish`, `ForceRemove`; `Shutdown`, `PublishLeave`,
`Deregister`. The failing variants (`HeartbeatFail`, `SyncFail`, `RefreshFail`,
`DeregisterFail`, a `ForceRemove` or `PublishLeave` that fails), the loss of a
subscription (`PubSubDrop`), a killed process (`Crash`) and main's own exit
(`MainExit`) spend one of `MaxFaults`.

### Abstractions

- The hash is the constant `Bucket`: `Bucket[n][k]` is the bucket of key `k` among
  `n`, and AnchorHash's own promise is assumed of it (`BucketAssumption`: a key changes
  its bucket only to the one that came). `Resource` is what `rebuild_anchor` makes of
  buckets: the n-th id of the sorted set.
- `Observed` is the set of instances whose ring is followed. Rings never feed
  back into Redis, so of the others only the entry and the messages can be
  noticed; they start, beat, clean up, leave and die like the observed ones.
- `MultiThreaded` says whether tasks of one process run in parallel (tokio's
  default) or interleave only at awaits (`worker_threads = 1`). `ring.load()` to
  `ring.store()` contains no await, so it is one step in the second case.
- `Prompt` says that starting up, receiving a message, retrying a late heartbeat
  and ending a cancelled task take less than a tick. Without it the model is
  wilder than any deployment; the liveness runs use it, the safety runs do not.
- Event payloads, the broadcast buffer, logging and metrics are left out.

### Time

A tick is one heartbeat interval or less. The code's constants are 5 s
(heartbeat), 30 s (sync) and 30 s (stale). `Tick` cannot pass a healthy task that
is due. Both cutoffs are inclusive (`ZRANGEBYSCORE cutoff +inf`,
`ZREMRANGEBYSCORE -inf cutoff`), so at exactly 30 s an entry is both returned and
removable. With the sync interval equal to the threshold there is no margin: an
entry written just after one sync and removed at exactly 30 s is seen by no sync.
Every run keeps that equality (`SyncTicks = StaleTicks = 2`, a heartbeat each tick).

### Runs

| Run | Instance | Shows |
|---|---|---|
| `hashring_safety` | 2 processes, both observed, one thread, one fault of any kind, no promptness, 3.2 M states | types; a completed shutdown leaves no entry for ever; no cleanup removes an instance whose heartbeats succeed; a peer recorded by a sync never falls out of the ring while it runs |
| `hashring_sync_view` | 2 processes, parallel tasks, one fault of any kind, one refresh or force_deregister, 0.2 M states | `previous_members` always ends up exact, also where the ring does not; and when a sync still has a difference to find, it repairs all of the ring, whatever messages and races have made of it |
| `hashring_lost_update` | 3 processes, no fault, parallel tasks | violation of `RingsConverge` (`coordinator.rs:30`): the listener's load-modify-store straddles a sync and undoes it, for ever |

`RingsConverge` says that the ring ends up equal to the running set. It holds only
where no two tasks race, no message is lost and every entry lives to a sync. Besides the
race of the run, two instances of two processes on one thread, with the intervals of the
runs, `Prompt` and one fault, violate it: with `FaultKinds = {"crash"}` a peer joins
after one sync and its entry is cleaned before the next, so that it is in no sync's
answer and its join message keeps it in the ring; with `FaultKinds = {"pubsub"}` a join is
received, the leave is lost, and both lie between two syncs. What the code does keep is
`SyncViewConverges` and `SyncRepairs`: the sync's own view converges, and a change it
notices replaces the whole ring. A ring that has gone wrong stays so until the
membership changes again and a sync is the first to see it.

The two invariants of the registry hold on parallel tasks too, which the theorems
cover: the only step that parallel tasks divide is the listener's, which does not touch
Redis. `SyncedPeersStay` does not: the run on one thread is where it is claimed.

Two or three processes are enough: the ring of an observer depends on each peer
separately (membership is a set, messages name one peer), so every scenario is
one between the observer and one peer, with a third to make rankings move. One
fault is enough to open each failure path; two only repeat them. The violations
need between none and one fault. A deployment may stop (every process may shut
down), hence `CHECK_DEADLOCK FALSE`.

Three more disagreements are visible in the model without a run. `MinimalRemapping`
states what `ring.rs:9` says ("Guaranteed optimal disruption (minimal key remapping on
node changes)"): with three processes it fails when the smallest id leaves, because
`rebuild_anchor` (`ring.rs:63`) gives the buckets to the sorted ids anew and an instance
that stays loses a key it handled. `SyncEmit` comes before `SyncStore`, while the comment on `subscribe` (`coordinator.rs:409`) says
"Events are broadcast AFTER the ring has been updated"; and `MainExit` leaves the
entry in Redis, while `main.rs:816` says "ClusterCoordinator will be dropped
automatically, triggering deregister".

### Fairness

`Tick` is weakly fair: time passes. Each tokio task is weakly fair as a whole
(start-up; heartbeat task; listener; the embedder's calls once begun), which a
work-stealing runtime gives to ready tasks. The heartbeat branch of an observed
instance is strongly fair: `select!` picks at random among ready branches and
does not pick the sync for ever. Registration, shutdown, manual calls and faults
are never forced.

### Proofs (`ClusterHashring_proofs`)

| Theorem | For every value of the constants |
|---|---|
| `TypeCorrect` | `[]TypeOK` |
| `NoResurrectionHolds` | `[]NoResurrection` |
| `HealthyIsActiveHolds` | `[]HealthyIsActive`: uses only `HeartbeatTicks < StaleTicks` |
| `SyncedPeersStayHolds` | `[]SyncedPeersStay`, on one thread and without manual calls |

`NoResurrection` is not inductive: one must know that both tasks have ended from
the moment the leave message is sent (`ShutdownInv`). `HealthyIsActive` needs
that an entry of an on-time task is younger than the threshold and that only
`force_deregister` is between its two commands (`FreshInv`). `SyncedPeersStay`
rests on three facts proved step by step: a leave message in some inbox was sent
by a process that is leaving or gone (`LeaveInv`), only a live heartbeat task
holds the lock or remembers members (`LocalInv`), and every peer in
`previous_members` that is not leaving or gone is in the ring (`PeersInv`). The restriction to one thread is necessary:
`hashring_lost_update` is the counterexample otherwise; the restriction to no
manual calls is too, because `force_deregister` announces the leave of an
instance that goes on running.

Only model-checked: everything under fairness (`SyncViewConverges`, `SyncRepairs`),
which this prover does not reach.

## 4. `Nip46Signer`

### State

| Variable | Code |
|---|---|
| `row[b]`, `client[b]` | the authorization row of bunker `b` in Postgres: absent, active, revoked (`revoked_at`), expired (`expires_at`), deleted; and its `connected_client_pubkey` |
| `cache[i]` | the moka cache of instance `i`: the status of each cached `Nip46Handler`, or `"none"` |
| `cmds[i]`, `cmdPc[i]` | the authorization channel, and whether its reader is inside `load_single_authorization` |
| `queue[i]` | the bounded relay queue |
| `pc[w]`, `job[w]`, `held[w]` | between which statements of `handle_nip46_request` worker `w` stands, its request, and the status of its clone of the handler |
| `req[r]`, `out[i][r]` | the requests of the clients and what each instance made of them |
| `call[a]` | calls of the HTTP API: between check, UPDATE and command |
| `faults` | what is left of the bound `MaxFaults` |
| `sentTo`, `told`, `served` | history that the properties speak of; no guard reads it |

Every statement sent to Postgres is an action. The API: `Create`, `RevokeCheck`,
`RevokeUpdate`, `ReauthRevoke`, `DisconnectClient`, `DeleteRow` (`change_key` and
`delete_account`), `DeleteTeamRow`, then `SendCommand`. The channel's reader:
`UpsertLoad`, `UpsertInsert`, `UpsertDrop`, `RemoveCommand`. A worker: `Skip` or
`Take`, `LoadRow`, `Insert`, `LoadFail`, then `Tombstone`, `GetPublicKey`,
`ConnectCheck` and `ConnectStore`, or `ValidateClient`, `ClaimCheck`,
`ClaimStore`, `SkipValidation` followed by `Encrypt` or `SignEvent`. Faults: a key
that cannot be loaded (`load`), an API call whose HTTP client goes away between
its statements (`abandon`), a process that restarts (`restart`).

### Abstractions

- The ring's answer is nondeterministic (`Skip` or `Take`) when `Foreign`; what
  the ring guarantees is the subject of `ClusterHashring`.
- The cache operations of one step (get, modify and insert in `Remove`) are one
  action: a concurrent insert between them only reorders the two inserts, which
  `RemoveCommand` and `Insert` already do in both orders.
- A response counts when its content is fixed; encrypting and publishing it
  change no state. Verdicts (wrong secret, policy refusal, undecryptable text)
  are nondeterministic. A failed query of a worker past the loading is one of
  these outcomes.
- OAuth rows are created without `expires_at` and no code sets it, so only team
  rows expire. Nothing sends an `Upsert` for a team row: the team branch of
  `load_single_authorization` is not reached.
- `revoke_session` checks `revoked_at` only, which for rows that cannot expire is
  `Live`. The checks that precede the UPDATE of a re-authorization, and all of a
  delete transaction, are one action with it: the row can only have ended
  meanwhile, and then nothing is changed. `delete_account` of a user with several
  sessions is one call per session.
- A bunker key is derived from a fresh secret, so a deleted row is never recreated.

### Runs

| Run | Instance | Shows |
|---|---|---|
| `signer_safety` | 2 instances, 2 clients that connect and encrypt, revoke, disconnect, one abandoned call; 5.3 M states | types; no request sent after the end of its session is carried out, whatever either cache holds; a session has one client between two disconnects, unless two workers were about to store different ones at one time |
| `signer_ended` | 2 workers of an instance, a user's and a team's session, creation, revocation, expiry, deletion; a load that fails, an abandoned call or a restart; 3.9 M states | once an instance handled a `Remove` while no worker was loading the row, nothing caches an active handler again, a restart included; no event is signed for a deleted session, although no command announces the deletion of a team's |
| `signer_authority` | 2 workers, 2 clients, queue of one, skipping ring; revoke, re-authorize, disconnect, change key; fairness; 0.7 M states | every behaviour is one of `SigningAuthority`; no request sent after the end is signed; a request for a revoked session gets an error, unless skipped, dropped at the full queue or overtaken by the deletion of the row |
| `signer_two_clients` | 2 workers of one instance, 2 clients, no fault | violation of `OneClient` (`signer_daemon.rs:187`): both workers read the row without a client, both accept |

No action reads the state of two bunkers, so one is enough, or one of each table.
Two workers, clients and requests make every race of the code, which are all
between two actors; two API calls let a second command follow the first; one
fault opens each failure path. The code starts at least eight workers by default
(`main.rs:428`), and instances overlap while the ring moves: `OneClient`, what the
comment claims, is false with two of either. `UncontestedClient` says how far the claim
goes: a session is `contested` from the moment a second worker comes to store another
client while one is about to store its own, until a disconnect at which no two such
workers are left.

Requests and calls are used once, so the system may stop: `CHECK_DEADLOCK FALSE`.
Clients, requests and calls are interchangeable in the safety runs; the run of
temporal properties uses no symmetry.

Two more claims of comments are stated in the module and do not hold.
`RemovedIsTombstone` (`signer_daemon.rs:664`): a load that is under way during the
`Remove` caches an active handler. `KeyChangeRemoves`: the `Remove` of `change_key`
names the user key, not a bunker key.

Neither lets a revoked session sign: that is `NoAnswerAfterEnd`. A stale
active handler answers `connect` with a bookkeeping error or an acknowledgement,
`get_public_key` with the key, and sensitive methods with "Client not authorized"
in place of "revoked". Two workers acknowledge a second client whose later
requests are then refused or, if its store came last, the first one's.

Three more disagreements are visible in the model. `ReauthRevoke` sends
no command, while `oauth.rs:2601` logs "signer will detect on next poll", and
there is no poll: a cached handler of the old session stays active until it is
evicted. `Take` goes by the status computed when the handler was cached, so a
team session cached before its expiry goes on being served, while
`signer_daemon.rs:35` says of `Expired` "can only send error responses". And
`ClaimStore` adopts a client that was just disconnected, while `auth.rs:2144` says
"requiring the client to reconnect".

### Refinement

`SigningAuthority` promises for OAuth sessions: a request is granted at a moment
when its authorization is live and held by its client or by nobody, only granted
requests are signed, and an ended authorization stays ended. The mapping takes
`phase` and `holder` from the database rows alone and a request's stage from the
worker that passed `validate_and_store_client` and from the outcomes; caches,
channels and queues map to nothing, which is the point: however stale, they
cannot produce a signature that the rows did not allow after the request was
sent. The moment of the grant is that of the check (`ValidateClient` or
`ClaimCheck`); a session revoked between it and the answer is still answered,
as in the code.

### Fairness

The runtime schedules the channel's reader and each worker (weak fairness of the
whole task), and an API call that has begun goes on. Clients, the clock,
evictions and faults are not forced. The runs under fairness have no faults.

### Proofs (`Nip46Signer_proofs`)

| Theorem | For every value of the constants |
|---|---|
| `SignerTypeCorrect` | `[](TypeOK /\ SentInv)` |
| `NoAnswerAfterEndHolds` | `[]NoAnswerAfterEnd` |
| `NoSignAfterDeleteHolds` | `[]NoSignAfterDelete` |
| `RemovedStaysHolds` | `[]RemovedStays` |
| `UncontestedClientHolds` | `[]UncontestedClient`, for any number of workers and instances |
| `ImplementsAuthorityHolds` | `ImplementsAuthority`: every behaviour is one of `SigningAuthority` |

The assumptions are those of `Nip46Signer.tla`: each worker has a home, requests
and clients are not the words for "none", no bunker has the key of a user (the
`Remove` of `change_key` names a user's key, `auth.rs:3013`), and the capacities are
numbers. All faults, any number of instances, and any schedule are covered, also
where a run has a smaller bound.

Three lemmas carry everything: `RowStep` (a row is created, ends and is deleted, and
never comes back), `WorkerStep` with `PcStep` (what one step of a worker's loop can
do to its place, its request and the outcomes), and `RequestStep` (a request is sent
once). On them rest the invariants:

- `SentInv`, `StageInv`, `OnceInv`: a worker serves what somebody sent, its place in
  the loop fits the method, and an instance makes one thing of a request: what is in a
  queue or in a worker's hands has no outcome yet.
- `EndInv` for `NoAnswerAfterEnd`: the row of a late request stays ended, so no worker
  passes a check of the row with it, whatever the status of its handler. Caches and
  commands are not in it: the checks of the database carry the property.
- `DeleteInv` for `NoSignAfterDelete`: only the lookup of the permissions, anew for
  each event, stands between a deleted team session and a signature.
- `CleanInv` for `RemovedStays`: after a clean `Remove` no worker of the instance holds
  an active copy it is about to cache, and no command does. It needs `CallInv` and
  `CommandInv`: a `Remove` in a channel names a session that has ended. Without the
  assumption about user keys it is false: the key of a user would name a session.
- `KnownInv` and `ClientInv` for `UncontestedClient`: the clients accepted for a live row
  that is not contested are the one the row names, and every worker that is about to
  store a client stores the same one, over a row that names nobody or that one (`Sole`).

The refinement goes step by step: every action of the signer maps to `Grant`, `Sign`,
a refusal or another step of `SigningAuthority`, or to a stutter, under the mapping of
`Phase`, `Holder`, `Asked` and `Stage`; `OnceInv` is what makes a stage change once.

Only model-checked: `LateRequestsGetErrors` (fairness is out of this prover's reach).

## 5. The web client

### How the parts are composed

A screen of a client is a component with state of its own. What two screens share
they share through a relay, a server or a cache, and the module that models the
cache models both of its users. So the modules below have no variable in common,
and the product of all of them would have no behaviour that its factors have not.
`MCWebPages`, `MCWebCaches` and `MCConsole` are their disjoint sum: the variable
`part` says which module runs, the variables `s1`, `s2`, ... stand for that module's
own, `Init` chooses the part, and `Next` is the part's. A property is a conjunction
of the parts' properties of one theme, each read in its own part. Every module can
also be checked by itself, with its own `Spec` and the values that the sum's
`INSTANCE` gives its constants.

Common to all: a request has the moments it is sent, it is served and its answer
arrives, as far as anything can happen in between; React effects are due after the
render that changes their inputs and run as steps of their own where another event
can come first; toasts, texts and layout are left out; the JSX of a control is
mapped where it decides whether the control can be used.

### Modules

- **`ContactList`**: Versions of the user's contact list on the relays, in the event cache (memory over IndexedDB), in `followListCache` (localStorage mirrored in IndexedDB), and in the queries of home and profile pages. `Focus`, `Refetch` and the three loads fill the caches; `Publish` rewrites the whole list from the relationship of one profile. The list on screen never goes back (`FeedStep`); after a publication has succeeded no query that began before it answers (`SettledShown`); under fairness the cached list catches up (`FollowListCatchesUp`). What the code does lose, follows made meanwhile from another base, is listed as a hazard: the relationship the button publishes from is up to 30 s old, or empty when its query has no data (`useFollowRelationship.ts:132`).
- **`VideoLists`**: The relay's versions and deletions, the query `video-lists`, the detail page's own query, and the dialogs' operations, which publish a list anew or its deletion. `ViewStep`: a list on screen goes only when it is deleted; `DeletedStaysOut`.
- **`MuteLists`**: One version on the relay, the query that filters the feed, and changes that read, modify and publish without waiting. Changes that meet lose each other and two versions of one second tie: the properties speak of calm histories, and of what the filter becomes.
- **`ActivePlayer`**: The context's `activeVideoId`, visibilities, registration order and debounce timer, each player's effects and its media element, whose play events come later, and the fullscreen feed that covers them. Two players below, two above.
- **`VideoSource`**: One player's URLs, HLS playlist, preflights, age overlay and loads. `Following` is the source that is tried after a failure. The claim `LastResortIsTried` (`VideoPlayer.tsx:550`, "All direct URLs failed, try HLS as last resort") is stated in the module and does not hold: an HLS source that was tried first is not tried again, one that appears later is.
- **`FeedSource`**: The circuit breaker that all requests to the API share, the source each drawing chooses, and the retries of the queries. Leaving a page cancels its queries and counts as a failure. `FeedSettles` under fairness. The claim `OneRetryIsAllowed` (`funnelcakeHealth.ts:46`, "allow one retry") does not hold: the third failure clears `status.available`, which is what the function returns when the reset time has passed, so that the API stays unavailable until a request that does not ask the circuit succeeds (`Other`, names).
- **`FeedPages`**: A feed read by offset, by time, from a random place or by asking a relay for everything up to the page, while videos are published in front of it and some do not parse. A cursor is a time of whole seconds, and the relay's is one less (`useInfiniteVideos.ts:281`): two videos may be of one second, and what is left of the second at which a page ends is never asked for (`AtCut`; the properties ask for every other video). A sorted page is cut from everything up to it; the classics and the hashtags are sorted again on the client before that (`SortedHere`, `useInfiniteVideos.ts:208`), so that the second page has videos of the first and leaves others out: run `feed_resorted`.
- **`WebSearch`**: The text, the address that follows it half a second later, the four queries of the search page and relays with and without NIP-50. The cursor is one second before the last video here too (`useInfiniteSearchVideos.ts:117`); "no results" leaves out the videos of a second at which a page ended.
- **`Studio`**: The upload page, the camera, a recorder for each press whose clip arrives after the release, and the publication. `RecordingFits`: no published video is longer than `MAX_DURATION`. The claim `CleanupIsOnUnmount` (`useMediaRecorder.ts:247`) does not hold: the effect depends on the segments and runs at each new one. Also visible: a double click on Publish while the duration is read makes two videos, cancelling while segments are combined still publishes, and a camera granted after the page was left stays on.
- **`ViewMetrics`**: The accumulator, its timer, loops, seeks, changes of video and user. What is left of a video when the player gets another one is published under the new one's name (`useVideoMetricsTracker.ts:118`).
- **`VideoReactions`**: A like or repost shown before the relay has it, its rollback, the batched query of the video page that nobody invalidates. A read that overlaps a click loses the mark, and an unlike of a like that is still being sent deletes nothing: `CalmShowsTruth` says what holds of calm histories.
- **`VideoComments`**: The query, the optimistic entry with a temporary id, its rollback and late refetch. A deletion invalidates `['comments']`, a key no query has (`useDeleteComment.ts:68`); a reply to an entry that is being sent names the temporary id (`Comment.tsx:185`).
- **`WebAccounts`**: The login dialog with attempts by extension, bunker, key and file, which outlive it; the switcher and the reads behind it. The claim `LogoutClearsCaches` (`useLoginActions.ts:33`) does not hold: the switcher logs out by itself (`AccountSwitcher.tsx:112`) and leaves the follow list in localStorage.
- **`Notifications`**: The server's list with its read marks, the page's infinite query, the badge's poll and the requests that mark as read. `BadgeIsServers`: with nothing under way the badge is the server's count, though it is lowered before the server knows. "marks all as read on page open" (`NotificationsPage.tsx:2`) is not so: only what a page has shown is marked.
- **`ProfilePages`**: Two profiles with names that a domain has verified or not, the page `/u/<name>` and the dialog of followers. A page that failed is asked for again for ever, "No followers yet" is also shown after an error, and `/u/<name>` goes to the first of 500 profiles with that name, verified or not.
- **`WatchPage`**: The static page `/v/<id>` (`website/nostr-viewer.js`): relays dialled, waited for, asked, copies of the video and profiles that arrive, the timeout. `FoundIsShown` speaks of videos that come in time: a timeout within the half second before the video is shown puts the error over it, and the name of one author can stay next to a video of another who has none.
- **`VideoQuery`**: `useVideoEvents`: videos, reposts, the originals of reposts and reactions, each an answer of its own, while others publish. A refetch every 30 s drops the query under way, so that a feed whose lookups last longer never refreshes; the home feed is empty while the follow list loads, and popularity feeds keep the first version of an address, not the newest.
- **`VideoPage`**: The page of one video with its two sources, the API and the relay, and the keys that walk the list. `isLoading` needs both sources to be loading, so "Video not found" is shown while the second is still asked; a list with duplicates makes "next" go back.
- **`DiscoveryTabs`**: The address, the open tab and the three effects that follow each other, with signing in and out. An address that names no tab the account has leaves whatever was open.
- **`HashtagExplorer`**: The filter, the window and the observer that tells only changes: on a screen that shows the sentinel at once and for good, nothing more is loaded and the spinner stays.
- **`Leaderboard`**: The boards as queries of their own, the second question for authors, retries. A refetch that fails puts the error in place of the board.

### Runs

| Run | Instance | Shows |
|---|---|---|
| `web_pages` | all screens, 2.1 M states | `SettledShown`, `ShownStaysCurrent`, `DeletedStaysOut`, `CalmScreenIsTrue`, `OneVideoPlays`, `PagesAreWhole`, `ShowsWhatIsAsked`, `RecordingFits`, `NoSecondTwice`, `DialogIsUsable` |
| `feed_resorted` | a feed of the relay, pages of two of five videos | violation of `NewPagesAreNew` (`useInfiniteVideos.ts:77`): what is sorted again on the client before it is cut shows some videos twice and others never |
| `web_caches` | contact list, mute list, feed source, 0.3 M states | liveness: `FollowListCatchesUp`, `FilterCatchesUp`, `FeedSettles` |

Bounds (each a constant of the module, in a guard): the races are between two
actors, so two operations of each kind, with a third where something has to lie
between them; lists of up to three versions; two URLs, so that there is a first and
a last; five videos in pages of two, so that a page can be whole, short and empty; a
recording of two ticks with three presses. A list of contacts has a version of
somebody else's less for a reload that is used. A user may stop at any time:
`CHECK_DEADLOCK FALSE`. The bounds of the parts with a theorem are constants of
`MCWebPages`: the theorems hold for every value of them.

Histories named `calm` or `patient` say that what is known to go wrong did not
happen: two changes of one list that meet, a click on a button whose query was being
read, a lost answer. The properties that carry them claim what a user who waits for
one thing before doing the next can rely on; the module's comment names the
condition.

### Fairness

`FollowListCatchesUp` and `FilterCatchesUp` assume what they need in their own
antecedents: the user keeps coming back, and requests that are sent again and again
are at times answered (strong fairness of the answer). `FeedSettles` assumes weak
fairness of drawing, of answers (a failure is an answer: every request has a
timeout) and of retries, which react-query starts by itself.

### Proofs (`ContactList`, `VideoLists`, `ActivePlayer`, `Studio`, `MCWebPages`)

Four modules have their proofs at their end, for every value of their constants;
`MCWebPages` proves the properties of its run from them, part by part: `Init` and
`Next` of the sum give those of the part that runs (`part = "Lists" => Lists!Typed /\ ...`
is inductive when `Lists!Typed /\ ...` is). The parts `ViewMetrics`,
`VideoSource` and `VideoPage`, and `WebAccounts` have their invariant in their own
module and its proof in `MCWebPages`, in the sum's variables, and so have the parts of
the last two theorems; `ProfileStep` of `WatchPage` needs no invariant.

| Theorem of `MCWebPages` | From | Inductive invariant |
|---|---|---|
| `SettledShownHolds` | `ContactList` | `SettledInv`: memory is at least as new as every settled version and every publication that was stored; a profile page whose relationship is unread, stale or at least the settled version, and at rest at least that version; one that reads from the relays has nothing settled |
| `ShownStaysCurrentHolds` | `ContactList`, `VideoLists`, `VideoSource`, `WatchPage`, `VideoPage` | `FeedInv`: the home page's list is not newer than memory, or it is localStorage's and older than every publication in progress; localStorage likewise, with no load in progress; at most one version is being loaded, older than every publication in progress; the list is read on the home page only, and read from the relays it is empty or localStorage's; `ShownInv`; `BlobInv`; `PageInv` |
| `DeletedStaysOutHolds` | `VideoLists` | `DeletedInv`: the relay has nothing its newest deletion covers, and an answer on its way nothing a deletion covers whose `onSuccess` ran |
| `OneVideoPlaysHolds` | `ActivePlayer` | `PlayersDue`: what a player should do and does not, an effect, an event or a frame that is due will do; `MostVisibleDue`: outside of fullscreen and without a timer the active video is the most visible |
| `RecordingFitsHolds` | `Studio` | `TakesInv`, `WatchInv`: at most one recorder that has not delivered has recorded anything, and it fits with what was delivered; one that goes on is that of the held button, which the timer watches; `ClipsInv`: what fits goes to the page, the upload and the event |
| `NoSecondTwiceHolds` | `ViewMetrics` | `CountedOnce`: views and accumulator together reach the last update, which is not in the future |
| `DialogIsUsableHolds` | `WebAccounts` | `MarksInv`: a mark of an open dialog is that of an attempt under way, which takes it away when it ends; `LoginsInv`: nobody is in the list of logins twice, and what was read of some accounts is of those |
| `ShowsWhatIsAskedHolds` | `WebSearch` | `SearchInv`: what was not read is being asked for, or that failed; what was read and is empty was empty from its first page on. `UrlFollows` is inductive by itself |
| | `ProfilePages` | `BadgeInv`: only a person the domain has named was found to be so |
| | `VideoQuery` | `HomeInv`: a home feed is read for the follow list there is, and kept under the list it was read for |
| | `DiscoveryTabs` | `TabsInv`: the routes and tabs there are, with `TabIsOfTheAddress` |
| | `Leaderboard` | `BoardInv`: what is on a board, or waits for names, is of its key, in order |
| | `VideoPage` | `RenderInv`: no list has a video twice, and the window reaches the place of the video in the list the page has now, on the screen or not |
| `CalmScreenIsTrueHolds` | `MuteLists` | `CalmInv`: in calm at most one change; one that has not read leads from the relay's list to what is wanted, one that was sent has it and is not older than the relay's |
| | `VideoReactions` | `TruthInv`: in calm at most one publication and then no read; what the feed shows is true, or its answer is still to be read, unless a publication is under way, which leads from a true answer to a true one (`FeedSent`, `FeedKept`, `VideoSent`) |
| | `VideoComments` | `CommentsInv`: with one comment at a time the lists are settled until it is stored, or the snapshot is; from then on a comment no search finds has its refetch to come, and a read that has seen the relay has every other |
| | `Notifications` | `CountInv`: with no marks under way a poll's answer is what the server counts, or says that it is late |
| | `WatchPage` | `FoundInv`: nothing is found before the relays are asked, and what was found is on the screen, or the error is |

Why they are needed: `SettledShown` is about a page at rest, and what would break it
is a query under way; so the invariant speaks of answers on their way and of memory,
from which a late answer is raised to the newest (`NewestOf`, a largest member of a
bounded set, is the one lemma that needs well-founded induction). `FeedStep` compares
two values of the list and is proved from `FeedInv` for each step. `PlayersDue` is
the debt of each player by itself, so that a step that touches one player keeps that
of the others (`OnePlayer`). `RecordingFits` fails without the clause that two
recorders that have not delivered are not both non-empty: their clips would add up.
A mark by itself says nothing of who takes it away: `MarksInv` ties the mark of the
file to the attempt that reads one and the other mark to an attempt of another kind,
and holds of an open dialog only, since an attempt that outlives its dialog ends on
the next one. The switcher offers the tail of the list, which is everybody else
because `Without` takes out the one entry a user has (`WithoutOne`).
`RenderInv` speaks of the list the page has even while something else is on the screen:
the window grows when the place changes, and a list that is not shown yet may be shown
by a step that leaves the place alone.
`CalmShowsTruth` speaks of moments with nothing under way, so `TruthInv` says of each
publication what both of its ends lead to: the rollback puts back an answer that was true
of a relay that has not changed, the confirmation fills in the id the relay gave. That
needs that a kind has one reaction of the user that is not deleted, and that no read is
on its way beside a publication. `CommentsSettle` is about a list that a refetch brings,
up to six seconds after the comment: between the two the list on the screen may have the
comment twice or not at all, so `CommentsInv` says nothing of it and keeps the refetch.

Assumed: nobody's profile page is called `"home"` (`HomeIsNobody`: the routes
differ); the limit of a recording is a number (`LongestIsNat`), and so are the videos
there are to search, the limit of a feed, the cards that are rendered and the clicks on
the buttons of a video (`SearchBounds`, `FeedLimitIsNat`, `CardsAreNat`: 10, 10 and 5 in
`VideoPage`; `ClicksIsNat`, a bound of the model); a page has at least one
video and the window at least the card in its middle, and no player of the fullscreen
feed is `None`. The four players of `OneVideoPlays` in `MCWebPages` are
fixed; `ActivePlayerHolds` is about any number.

What a fold, `SelectSeq` or a sort computes cannot be reasoned about here, so the parts
of `ShowsWhatIsAskedHolds` and `CalmScreenIsTrueHolds` define such a list by what it is:
`Kept`, `Parsed`, `Sorted`, `Unique` and `NewestFirst` are the sets of the lists with the property, and have one member. `Ranked`
of a leaderboard has more: the page sorts by loops alone, and the order of equals is the
server's. (The model used to sort with the library's `SortSeq`, whose result for a
strict order is undefined when two are equal.) TLC finds the same states as with the
computed lists.

## 6. The console, the login client and what is checked with them

### Modules

- **`ConsoleSession`**: The cookie on the server, the user of the tab, the dashboard with its reads and dialogs, sign-in and sign-out, the verification page. The check of the cookie outlives its page and sets the user (`+page.svelte:256`): `UserIsSession` speaks of histories in which one thing was done after another.
- **`ConsoleSettings`**: The password the page keeps once it was verified, the key it exported, and the changes of both, in any order. The server compares the password with the hash it reads first and acts later: checking, exporting, updating and changing the key are steps of their own, on the identity the cookie names. The claim `ChangedPasswordIsNew` (`auth.rs:2859`, "Password changed successfully") does not hold: `change_key` gives the new identity the hash it read before (`user.rs:845`), so that a `change_password` served in between, or one that updates the old identity's row after it, is undone.
- **`ConsoleAdmin`**: The list of support admins, loaded at the start and after an addition and filtered after a removal; claim links looked up and made for the user searched. A change may be answered with a failure though the server made it (`ChangeLost`, `LinkLost`); a request that is lost on its way is one the server refuses.
- **`ConsoleTeams`**: Teams, a team's items, a key's authorizations, the forms that add them and the page of the bunker URL that is shown once. A change whose answer is lost is taken for refused, which ends `calm` (`AnswerLost`): the page goes on without it.
- **`PolicyForm`**: The shared configuration objects an effect points a permission to: a later text changes an earlier permission of the same type (`PermissionForm.svelte:44`). `SavedAsTheFormSays` is what the code keeps of it: when the policy is sent, every permission says what the form's fields for its type say at that moment, whichever permission they were typed for; what was typed for the first of two permissions of a type is lost.
- **`KeycastLogin`**: The authorization code flow with PKCE, the session in localStorage shared by tabs, one-time refresh tokens, the RPC client's credentials. `SessionIsLive` holds of patient use; two refreshes with one token, a reload during a refresh and a verifier overwritten by another tab are the reasons it does not without. The comment "survives logout" (`oauth.ts:129`) contradicts `logout()`, which removes the handle and leaves `keycast_oauth_state`.

Further parts of the same sum, each a thing that holds a copy of something, a key, a
profile, a page, a file, and has to keep it right:

- **`InjectedSigner`**: The hook that makes a signer of a token and offers it as `window.nostr`; no page mounts it (`KeycastJWTWindowNostr`). The verification of an old token answers whenever it does and sets or removes the signer then (`useWindowNostrJWT.ts:106`), so `SignerIsTheSessions` asks that no token changed during a request.
- **`ProfileForm`**: The form, the query it is filled from, uploads, the publication of the whole profile and the copies a feed's batch puts into the query. The query is answered from IndexedDB before the relays are asked (`cachedNostr.ts:33`), by the newest of the first `Limit` versions by id that were put in lately; only a background refresh brings a newer one, and not to the query. So a form can be filled from an old version that the next save publishes; what holds is that after a save the next edit starts from it or something newer (`SavedIsSeen`), unless the cache has more versions than a query looks at: `EditsStartFromSaved`, the same without that condition (`EditProfileForm.tsx:116`), does not hold. `SaveChangesTouched` asks that the profile had been read: a save before that publishes one with every other field gone (`EditProfileForm.tsx:96`). `form.reset` writes over typed text whenever the query's data changes.
- **`VideoItem`**: One video as a card and as an item of the fullscreen feed: sound, subtitles, shape, menu and dialogs. The report dialog says "Report submitted" before anything was published (`useReportContent` is called with `mutate`); Escape in a dialog also leaves the fullscreen feed.
- **`VideoParser`**: The tags of an event in every order and number up to the bound, and what `parseVideoEvent` makes of them: the version that is played, the stream, the fallbacks, the proof. A manifest lowers `verified_mobile` to `verified_web` (`ProofIsClaimed` says what holds).
- **`BandwidthTier`**: The samples, the tier and the cards that follow it. The tier is computed when a sample comes and stays as it is when samples only grow old.
- **`EdgeWorker`**: The routes of the edge worker, the names store that changes under a request, and the HTTP cache in front with the headers an answer varies by. An error is a JSON answer with an age like the names' (`jsonError`): an apex that is asked for no name, or whose store fails, says so for five minutes. What is left out of the properties because it is not so: the answers for names do not vary by the host, so that behind divine-router one subdomain's `_` answer is given for another's for as long as it is good; the application for `/video/` does not vary by the agent, so that a crawler can get it; the apex answers for names that are switched off, the subdomain does not.
- **`Reports`**: A report's way to the ticket system, the twin handlers on the edge and on Cloudflare Pages, and the history in localStorage. From a subdomain's page the report is posted to the subdomain, which answers with the profile page and makes no ticket; a lost answer makes two tickets on the second press; a signed-in user is told of success in any case.
- **`AppCaches`**: The service worker of the mobile app's web build. `FLUTTER_CACHE` has no version and each file is renewed by itself, so files of two deployments mix; images are never renewed; answers fetched before `CLEAR_CACHE` may be put in after it. When the network fails the API's last answer is given, and for fonts and images the handler's `catch` asks once more and does not keep what it gets (`Fallback`). `CatchesUp` says what is left: one visit behind at most, per file.
- **`Crawler`**: The two crawlers' handlers, queue, batches, database, ends and restarts. The claim `IsDeduplicated` (`crawler.js:19`) does not hold: two events with one video's address can be looked up before either was submitted; the second INSERT then fails, the batch is put back in front and is posted every 30 s for ever, and nothing behind it is posted. Events are noted as seen before their videos are submitted, so what a process had in its queue when it died is lost (`lost` in the model). So is, in a process that lives, a video whose handling fails after the note: a time that is no date (`crawler.js:121`) or a call of the database that fails (`LogError`, `crawler.js:87`) is only logged (line 243). In the simple crawler such a row ends the export (`Export`).

### Runs

| Run | Instance | Shows |
|---|---|---|
| `web_console` | all console parts, the login client and the parts above, 5.7 M states | `UserIsSession`, `PageIsServers`, `UnlockedIsCurrent`, `SecretIsShownOnce`, `SavedIsTheForms`, `SessionIsLive`, `SaidIsDone`, `KeptIsCurrent`, `ListsAreRead`, `CardIsAsChosen` |
| `login_logout` | two tabs | violation of `LogoutIsFinal`: a refresh under way at the logout stores its session after it (`oauth.ts:347`) |

Two users share a browser, two passwords and three keys are enough for a stale
one to be neither the first nor the last; two tabs meet in every order over one
storage. For the other parts: three events of two videos in batches of two, so
that a batch can be full, partial and hold two events of one video; two users
and the apex behind one router, with requests that overlap one change of a name;
two deployments and two requests; up to three tags beside the identifier,
versions and others, of files and streams. A profile is asked for with a limit
of two where the code has five, with as many versions as go over it. No fairness
is assumed: the properties are about moments at which nothing is under way. The
bounds of the parts with a theorem are constants of `MCConsole`.

### Proofs (`MCConsole`)

The inductive invariants are in the parts' own modules; the proofs are at the end of
`MCConsole`, for every value of its constants, in the sum's variables (its `INSTANCE`
statements say which variable of a part each of them is). Each invariant was first
checked with TLC on its part.

| Theorem | Part | Inductive invariant |
|---|---|---|
| `UnlockedIsCurrentHolds` | `ConsoleSettings` | `SettingsInv`: if no two changes were under way at once and none was lost, a request that checks the password is under way only while the settings are locked, one that changes it only while they are unlocked, each with the password the page keeps; a change of the key gives back the password it was checked with, which is still the account's; a key on its way to the page, or on it, is the account's until a new one is |
| `SessionIsLiveHolds` | `KeycastLogin` | `LiveInv`: while no two requests overlapped and no page was left with one, there is at most one, its page is there and its authorization too; the stored token is the server's, or the answer with the one that is, is on its way. `RpcIsOfCredentials` is inductive by itself |
| `UserIsSessionHolds` | `ConsoleSession` | `SessionInv`: if nothing is begun while something else is under way, a sign-in or sign-out has no check of the cookie beside it, so that an answer says whom the server acts for; between the server's answer and the form's, the session is the one the form asked for; the verification page knows nobody and asks for nothing |
| | `InjectedSigner` | `SignerInv`: if no token changes during a request, each was sent with the token its signer still has, the key a signer knows and the key that was told are of that token, and the last signer is offered, was refused or is being asked for. `OfferedIsHeld` is inductive with the types alone |
| `PageIsServersHolds` | `ConsoleSession` | `SessionInv`, `HomeInv` (a dashboard that is left is gone; its dialogs open when it has loaded) and `ReadInv`: with one thing done after another nothing is created or revoked while the list is read, and a loaded list is the server's |
| | `ConsoleAdmin` | `ListInv`: an answer on its way has what there is, and a list on the page lacks nothing but an addition about to be read and has nothing more than removals about to be told |
| | `ConsoleTeams` | `PageInv`: the same of a page of things, with the changes it is about to be told of |
| | `Reports` | `ListInv`: the list has users' reports only, in their order, and what it dropped has `MaxKept` after it; a tab that reported does not take what it has read for fresh |
| `SecretIsShownOnceHolds` | `ConsoleAdmin` | `LinkInv`: if no search is begun while a link is asked for, one is asked for at a time, for the user shown |
| | `ConsoleTeams` | `UrlInv`: one authorization is made at a time, and its form is open until its URL is on the screen |
| `SavedIsTheFormsHolds` | `PolicyForm` | `PolicyInv`: until the effect is due again the objects say what the fields say; what was added points to the object of its type, and the request says what the objects said |
| | `ProfileForm` | `ProfileInv`: the form holds the profile it was made of but for what was touched; the last save is in the cache, and an answer under way is at least as new, unless the cache had more versions than the query looked at |
| `SaidIsDoneHolds` | `Reports` | `TicketInv`: a report that was answered with 201 has its ticket, in the name of who made it |
| | `Crawler` | `CrawlInv`: a noted video is being looked up, in the queue, in a batch or with the API until the process ends, or its handling failed; a batch that is being marked was taken as a whole |
| | `VideoItem` | `DeletionInv`: whatever is asked to be deleted was asked for by the author |
| `CardIsAsChosenHolds` | `VideoItem` | `ChosenInv` and `SoundInv`: what is set on a screen is what was chosen on it, and the sound put aside is the feed's |
| | `BandwidthTier` | `CardsInv`: a card of another tier is about to be rendered |
| `KeptIsCurrentHolds` | `EdgeWorker` | `CacheInv`: what the edge keeps was kept, at a time that has passed, as the answer to some request; whoever it names holds the name asked for, or that name has changed since it was kept |
| | `AppCaches` | `FileInv`: a file of which no answer was missed is in the cache as new as it was when asked for, or on its way by one request that brings it |

Why they are needed: each property is about a moment of rest, and what would break it
is an answer that is late. The invariants say what an answer on its way can contain
(`f.says \in {Asked, session}`, `asked["export"].key = key`,
`auths[c.auth].token = c.token`), which rests on what was the case when it was asked
for. `SessionInv` without its clause on the verification page (nobody is signed in, no
admin status is waited for) is not inductive: that page's timer leads away from
whatever is shown.

`HistoryIsShown` needs that a list grows at its end only: `KeptEnd` says what
`slice(-100)` leaves and `KeptOrLater` that whatever it drops has `MaxKept` reports
after it, which stays so as more are made (`StaysLater`). `NotForgotten` needs that a
batch taken from the queue and put back has the same videos, in whatever order
(`Crawler`, lemmas on `Range` of `SubSeq` and of `\o`).

Assumed: no tab is called `"gone"` (`GoneIsNoTab`: the model's name for the tab of a
request whose page was left), no imported user `"nobody"`, and the unclaimed ones are
imported (`UsersNamed`); versions, uploads, the size of a batch and of the history are
numbers (`ProfileBounds`, `BatchSizes`, `KeptReports`), and so are the ages the edge
keeps things for (`Ages`).

Two proofs showed flaws of the model, not of the code. In `VideoItem`, a choice made in
one fullscreen was still expected in the next, which mounts its items anew: the
history variable is now reset where the screen is (`Reopened`). In `EdgeWorker`,
`Answers` was a `CASE` with guards that overlap, which has no defined value where two
of them hold; it now takes the routes in the order of `handleRequest`.

## 7. What is only model-checked

- Everything under fairness: `SyncViewConverges`, `SyncRepairs`, `LateRequestsGetErrors`,
  `FollowListCatchesUp`, `FilterCatchesUp`, `FeedSettles`.
  This prover has no rule for liveness under fairness.
- `TypeOK` of the three sums: a conjunction over all parts, of which the parts with a
  theorem have their own (`Typed`, `TakesInv`, `PageInv`).
- `PagesAreWhole`: it joins properties of six parts that compare lists built page by page
  with `SelectSeq`, folds or sorting, of which the library states no facts and whose
  induction is over data.
- `ListsAreRead`. The tier (`TierIsOfTheLast`) is taken from a weighted sum, and what is
  read from an event (`VideoParser`) from tags that `SelectSeq` picks: what a fold or
  `SelectSeq` computes for every list is induction over data. `ListedOnce` has no
  theorem of its own.

## 8. Not modelled

`PROJECT.json`, `components`, has the reason for each part. In short:

- the remaining keycast components are planned above; e-mail, naming services and
  cloud key managers hold no protocol state of their own; `backend/` is stateless;
- the mobile app: its services are planned, its user interface is view state;
- of the web client, static pages (FAQ, terms, press, support), layout, text and
  statistics that are read and shown, shadcn components; and code no page reaches:
  `useZaps`, `ZapDialog` and `ZapButton`, the hidden `WalletModal`,
  `KeycastSignupDialog`, `KeycastLoginForm`, `useKeycastSession`,
  `KeycastAutoConnect`, `VideoListBadges`, `useBulkVideoStats`, `useProfileStats`,
  `useWindowNostr`, `LandingPage`, `socialCache`; of what surrounds the pages, the
  installation prompt and the analytics;
- of the static site (`frontend-mobile/website`), all but the watch page:
  `profile.html` is served at `/u/*` while its script refuses any path with a slash,
  so that it always shows its error; `router.js` is loaded by `index-backup.html`
  only; the other pages are text or play one fixed video;
- of the mobile web build and the edge, the geo-blocker (one answer per request, no
  state) and the Cloudflare Pages functions other than the reports' handler;
- a code or token's exchange is one step of the server in `KeycastLogin` (its two
  statements are planned as `OAuthTokens`), and a request of the console that was lost is
  not served later;
- of the console, the activity pages, what is only shown, and the effect on
  `keycastCookie` in `+layout.svelte`, which nothing sets.
