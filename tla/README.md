# Fastcat in TLA+

Fastcat is a VPN client (a Flutter app, a core process in Go, native services
for Android, iOS, tvOS and Windows) and a *device gateway*: a Go server that
stands between the clients and the business panel, limits the devices of an
account, hands out sessions and survives the loss of a panel backend or of a
gateway. This directory models the gateway, which is concurrent, persistent,
replicated and driven by failures, and the three parts of the client whose
behaviour is hard to test: its choice among gateways, its QR card, and the VPN
service of the Android app down to the TUN of the core.

Paths below are relative to `src/`; `main.go` is `device_gateway/main.go` and
`store_postgres.go` is `device_gateway/store_postgres.go`.

## 1. Inventory

| Component | State | Operations | What is hard | What makes it correct |
|---|---|---|---|---|
| **Device store** (`main.go` 128-205, 1224-1451, 1908-2140, 2385-2520, 3407-3610, 4262-4312) | users, devices, sessions, dirty marks, revision; a JSON file or PostgreSQL | sign-in, authorise, subscribe, list and revoke devices, heartbeat, admin revoke and limit, hourly cleanup, save, load | saves that fail or commit unseen, crash, expiry saved after unlock, copies of records used after the lock, two policies at the limit | a granted session survives a restart; an ended one stays ended; the limit holds; the records agree |
| **Business failover** (`main.go` 2523-2750, 2978-3036, 860-884) | circuit per backend, active backend and since when, configured list | choose, try, retry, mark, probe, vote, promote, refresh | requests, checker and refresh decide on what they read earlier; client aborts | the active backend is in rotation; nothing is replayed; the gateway fails back |
| **QR sign-in** (`main.go` 86-100, 1039-1211) | challenges in memory | create, poll, approve, cancel | an approval releases the lock to call the backend and to admit | one admission, one delivery, cancelled means nobody; no approval hangs |
| **Gateways over one database** (`main.go` 3500-3610, 4314-4355, `store_postgres.go`) | the database, one copy per gateway, marks, loads in flight | save marked rows, load, install, reload on a miss | loads torn between tables and overtaken by writes, whole-row upserts from old copies | grants are durable and accepted; copies converge; revocations hold |
| Remote configuration of the gateway (`main.go` 341-731) | cached document, version | fetch, verify, cache | old versions from slow mirrors | the newest verified document wins |
| Admin pages and health (`admin_health.go`, `main.go` 2750-2939) | none of its own | read-only samples | - | - |
| **Client gateways** (`lib/xboard/config/gateway_config.dart`, the failover loop of `http_service.dart`, `sdk_provider.dart`) | candidate pool, active gateway and since when, votes, configured order, endpoint of the SDK, requests | configure, log in, verify, probe, fail over, retry, fail back | everything that awaits goes on from what it read; four ways to rebuild the pool; nested retries | the pool is complete and the SDK within it; a failback is earned; retries go elsewhere and requests end; the app returns to the first gateway |
| **QR card** (`lib/xboard/features/auth/widgets/qr_login_card.dart`, `qr_login_service.dart`) | challenge shown, timers, loading, enabled | create, refresh, poll, enable, disable, sign in | requests and answers that are late, lost, or about another challenge | no live code is lost; a good code is polled; loading ends |
| Core control (`core/hub.go`, `common.go`, `action.go`) | running flag, listeners, current configuration | setup, start, stop, update, shutdown | shutdown outside the lock; rollback of a configuration | listeners follow the last accepted configuration |
| **Core on Android** (`core/lib_android.go`) | TUN, goroutines of start and stop | start, stop | each spawns a goroutine: unordered | a TUN that is lost is noticed |
| Core link of the desktop app (`lib/clash/service.dart`) | socket, pending answers | start, send, restart, destroy | completers replaced across awaits | every call is answered |
| **Android service** (`android/.../GlobalState.kt`, `VpnPlugin.kt`, `FastCatVpnService.kt`, `_service` of `lib/main.dart`) | run state, intent on disk, service, binding, engines, heartbeat, poll | start, stop, tile, heartbeat, recovery, revocation, process death and recreation | coroutines that suspend across a stop, binder callbacks, three engines' worth of start-up, the order of goroutines below | a stop holds; a recovery ends |
| Windows helper (`services/helper/`) | one child process | start, stop, logs | little: one mutex | one child at most |
| Remote configuration, domain racing, panel SDK of the app | caches | fetch | network only | - |
| `core/Clash.Meta`, plugins, screens, tvOS app | - | - | vendored code or user interface | - |

How they interact: a client talks HTTP to a gateway; the handler authorises
against the store (**device store**), asks a backend (**failover**) and answers.
A phone's approval (**QR**) ends in the same admission as a sign-in. Gateways
share only the database (**cluster**). The app chooses among gateways (**client
gateways**), shows a code on a PC or a TV (**QR card**), and drives the core over
a socket, or through JNI from the **Android service**.

## 2. Modules

| Module | Models | Proofs | Instances |
|---|---|---|---|
| `DeviceStore` | one gateway process and its store | `DeviceStoreProofs` | `MCDeviceStore` with `_lifetime.cfg`, `_kick.cfg` |
| `TokenContract` | what the gateway promises the holders of its tokens (abstract) | `DeviceStoreRefinement` | as `KeepsPromise` in `MCDeviceStore_lifetime.cfg` |
| `BusinessFailover` | the choice of a backend | `BusinessFailoverProofs` | `MCBusinessFailover` with `.cfg`, `_flap.cfg`, `_abort.cfg` |
| `QRLogin` | the challenges of a gateway | `QRCardProofs` | (through `QRCard`) |
| `QRCard` | the card of a target, composed with `QRLogin` | `QRCardProofs` | `MCQRCard` with `.cfg` |
| `GatewayCluster` | several gateways, one database | `GatewayClusterProofs` | `MCGatewayCluster` with `.cfg`, `_undone.cfg`, `_stuck.cfg` |
| `ClientGateways` | the app's gateway runtime and the requests that drive it | `ClientGatewaysProofs` | `MCClientGateways` with `.cfg`, `_failback.cfg` |
| `CoreTun` | the TUN of the core and its goroutines | `AndroidVpnProofs` | (through `AndroidVpn`) |
| `AndroidVpn` | the VPN of the Android app, over `CoreTun` | `AndroidVpnProofs` | `MCAndroidVpn` with `.cfg` |
| `Lists` | filters of lists, used by both failovers | `ListProofs` | (through them) |

`PROJECT.json` maps every definition to the lines it translates. Definitions
whose comment says *Faulty variant* are not part of any specification: they are
what a plausible bug would make of the definition they precede, and each
property is broken by one of them.

### DeviceStore

State: `now`; `users` (cached limit and override), `devices` (by user and
installation: `findDeviceByHashLocked` finds at most one), `sessions`, `disk`
(what a restart loads); `owed` (sessions whose expiry is marked and whose `Save`
comes after the unlock, main.go 1953-1955); `open` (requests authorised and not
yet finished, with the copy of the session they hold); and two ghosts, `granted`
(tokens that reached a client) and `ended` (sessions whose end was answered with
success). A session stands for its gateway token and its subscription token,
which are created and checked alike.

Every handler is one critical section of `store.mu`, its save included, and each
save has three outcomes: saved, failed, and committed but reported as failed. In
all three the memory keeps the change. A handler that calls the panel between two
sections (authorise, then rewrite the subscription, 2254-2310; the proxied
request, 3100-3120) is two actions. The clock read before the lock in
`admitDevice` is read inside it in the model. A device deleted by the cleanup and
created again has the same key in the model and a fresh random identity in the
code.

### BusinessFailover

State: the environment's `answers`; `route` (the configured list), `unsynced` (a
refresh wrote the list under one lock and has not yet adjusted the states under
the other, 879-884); `states`, `active`, `held` (time since it became active);
`check` (the recovery checker between its locked sections) and `reqs` (requests
with the list they took at their start). A request reads the configuration and
the states in one step. A probe and the write of the new list are one step of the
refresh. `answers` says whether a backend answers and how: a probe counts as good
on 2xx only (2747), a request as answered below 500 (2995, 3014), and one value
stands for both. An aborted request is one whose client went away. The error of
`makeReq` (2982-2986) is left out: it needs an address that cannot be parsed, and
every list is parsed when it is read (621, 773).

`TokenContract` says what all of this amounts to for a client: tokens that work,
tokens that would work after a restart, tokens that were issued and tokens whose
end was told. Its steps are *End*, *SignIn* and *Restart*. `DeviceStore!Promise`
instantiates it: `working` are the sessions that would be let in now (status,
expiry, device), `durable` those that the saved copy would let in after a restart,
`issued` is `granted` and `over` is `ended`. The contract does not know devices,
limits, clocks or files.

### QRLogin and QRCard

`QRLogin`: `status` and `expired` per challenge, `approvals` in flight (the three
locked or remote steps of `handleQRApprove`), and the ghosts `admitted`,
`delivered`, `cancelled`. `Expire` is when two minutes have passed; the challenge
is dropped by the next create or poll, as in the code. `Admit` is all of the
admission into the store, which `DeviceStore` models. `Response` is set with the
status "approved" and with no other, so it needs no variable.

`QRCard` extends it with one card: `shown`, `marked`, `loading`, `timers` (both
timers start and stop together), `enabled` and `mounted` are its fields; `creates`
are the calls of `_create`, each with the locals it keeps across its awaits;
`polls` are the polls under way with the answer on its way; `signing` counts the
calls of `onAuthorized`. Every request may be lost before or after the gateway has
handled it. `mine` and `left` are history: the challenges created for this card,
and those it took for expired, never heard of or lost to another call; `threw`, that
a call of `onAuthorized` ended with an exception (`clearToken`, called in the catch
block of `loginWithQrToken`), after which `_poll` swallows it and the card goes on
loading (185, 196). The card's
clock agrees with the gateway's. The five seconds before a refresh are left out:
the user may always refresh. Whatever a closed card still has under way counts as
another target's (`Elsewhere`).

### GatewayCluster

State: `db`; per gateway `mem` (its copy), `dirty` (its marks), `load` (the
loads in flight, with the contents read so far and whether the revision moved
since they began); `serving`; and the ghost `granted` (which gateway handed a
session out, until something ends it). A save writes every marked row whole
(`SaveChanges`). A load reads devices and sessions in two steps, as the queries
of `LoadAll` do, and is installed only if the revision is unchanged and nothing
is marked. Device identities are random here, so two gateways may create two
records for one installation. Contents of a load that will not be installed are
dropped. A save may fail, or be committed and not answered in time; the marks then
wait for the next save of that gateway. A revocation that waits so
(`RevocationUnsaved`) counts as the end of whatever other gateways grant on its
device meanwhile. Left to `DeviceStore`: the clock, expiry, cleanup, limits and
`kick_oldest`; there is one user and one limit.

### ClientGateways

State: `declared` and `order` (the configured addresses, as listed, perhaps with
repetitions, and as the promotions have reordered them, each where it comes first,
since every reader of the list skips what it has seen), `remote` (version), the pool (`active`, `list`,
`info`: failures and circuit of each candidate, `since`, `counts`), the recovery
check (`probe`), verifications (`check`), the start of the app (`stage`, with the
gateway `saved` in the preferences, which a launch makes active before anything is
verified, over the configuration it reads), the endpoint of the SDK (`sdk`) and the requests (`req`), with the URLs already tried
and those of the retries that enclose the present one: a retry passes through the
interceptors again, so `onError` nests. One isolate runs all of it: an action is
the code between two suspensions. `streak` is history. Failure counts are capped
at the threshold, beyond which they change nothing, and so are votes. A loop makes
eight retries at most, a limit that fewer than nine gateways never reach:
`RetriesMoveOn` says so, and the model leaves the limit out for that reason.

### CoreTun and AndroidVpn

`CoreTun` counts the goroutines that wait for `tunLock`, by what they will do:
stops, starts before their `handleStopTun`, and starts between their two locked
sections. `AndroidVpn` extends it with the service: `desired` is on disk, the rest
of `osVars` is Android's; `stateVars` belong to `GlobalState` and `VpnPlugin`;
`beatVars` to the heartbeat, with its failures and its three stages (rebuild the
TUN, restart the core, restart the engine); `msgVars` are coroutines, posts and
messages under way; `appVars` are the engines, of which the service's may be
starting, ready, or failed before its quick start did anything. `alwaysOn` is the
system's setting and `command` a start of the service with its intent, the app's or
the system's. The handlers of the service are actions, since the main thread runs
them one at a time; the heartbeat, of the job or of a status poll, and the status
poll itself are split where they suspend. The code counts the failures of the
control plane on beyond the limit; the model stops counting there, since nothing
distinguishes those counts. `off` is history: the VPN showed as on, the user stopped
it, the system does not keep it on, and nothing was under way that has looked at the
intent for the last time (`StartUnderWay`); a start by the user, the tile or the
system ends it. The VPN mode only: `FastCatService`, the notification and the
network callbacks are left out.

## 3. Runs

| Run | Asks | Bounds |
|---|---|---|
| `store_lifetime` | Do the records agree, in memory and on disk? Are granted sessions durable, ends final, used devices safe from cleanup, the limit kept, and is `TokenContract` implemented? | strict policy, one user, two installations, two sessions, limits 1 and 2, clock 0..2, all lifetimes 0 or 1 tick: expiry, offline and purge all happen, and a session ends while the other installation takes the slot; 422,471 states |
| `store_kick_oldest` | Does eviction take as many as needed, and finally? | three installations and sessions, limit 1 or 2: a lowered limit needs two evictions; clock 0, so all devices tie |
| `failover` | Is the active backend in rotation, is nothing replayed, does the gateway fail back, do requests end? | two backends, one request, threshold and votes 2, cooldown and hold 1; the first backend leaves the list and returns; 390,753 states |
| `failover_flap` | Does a failback last? *No.* | as above with one list |
| `failover_abort` | Does a backend that never fails stay in rotation? *No.* | as above, one backend fallible |
| `qr_login` | One admission, one delivery, cancelled admits nobody, approvals settle? Does the card lose no live code, poll what it shows as good, and never load for good? | two challenges (one replaces the other, or belongs to another target), two phones, one call of `_create` and one poll at a time; 1,015,911 states |
| `android_vpn` | Does a stop hold, is a lost TUN noticed, does a recovery end? | failure limit 2 (the code's is 3); two events of the user or the system, from a fresh process, or from a VPN that runs with the app open, or with the app closed and the tile clicked; one goroutine that stops and one that starts waiting for the lock; 711,889 states |
| `client_gateways` | Is the pool complete and the SDK in it, is a failback earned, does each retry go elsewhere, do requests end, does the app return to the first gateway? | three gateways, as many as the nesting of retries needs, two configurations, one of which leaves a gateway out and lists another twice, one verification, one request, thresholds 2 (the recovery threshold of the code is 3), three events; 358,036 states |
| `client_gateways_failback` | Does it return to the gateway the configuration declares first? *No.* | as above |
| `cluster` | Are grants durable and accepted, do copies converge? | two gateways, two installations, one device record, two sessions, the periodic loader, saves with all three outcomes; 320,214 states |
| `cluster_revocation_undone` | Does a revocation hold? *No.* | as above, saves succeed |
| `cluster_sync_blocked` | Do others' writes become visible? *No.* | as above, saves succeed |

Why the bounds are enough: the hazards need two parties (two devices for a slot,
two backends, two phones, two gateways) and one event between two steps of one of
them; each run has both with room for a repetition. `MCAndroidVpn` adds
initial states in which the VPN runs, which take two events or more to reach, so that
the events of the bound can befall a running VPN. For the cluster, two device
records, and separately two loaders, were also checked for the safety properties
with saves that succeed (about 0.8 and 0.95 million states). With one device record
no gateway has anything to save, while a revocation waits, but the revocation; the
case that `RevocationUnsaved` speaks of takes two records and three sessions, and is
left to the proof. And for the client gateways two requests at
once (0.5 million). Overlapping creations and polls of the card, and goroutines
and events beyond the bounds of `android_vpn`, are covered by the proofs of their
safety properties, which have no bounds. Symmetry is used only in the two store
runs, which check safety only; installations and sessions are interchangeable
there. Deadlock is checked in the runs whose specification always has a step to
take; it is not in `qr_login`, `android_vpn` and the two runs of the client
gateways, where the challenges or the bounded events run out and everything may
rest.

The five runs that end in a violation are disagreements between the code and its
documentation:

1. **A failback can be undone** (main.go 3014, 2602 against the comment at
   2655-2657): a late success makes its backend active, whatever happened since.
2. **Aborted requests open circuits** (2989 against `device_gateway/README.md`
   92-93): the error of a cancelled client context counts as a failure.
3. **A revocation can be undone** (1973, `store_postgres.go` 343, against
   `device_gateway/README.md` 73-75): a gateway with an old copy writes the whole
   device row, status included.
4. **A refused sign-in stops synchronisation** (1321, 3521, 4325 against the
   comment at 4314): the user stays marked and unsaved, and every reload returns
   early while anything is marked, until the gateway saves something else.
5. **The app does not return to the declared gateway** (`sdk_provider.dart` 106
   with `xboard_config_accessor.dart` 333-338, against the comment at
   `gateway_config.dart` 604-606): a failover reorders the configured list itself,
   so the backup counts as the first gateway while it works. `FailsBack` in the
   passing run is the same property for the reordered list, and holds.

Other things met while reading, which no run is about:

- *QR card.* A late "expired" answer is taken as one about the code now shown
  (`qr_login_card.dart` 194): that code is then replaced without being cancelled,
  though a phone can still approve it, while the comment at 170-172 says expired
  challenges are unusable. A clock that runs ahead of the gateway's does the same.
  `LiveCodesShown` leaves these codes out by `left`. A sign-in that throws
  (`clearToken`, `xboard_user_provider.dart` 686, in its catch block) leaves the card
  loading for good: `_poll` catches it at 196 without resetting `_loading`.
  `LoadingHasOwner` and `GoodCodeIsPolled` leave it out by `threw`. The answer "cancelled" for a
  challenge the gateway does not know may come while an approval still admits its
  target.
- *Android.* `onRevoke` (`FastCatVpnService.kt` 322-330) leaves the health of the
  connection as it was, so the next status poll shows a started VPN again. With
  the app open during a recovery start, the engine that recovers is destroyed.
  A tile's start with a service engine and no app sets `PENDING` and nothing else.
  A stop is undone by what has looked at the intent for the last time: a service
  still being started or bound, a quick start, a restart coroutine that was launched
  before (`GlobalState.kt` 162-174), and the TUN rebuild of a status poll's
  heartbeat, which a stop does not cancel (`VpnPlugin.kt` 547-553, 279-282) and which
  looks at the intent at 441, before it waits for the main thread at 443. `StopHolds`
  is about stops that meet none of these (`StartUnderWay`). The system's always-on
  setting starts the VPN whatever the user stopped in the app
  (`FastCatVpnService.kt` 50-51, 61-64).
  A recovery ends with neither a running nor a stopped VPN when the quick start
  throws before its try block (`main.dart` 355, 442-446: `initGeo` catches
  `FlutterError` only), the intent on disk still set; and after a stop and a start
  through the same binding the service is bound and not started, so that the death of
  the process is followed by no recreation. `RecoveryEnds` leaves both out
  (`Unrecovered`).
- *Client gateways.* The retry loop counts a failed retry twice, and marks as
  successful the URL it noted before the retry (`http_service.dart` 262-270). The
  circuit of the active gateway never opens, since each sync gives the active
  candidate fresh counts (`gateway_config.dart` 462-476).

## 4. Fairness

- *Failover*: the checker runs on a ticker (`startBusinessRecoveryChecker`), a
  probe and a request have timeouts, time passes: weak fairness on the checker's
  steps, the second half of a refresh, the clock, and the progress of a request
  that was begun. Nothing makes clients act or backends fail or recover.
- *QR*: an approval that began goes on, since its call has a timeout.
- *Cluster*: the ticker of `syncPostgresLoop` starts loads, and loads end by an
  answer or a timeout (weak fairness); a database asked again and again answers
  again and again (strong fairness on the periodic load alone).
- *Client gateways*: a verification, a probe and a request have timeouts, the
  recovery check has a ticker (`_startRecoveryChecker`), the time of the minimum
  hold passes, and the start of the app goes on. Nothing makes gateways fail or
  recover, or configurations come.
- *Android*: goroutines get the lock, callbacks and posts that are due are run,
  the heartbeat has a period and a timeout, a coroutine that was resumed goes on,
  a started service is recreated. The service is not required to be destroyed, the
  user owes nothing.
- *QR card*: as QR; the user, the network and the clock owe nothing.
- *Store*: no liveness is claimed.

## 5. Proofs

All theorems hold for every value of the constants that satisfies the named
assumption of the module (`StoreAssumption`, `FailoverAssumption`,
`QRAssumption`, `ClusterAssumption`, `FailureLimitAssumption` and
`BoundsAssumption`, `ThresholdsAssumption` with `BundlesAssumption` and
`RetriesAssumption`).

- **DeviceStore**: `IInv` is inductive (`Invariance`). `StoreConsistent` and
  `GrantedSurvivesRestart` are not inductive alone: a save copies memory to disk,
  so what holds of one must hold of the other (`GrantedOnDisk`, `EndOnRecord`),
  and the argument that a device in use is not swept needs that a session and its
  device were seen at the same time (`SeenTogether`). Lemmas treat the helpers
  (upsert, revoke, persist) once; each handler then has a lemma. The action
  properties follow from `IInv` and a case split on the actions.
- **BusinessFailover**: `ActiveInRotation` by cases on the two marks, which are
  the only writers of the active backend with the sync; `NeverReplayed` with a
  strengthening that ties the attempts of a request that is not safe to its
  state: nothing sent before it starts, one afterwards, and no second try.
  `TypeCorrect` has to know that what is worked off is never empty: that there is a
  backend to try even with all circuits open (`SomeURL`), and that a request or the
  checker goes on only with a rest that has an element (`LongTail`, `Onwards`).
- **Lists**: what `Filter` and `Distinct` return for a list of any length, which
  the two failovers keep needing. `ElementsAt` is a recursive function over the
  prefixes of a list. `ElementsAtSteps` first shows that the recursion has a
  solution and unfolds it; the facts then follow by induction over the length.
  The induction theorems of the library take a predicate as a parameter, which the
  provers cannot instantiate; instead, `<` is well-founded on the numbers, so the
  set of lengths for which a fact fails has a least element (`NatLeast`,
  `SetInduction`). TLC compares both operators with `SelectSeq` and with the loop
  of the code (`FilterIsSelectSeq`, `DistinctIsTheLoop`).
- **QRLogin** (in `QRCardProofs`): `Inv` adds to the type that an approval in flight holds its
  challenge alone (`Held`) and what each settled state says about the ghosts
  (`Settled`). The three safety properties follow.
- **DeviceStoreRefinement**: each step of the store is *SignIn*, *Restart* or *End*
  under the mapping. The argument rests on `IInv`, which gives the contract's
  `Kept`, and on what holds of every step: time and ends only go forward, the saved
  copy stays or becomes the memory, only a sign-in issues a token, and nothing but
  a sign-in or a restart makes one work.
- **QRCard**: first `CallInv` (the types, and that a call of `_create` remembers a
  challenge of this card), from which every step of the card is a step of
  `QRLogin` or leaves the gateway alone (`CardIsATarget`), so the theorems about
  `QRLogin` hold with the card. `LiveCodesShown` is not inductive: `LossInv` adds
  that the challenges of the card were born (`Born`) and that a call past its
  cancellation has its old challenge gone (`OldIsGone`), for which the gateway's
  steps must never take a status back (`GatewayForward`).
- **AndroidVpn**: `StopHolds` with `StopInv`: after a stop nothing is left that could
  start the VPN without looking at the intent, i.e. no binding or start of the
  service under way, no launched restart, no quick engine, no rebuild, and no
  always-on setting (`NothingLeft`), whatever the goroutines of the core still do;
  what goes on after the stop, status polls and their heartbeats included, finds the
  intent cleared.
- **ClientGateways**: `FailbackEarned` with `VoteInv`: no candidate has more votes
  than good probes in a row since the active gateway was chosen (`Votes`), and
  while a probe started under an earlier active gateway is under way nobody has a
  vote (`Polled`). That proof does not look into the pool.
  `TypeOK` and `PoolComplete` are not inductive, and neither is without the other:
  a candidate that a verification writes back comes from a queue read earlier, an
  address that a promotion moves comes from the trail of a request, and the SDK
  follows the active gateway. `TypeInv` is their common strengthening: a pool whose
  candidates are different and complete (`PoolInv`), running checks that have a
  candidate left (`JobsInv`; the active gateway's version is the current one, so
  a verification never starts with an empty queue, `QueuedJob`), calls that report
  only to a retry there is (`CallsInv`), and votes that count what `streak` counts
  (`CountInv`). The bound of the votes needs one more fact: a probe whose gateway
  became active meanwhile finds no votes to add to, so it does not promote what is
  active already. Each part has a lemma for every step (`PoolStays`, `JobsStay`,
  `CallsStay`, `CountsStay`, `RestStays`).
  `RetriesMoveOn` rests on `CallsInv` as well: the gateways of the retries under
  way are different and all tried, and the first failure was put down to yet
  another (`Moving`); the depth follows by counting. `SdkInPool` is inductive
  given `TypeInv`.
- **GatewayCluster**: `Agreement` is inductive, however saves end: the rows that
  wait to be saved exist, and none is a revocation of the device of a granted
  session; whatever a load in progress has read and will install agrees with the
  database about granted sessions, and a load that was not overtaken has no marks to
  lose; and the rows that other gateways may write from old copies leave a granted
  session and the activity of its device alone. The last is why a stale upsert,
  which can undo a *revocation*, cannot undo a *grant*.

Only model-checked: every liveness property (`FailsBack`, `RequestsEnd`,
`ApprovalSettles`, `CopiesConverge`, `LostTunnelNoticed`, `RecoveryEnds`), since
liveness under fairness is out of the prover's reach. Every invariant and every
action property of the passing runs is proved.

## 6. Not modelled

- The limit across gateways: each counts on its copy, so two may admit one device
  each into the last slot; no document promises otherwise.
- Tokens, ciphers, IP lookup, formats and wording; the audit log, which decides
  nothing.
- Of the client gateways: the API prefix, `refresh()` of the running app (it goes
  through the initialisation again; a relaunch of the process is modelled), and the
  operations that nothing in `lib/` calls. A configuration that arrives is always
  newer, and the accessor's write and the listener's sync that follows in a microtask
  (`xboard_config_accessor.dart` 524-535, `sdk_provider.dart` 146-151) are one step.
- Of the QR sign-in: a phone's session that is revoked while its approval calls
  the backend, which needs `QRLogin` composed with `DeviceStore`.
- The remote configuration of the gateway and of the app, core control, and the
  core link of the desktop app: planned, below.
- Encryption, the admin pages, the Windows helper, the screens: nothing to
  interleave, or no state of their own. `core/Clash.Meta` is vendored.

## 7. Plan

1. `GatewayConfig`: the remote document, its versions, mirrors and cache.
2. `CoreControl`: the core's lock, listeners and configuration transaction, with
   the shutdown that does not take the lock.
3. `CoreLink`: the socket of the desktop app and its completers.
4. The cluster with a clock; `QRLogin` over `DeviceStore` for the phone's session.
