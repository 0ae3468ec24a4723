--------------------------- MODULE ClientGateways ---------------------------
(***************************************************************************)
(* The gateway runtime of the app (GatewayRuntimeService), the failover    *)
(* loop of the panel SDK that drives it (HttpService) and the glue between *)
(* them (sdk_provider.dart).  One isolate runs all of it: a step below is  *)
(* the code between two suspensions, and everything that awaits (a         *)
(* verification, a recovery probe, a request with its nested retries) goes *)
(* on from what it read before.                                            *)
(*                                                                         *)
(* Left out because they cannot differ from what is kept: the version tag, *)
(* the memory cache and the last known good endpoint always name the       *)
(* active gateway (applyRuntimeConfig sets all four; setCachedGatewayUrl,  *)
(* which sets the cache first, calls it through markSuccess), so the cache *)
(* is no candidate of its own in syncFromCurrentConfig and the fallback of *)
(* nextFailoverCandidate to the last known good one is never taken.        *)
(***************************************************************************)
EXTENDS Integers, Sequences, FiniteSets, SequencesExt, Lists

CONSTANTS Gateways,           \* base URLs
          Bundles,            \* the gateway_urls a remote configuration may list,
                              \* some of them perhaps twice
          Checkers, Requests, \* concurrent verifications and SDK requests
          FailureThreshold,   \* _failureThreshold
          RecoveryThreshold,  \* _recoverySuccessThreshold
          MaxEvents           \* bound: changes of health, requests, configurations

ASSUME BundlesAssumption == Bundles \subseteq Seq(Gateways) \ {<<>>}

\* The loop stops after 8 retries, which fewer than 9 gateways never reach
\* (RetriesMoveOn).
ASSUME RetriesAssumption == IsFiniteSet(Gateways) /\ Cardinality(Gateways) <= 8

ASSUME ThresholdsAssumption ==
  FailureThreshold \in Nat \ {0} /\ RecoveryThreshold \in Nat \ {0, 1} /\ MaxEvents \in Nat

VARIABLES
  up,        \* the gateways that answer
  declared,  \* gateway_urls, as the last configuration or login listed them
  order,     \* XBoardConfig.gatewayUrls: the same, as promotions have reordered it,
             \* each address where it first comes: its readers skip the second
  remote,    \* config_version
  saved,     \* gateway_cached_url in the shared preferences, or "none"; kept until
             \* the app runs, when logins and promotions write it for the next launch
  active,    \* _activeConfig: its failure count is always 0
  list,      \* _candidates, in order, and what each candidate carries
  info,
  since,     \* _activeSince: "never" set, "recent" or older than _backupMinHold
  counts,    \* _recoverySuccessCounts
  probe,     \* the recovery check: the candidates it still has to probe, or idle
  check,     \* verifyAndActivateBestCandidate: the queue left and whether it runs
  stage,     \* start of the app, up to the creation of the SDK
  sdk,       \* HttpService.baseUrl
  tag,       \* the version tag the SDK was created with
  req,       \* requests: target, gateways tried, URLs of the enclosing retries
  events,
  streak     \* history: good probes in a row since the active gateway last changed

config == <<declared, order, remote, saved>>
pool == <<active, list, info, since, counts>>
app == <<stage, sdk, tag>>
vars == <<up, config, pool, probe, check, app, req, events, streak>>

Event == events < MaxEvents /\ events' = events + 1

Listed == DOMAIN info

\* A candidate as addCandidate makes it: version tag, failures (capped at the
\* threshold, past which they change nothing) and whether disabledUntil is ahead.
Info == [ver : Nat, fails : 0..FailureThreshold, open : BOOLEAN]
Clean(ver) == [ver |-> ver, fails |-> 0, open |-> FALSE]
Snapshot(us, f) == [i \in 1..Len(us) |-> [url |-> us[i], rec |-> f[us[i]]]]

Idle == [on |-> FALSE, queue |-> <<>>, tried |-> {}]
Running(queue) == [on |-> TRUE, queue |-> queue, tried |-> {}]
NoRequest == [st |-> "idle", at |-> "none", tried |-> {}, trail |-> <<>>]

-----------------------------------------------------------------------------
(* The candidate pool. *)

\* syncFromCurrentConfig, over candidates inf: the active endpoint act with its own
\* fields, then the configured addresses with the fields they had; the others go.
Without(ord, u) == Filter(ord, Gateways \ {u})
SyncedList(act, ord) == <<act.url>> \o Without(ord, act.url)
SyncedInfo(act, ord, ver, inf) ==
  [u \in Range(ord) \cup {act.url} |->
    IF u = act.url THEN Clean(act.ver)
    ELSE IF u \in DOMAIN inf THEN inf[u] ELSE Clean(ver)]

SyncPool(inf) ==
  list' = SyncedList(active', order') /\ info' = SyncedInfo(active', order', remote', inf)
Sync(inf) == UNCHANGED <<active, since, counts>> /\ SyncPool(inf)

\* markFailure, as far as it goes before syncFromCurrentConfig; the second
\* failure opens the circuit, and so does every one after it.
Failed(inf, u) ==
  LET old == IF u \in DOMAIN inf THEN inf[u] ELSE Clean(remote)
      fails == IF old.fails < FailureThreshold THEN old.fails + 1 ELSE old.fails
  IN [x \in DOMAIN inf \cup {u} |->
       IF x # u THEN inf[x]
       ELSE [old EXCEPT !.fails = fails, !.open = @ \/ fails = FailureThreshold]]

\* _upsertCandidate: a failed verification writes back the candidate it read.
UpsertedList(c) == IF c.url \in Listed THEN list ELSE Append(list, c.url)
UpsertedInfo(c) == [u \in Listed \cup {c.url} |-> IF u = c.url THEN c.rec ELSE info[u]]
Upsert(c) ==
  /\ list' = UpsertedList(c) /\ info' = UpsertedInfo(c)
  /\ UNCHANGED <<active, since, counts>>

\* A gateway becomes active: its hold and the streaks begin if it was not.
Activate(u, ver) ==
  /\ active' = [url |-> u, ver |-> ver]
  /\ since' = IF active.url = u /\ since # "never" THEN since ELSE "recent"
  /\ counts' = IF active.url = u THEN counts ELSE [x \in Gateways |-> 0]

\* Faulty variants: the streaks of the previous gateway stay; a working
\* gateway that is not configured retires with the others.
ApplyKeepingCounts(li, inf, u, ver) ==
  LET kept == {u} \cup {x \in DOMAIN inf : u \in Range(order) => x \in Range(order)}
  IN /\ active' = [url |-> u, ver |-> ver]
     /\ list' = <<u>> \o Filter(li, kept \ {u})
     /\ info' = [x \in kept |-> IF x = u THEN Clean(ver) ELSE inf[x]]
     /\ since' = IF active.url = u /\ since # "never" THEN since ELSE "recent"
     /\ counts' = counts

ApplyRetiring(li, inf, u, ver) ==
  LET kept == {x \in DOMAIN inf : x \in Range(order)}
  IN /\ Activate(u, ver)
     /\ list' = Filter(<<u>> \o Without(li, u), kept)
     /\ info' = [x \in kept |-> IF x = u THEN Clean(ver) ELSE inf[x]]

\* applyRuntimeConfig, over the candidates li and inf: once a configured address
\* is in use, the others retire.
ApplyTo(li, inf, u, ver) ==
  LET kept == {u} \cup {x \in DOMAIN inf : u \in Range(order) => x \in Range(order)}
  IN /\ Activate(u, ver)
     /\ list' = <<u>> \o Filter(li, kept \ {u})
     /\ info' = [x \in kept |-> IF x = u THEN Clean(ver) ELSE inf[x]]

Apply(u, ver) == ApplyTo(list, info, u, ver)

\* Every change of the pool is emitted, and the SDK follows the active gateway;
\* in the faulty variant only to a gateway it did not know.
EmitNew ==
  /\ sdk' = IF stage = "running" /\ active'.url \notin Listed THEN active'.url ELSE sdk
  /\ UNCHANGED <<stage, tag>>

Emit ==
  /\ sdk' = IF stage = "running" THEN active'.url ELSE sdk
  /\ UNCHANGED <<stage, tag>>

\* _candidatesInConfiguredPriorityOrder
Prioritised ==
  Filter(order, Listed) \o Filter(list, Listed \ Range(order))

\* The candidates before the active one: what a recovery check probes.  The
\* faulty variant goes by the order of the pool.
AboveInPool == SubSeq(list, 1, SelectInSeq(list, LAMBDA u : u = active.url) - 1)
Above ==
  LET all == Prioritised
  IN SubSeq(all, 1, SelectInSeq(all, LAMBDA u : u = active.url) - 1)

-----------------------------------------------------------------------------
(* Verification. *)

\* The queue of verifyAndActivateBestCandidate, older versions rejected.
Queue(us, inf, act) ==
  Running(Snapshot(Filter(us, {u \in DOMAIN inf : inf[u].ver >= act.ver}), inf))

\* A launch of the app: gateway_cached_url, if the last session left one; else the
\* endpoint that session stored (with the version it had), if any; else the first
\* configured one.
Init ==
  /\ up \in SUBSET Gateways
  /\ declared \in Bundles /\ order = Distinct(declared) /\ remote = 1
  /\ \/ saved \in Gateways /\ active = [url |-> saved, ver |-> remote] /\ since = "recent"
     \/ saved = "none" /\ since = "recent"
          /\ \E u \in Gateways, v \in 0..1 : active = [url |-> u, ver |-> v]
     \/ saved = "none" /\ active = [url |-> Head(order), ver |-> remote] /\ since = "never"
  /\ list = SyncedList(active, order)
  /\ info = SyncedInfo(active, order, remote, <<>>)
  /\ counts = [u \in Gateways |-> 0] /\ streak = counts
  /\ probe = Idle
  /\ \E c \in Checkers :
       check = [k \in Checkers |-> IF k = c THEN Queue(Prioritised, info, active) ELSE Idle]
  /\ stage = "launching" /\ sdk = active.url /\ tag = 0
  /\ req = [r \in Requests |-> NoRequest]
  /\ events = 0

\* A newer remote configuration is read.
ReadConfig(urls) ==
  /\ order' = Distinct(urls) /\ declared' = urls /\ UNCHANGED saved
  /\ remote' = remote + 1

\* The user retries after a failed start: the configuration is read again, the cached
\* gateway becomes active again (setCachedGatewayUrl), whatever the failed start
\* had found, and bootstrapFromCurrentConfig syncs.
Relaunch ==
  /\ Event /\ stage = "failed"
  /\ UNCHANGED config \/ \E urls \in Bundles : ReadConfig(urls)
  /\ IF saved = "none" THEN UNCHANGED <<active, since, counts>>
     ELSE Activate(saved, IF saved \in Listed THEN info[saved].ver ELSE remote')
  /\ SyncPool(info)
  /\ \E c \in Checkers : check' = [check EXCEPT ![c] = Queue(Prioritised', info', active')]
  /\ stage' = "launching"
  /\ UNCHANGED <<up, probe, sdk, tag, req>>

\* The provider of the SDK: bootstrap and verify once more, the current first.
OpenSdk ==
  /\ stage = "launched" /\ stage' = "opening"
  /\ UNCHANGED config /\ Sync(info)
  /\ \E c \in Checkers : check' = [check EXCEPT ![c] = Queue(list', info', active')]
  /\ UNCHANGED <<up, probe, sdk, tag, req, events>>

\* A verification that found a gateway.  The start goes on with it.
Verified(c) ==
  /\ check[c].on
  /\ LET cand == Head(check[c].queue)
     IN /\ cand.url \in up
        /\ Apply(cand.url, cand.rec.ver)
        /\ CASE stage = "launching" -> stage' = "launched" /\ UNCHANGED <<sdk, tag>>
             [] stage = "opening"   -> stage' = "running" /\ sdk' = cand.url /\ tag' = cand.rec.ver
             [] OTHER               -> Emit
  /\ check' = [check EXCEPT ![c] = Idle]
  /\ saved' = IF stage' = "running" THEN "none" ELSE saved
  /\ UNCHANGED <<up, declared, order, remote, probe, req, events>>

\* The candidate did not answer with 2xx in time and is written back.  When none is
\* left the start fails; later, an active gateway that was not among them is
\* applied again.
Unverified(c) ==
  /\ check[c].on
  /\ LET cand == Head(check[c].queue)
         rest == Tail(check[c].queue)
         tried == check[c].tried \cup {cand.url}
     IN /\ cand.url \notin up
        /\ check' = [check EXCEPT ![c] =
                       IF rest = <<>> THEN Idle ELSE [Running(rest) EXCEPT !.tried = tried]]
        /\ IF rest = <<>> /\ active.url \notin tried
             THEN ApplyTo(UpsertedList(cand), UpsertedInfo(cand), active.url, active.ver)
             ELSE Upsert(cand)
        /\ IF rest = <<>> /\ stage \in {"launching", "opening"}
             THEN stage' = "failed" /\ UNCHANGED <<sdk, tag>> ELSE Emit
  /\ UNCHANGED <<up, config, probe, req, events>>

-----------------------------------------------------------------------------
(* The recovery check, every _recoveryCheckInterval. *)

Tick ==
  /\ ~probe.on /\ since = "held"
  /\ \E above \in {Above} : above # <<>> /\ probe' = Running(Snapshot(above, info))
  /\ UNCHANGED <<up, config, pool, check, app, req, events>>

Probed == Head(probe.queue)

\* A good answer counts; only the last of RecoveryThreshold promotes, in the
\* faulty variant one too late.
ProbeGoodLate ==
  LET u == Probed.url
      successes == counts[u] + 1
  IN /\ probe.on /\ u \in up
     /\ probe' = Idle
     /\ IF successes <= RecoveryThreshold
          THEN /\ counts' = [counts EXCEPT ![u] = successes]
               /\ UNCHANGED <<active, list, info, since, app>>
          ELSE Apply(u, Probed.rec.ver) /\ Emit
     /\ streak' = IF active'.url = active.url
                    THEN [streak EXCEPT ![u] = @ + 1] ELSE [x \in Gateways |-> 0]
     /\ UNCHANGED <<up, config, check, req, events>>

ProbeGood ==
  LET u == Probed.url
      successes == counts[u] + 1
  IN /\ probe.on /\ u \in up
     /\ probe' = Idle
     /\ IF successes < RecoveryThreshold
          THEN /\ counts' = [counts EXCEPT ![u] = successes]
               /\ UNCHANGED <<active, list, info, since, app>>
          ELSE Apply(u, Probed.rec.ver) /\ Emit
     /\ streak' = IF active'.url = active.url
                    THEN [streak EXCEPT ![u] = @ + 1] ELSE [x \in Gateways |-> 0]
     /\ UNCHANGED <<up, config, check, req, events>>

ProbeBad ==
  LET u == Probed.url
      rest == Tail(probe.queue)
  IN /\ probe.on /\ u \notin up
     /\ probe' = IF rest = <<>> THEN Idle ELSE Running(rest)
     /\ list' = UpsertedList(Probed) /\ info' = UpsertedInfo(Probed)
     /\ counts' = [counts EXCEPT ![u] = 0]
     /\ streak' = [streak EXCEPT ![u] = 0]
     /\ UNCHANGED <<up, config, active, since, check, req, events>>
     /\ Emit

-----------------------------------------------------------------------------
(* Requests of the SDK.  The retry runs through the interceptors again, so  *)
(* each retry that fails starts a loop of its own inside the one that made  *)
(* it: trail holds the URLs of the retries under way, outermost first.      *)

Send(r) ==
  /\ Event /\ stage = "running" /\ req[r].st = "idle"
  /\ req' = [req EXCEPT ![r] = [NoRequest EXCEPT !.st = "sent", !.at = sdk]]
  /\ UNCHANGED <<up, config, pool, probe, check, app>>

\* One turn of the loop after u failed: mark it, sync, take the next candidate.
\* The faulty variant does not add it to the gateways tried.
RetryForgetting(r, u, trail, tried) ==
  /\ UNCHANGED config
  /\ Sync(Failed(info, u))
  /\ LET next == Filter(list', {x \in Listed' \ ({active.url} \cup tried) : ~info'[x].open})
     IN IF next # <<>>
          THEN /\ req' = [req EXCEPT ![r] =
                           [st |-> "sent", at |-> Head(next), tried |-> tried,
                            trail |-> Append(trail, Head(next))]]
               /\ sdk' = Head(next) /\ UNCHANGED <<stage, tag>>
          ELSE /\ req' = [req EXCEPT ![r] =
                           IF trail = <<>> THEN NoRequest
                           ELSE [st |-> "lost", at |-> "none", tried |-> tried, trail |-> trail]]
               /\ Emit
  /\ UNCHANGED <<up, probe, check, events>>

Retry(r, u, trail, tried) ==
  /\ UNCHANGED config
  /\ Sync(Failed(info, u))
  /\ LET next == Filter(list', {x \in Listed' \ ({active.url} \cup tried) : ~info'[x].open})
     IN IF next # <<>>
          THEN /\ req' = [req EXCEPT ![r] =
                           [st |-> "sent", at |-> Head(next), tried |-> tried \cup {Head(next)},
                            trail |-> Append(trail, Head(next))]]
               /\ sdk' = Head(next) /\ UNCHANGED <<stage, tag>>
          ELSE /\ req' = [req EXCEPT ![r] =
                           IF trail = <<>> THEN NoRequest
                           ELSE [st |-> "lost", at |-> "none", tried |-> tried, trail |-> trail]]
               /\ Emit
  /\ UNCHANGED <<up, probe, check, events>>

\* The attempt failed: the failure goes to whatever the SDK's URL is by now.
AttemptFails(r) ==
  /\ req[r].st = "sent" /\ req[r].at \notin up
  /\ Retry(r, sdk, req[r].trail, IF req[r].trail = <<>> THEN {sdk} ELSE req[r].tried)

\* The error of an exhausted loop reaches the loop around it; in the faulty
\* variant that loop goes round again with the URL it has.
RetryFailsAgain(r) ==
  /\ req[r].st = "lost"
  /\ Retry(r, Last(req[r].trail), req[r].trail, req[r].tried)

RetryFails(r) ==
  /\ req[r].st = "lost"
  /\ Retry(r, Last(req[r].trail), Front(req[r].trail), req[r].tried)

Ended(r, st, trail) ==
  IF trail = <<>> THEN NoRequest
  ELSE [st |-> st, at |-> "none", tried |-> req[r].tried, trail |-> trail]

AttemptWorks(r) ==
  /\ req[r].st = "sent" /\ req[r].at \in up
  /\ req' = [req EXCEPT ![r] = Ended(r, "won", req[r].trail)]
  /\ UNCHANGED <<up, config, pool, probe, check, app, events>>

\* promoteGatewayUrl
Promoted(u) == IF u \in Range(order) THEN <<u>> \o Without(order, u) ELSE order

\* Each loop, from the inside out, promotes the URL it had retried with.
RetryWorks(r) ==
  LET u == Last(req[r].trail)
  IN /\ req[r].st = "won"
     /\ order' = Promoted(u) /\ UNCHANGED saved
     /\ Apply(u, tag)
     /\ Emit
     /\ req' = [req EXCEPT ![r] = Ended(r, "won", Front(req[r].trail))]
     /\ UNCHANGED <<up, declared, remote, probe, check, events>>

\* An error that is not retried (a business error, a request not to be replayed).
AttemptRefused(r) ==
  /\ req[r].st = "sent"
  /\ req' = [req EXCEPT ![r] = NoRequest]
  /\ UNCHANGED <<up, config, pool, probe, check, app, events>>

-----------------------------------------------------------------------------
(* Configuration, time and the network. *)

\* A newer configuration is read while the app runs, and the listener syncs and
\* verifies: it hears of it a few microtasks later, which are one step with it here.
ConfigLoaded(urls) ==
  /\ Event /\ stage = "running"
  /\ ReadConfig(urls)
  /\ Sync(info)
  /\ Emit
  /\ \E c \in Checkers : ~check[c].on /\ check' = [check EXCEPT ![c] = Queue(list', info', active')]
  /\ UNCHANGED <<up, probe, req>>

\* A login answers with gateway_urls (setGatewayUrls, mergeGatewayUrls).
Login(urls) ==
  /\ Event /\ stage = "running"
  /\ order' = Distinct(urls) /\ declared' = urls /\ UNCHANGED <<remote, saved>>
  /\ list' = order' \o Filter(<<active.url>> \o Without(list, active.url), Gateways \ Range(urls))
  /\ info' = [u \in Range(urls) \cup {active.url} \cup Listed |->
                IF u \in Range(urls) THEN Clean(remote)
                ELSE IF u = active.url THEN Clean(active.ver) ELSE info[u]]
  /\ UNCHANGED <<active, since, counts>>
  /\ Emit
  /\ UNCHANGED <<up, probe, check, req>>

HoldElapses ==
  /\ since = "recent" /\ since' = "held"
  /\ UNCHANGED <<up, config, active, list, info, counts, probe, check, app, req, events>>

\* disabledUntil passes, in the pool and in every copy read from it.
Closed(queue, u) ==
  [i \in DOMAIN queue |->
    IF queue[i].url = u THEN [queue[i] EXCEPT !.rec.open = FALSE] ELSE queue[i]]

CircuitCloses(u) ==
  /\ u \in Listed /\ info[u].open
  /\ info' = [info EXCEPT ![u].open = FALSE]
  /\ probe' = [probe EXCEPT !.queue = Closed(@, u)]
  /\ check' = [c \in Checkers |-> [check[c] EXCEPT !.queue = Closed(@, u)]]
  /\ UNCHANGED <<up, config, active, list, since, counts, app, req, events>>

Flip(u) ==
  /\ Event
  /\ up' = IF u \in up THEN up \ {u} ELSE up \cup {u}
  /\ UNCHANGED <<config, pool, probe, check, app, req>>

-----------------------------------------------------------------------------
Verification == Relaunch \/ OpenSdk \/ \E c \in Checkers : Verified(c) \/ Unverified(c)

RequestStep(r) ==
  AttemptFails(r) \/ AttemptWorks(r) \/ RetryFails(r) \/ RetryWorks(r)

Environment ==
  \/ \E urls \in Bundles : ConfigLoaded(urls) \/ Login(urls)
  \/ \E u \in Gateways : Flip(u) \/ CircuitCloses(u)
  \/ \E r \in Requests : Send(r) \/ AttemptRefused(r)
  \/ HoldElapses

NewStreak == streak' = IF active'.url = active.url THEN streak ELSE [u \in Gateways |-> 0]

Next ==
  \/ (Verification \/ Environment \/ Tick \/ \E r \in Requests : RequestStep(r)) /\ NewStreak
  \/ ProbeGood \/ ProbeBad

(***************************************************************************)
(* Verifications, probes and requests have timeouts, so each is answered   *)
(* or fails; the timer of the recovery check keeps ticking and a hold ends.*)
(* The user, the network and the configuration owe nothing.                *)
(***************************************************************************)
Fairness ==
  /\ \A c \in Checkers : WF_vars((Verified(c) \/ Unverified(c)) /\ NewStreak)
  /\ \A r \in Requests : WF_vars(RequestStep(r) /\ NewStreak)
  /\ WF_vars(ProbeGood \/ ProbeBad)
  /\ WF_vars(Tick /\ NewStreak) /\ WF_vars(HoldElapses /\ NewStreak)
  /\ WF_vars(OpenSdk /\ NewStreak)

Spec == Init /\ [][Next]_vars /\ Fairness

-----------------------------------------------------------------------------
Job == [on : BOOLEAN, queue : Seq([url : Gateways, rec : Info]), tried : SUBSET Gateways]
Call == [st : {"idle", "sent", "won", "lost"}, at : Gateways \cup {"none"},
         tried : SUBSET Gateways, trail : Seq(Gateways)]

TypeOK ==
  /\ up \subseteq Gateways /\ declared \in Bundles /\ order \in Seq(Gateways)
  /\ saved \in Gateways \cup {"none"}
  /\ remote \in Nat /\ tag \in Nat /\ events \in 0..MaxEvents
  /\ active \in [url : Gateways, ver : Nat]
  /\ list \in Seq(Gateways) /\ Listed \subseteq Gateways /\ info \in [Listed -> Info]
  /\ since \in {"never", "recent", "held"}
  /\ counts \in [Gateways -> 0..RecoveryThreshold-1]
  /\ streak \in [Gateways -> 0..RecoveryThreshold-1]
  /\ probe \in Job /\ check \in [Checkers -> Job]
  /\ stage \in {"launching", "launched", "opening", "running", "failed"} /\ sdk \in Gateways
  /\ req \in [Requests -> Call]

\* Whatever a login, a configuration, a promotion or a late verification did to
\* the pool, each candidate is in it once, and the active gateway and every
\* configured address are among them (syncFromCurrentConfig, mergeGatewayUrls,
\* applyRuntimeConfig, _upsertCandidate).
PoolComplete ==
  /\ IsInjective(list) /\ Range(list) = Listed
  /\ {active.url} \cup Range(order) \subseteq Listed

\* The recovery check moves the app to another gateway only after that gateway
\* answered RecoveryThreshold probes in a row, all of them since the active one
\* became active, and that one was held for the minimum time: also when a
\* request or a verification changed the active gateway during the probe
\* (_checkHigherPriorityRecovery, applyRuntimeConfig).
FailbackEarned ==
  [][probe' # probe /\ active'.url # active.url
       => since = "held" /\ streak[active'.url] + 1 >= RecoveryThreshold]_vars

\* A request is never retried with a gateway twice, although each of its nested
\* loops marks failures, rebuilds the pool and shares the set of gateways tried
\* with the others: so fewer loops are nested than there are gateways, and none
\* comes to its limit of eight retries (onError of the failover interceptor).
RetriesMoveOn ==
  \A r \in Requests : IsInjective(req[r].trail) /\ Len(req[r].trail) < Cardinality(Gateways)

\* The SDK sends to a gateway of the pool, also after a retry has set its URL and
\* a configuration, a login or a promotion has then retired that gateway
\* (the listener of runtime.stream, updateEndpoint).
SdkInPool == stage = "running" => sdk \in Listed

\* Every request ends, whatever the gateways do: each of the nested loops runs
\* out of gateways to try.
RequestsEnd == \A r \in Requests : req[r].st # "idle" ~> req[r].st = "idle"

Preferred(urls) == stage = "running" /\ Head(urls) \in up

\* Once the first gateway in the order in use stays up, it is what the app
\* uses in the end, unless requests, configurations or outages go on.
FailsBack == <>[]Preferred(order) => <>[](active.url = Head(order))

\* The same of the priority the configuration declares: "Runtime promotion is
\* intentionally ignored" (_candidatesInConfiguredPriorityOrder); "silently
\* switched back" (docs/gateway-failover-flow.md).
FailsBackToDeclared == <>[]Preferred(declared) => <>[](active.url = Head(declared))

=============================================================================
