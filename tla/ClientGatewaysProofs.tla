------------------------ MODULE ClientGatewaysProofs ------------------------
(***************************************************************************)
(* Proofs about the gateway runtime of the app, for any gateways,          *)
(* configurations, thresholds, verifications and requests.  That a         *)
(* failback is earned depends on the votes alone; the second part is about *)
(* the pool, the queues made from it and the requests.                     *)
(***************************************************************************)
EXTENDS ClientGateways, ListProofs, FiniteSetTheorems, TLAPS

\* A vote is counted only for a probe that was answered since the active
\* gateway became active; and while a probe that began under an earlier active
\* gateway is still on its way, nobody has a vote.
Votes ==
  /\ counts \in [Gateways -> Nat] /\ streak \in [Gateways -> Nat]
  /\ \A u \in Gateways : counts[u] <= streak[u]
Polled ==
  /\ up \subseteq Gateways
  /\ probe \in [on : BOOLEAN, queue : {probe.queue}, tried : {probe.tried}]
  /\ since # "held" /\ probe.on => \A u \in Gateways : counts[u] = 0
VoteInv == Votes /\ Polled

NoVotes == [u \in Gateways |-> 0]

\* What a step may do to the active gateway: a new one starts without votes
\* and is not held yet.
PoolStep ==
  /\ counts' = IF active'.url = active.url THEN counts ELSE NoVotes
  /\ since' = since \/ since' = "held" \/ since = "never" \/ counts' = NoVotes

LEMMA SameActive == ASSUME UNCHANGED <<active, since, counts>> PROVE PoolStep
  BY DEF PoolStep

LEMMA ActivateMoves == ASSUME NEW u, NEW ver, Activate(u, ver) PROVE PoolStep
  BY DEF Activate, PoolStep, NoVotes

\* applyRuntimeConfig, whoever calls it.
LEMMA ApplyMoves == ASSUME NEW u, NEW ver, Apply(u, ver) PROVE PoolStep
  BY ActivateMoves DEF Apply, ApplyTo

\* A new start after a failed one (setCachedGatewayUrl).
LEMMA RelaunchMoves == ASSUME Relaunch PROVE PoolStep
  BY SameActive, ActivateMoves DEF Relaunch

\* A verification that did not find a gateway with this candidate.
LEMMA UnverifiedMoves == ASSUME NEW c \in Checkers, Unverified(c) PROVE PoolStep
  BY SameActive, ActivateMoves DEF Unverified, Upsert, ApplyTo

\* The streaks of a step that is not a probe follow the active gateway.
LEMMA VotesFollow ==
  ASSUME Votes, PoolStep, NewStreak PROVE Votes'
  <1>1. CASE active'.url = active.url
    BY <1>1 DEF Votes, PoolStep, NewStreak
  <1>2. CASE active'.url # active.url
    BY <1>2 DEF Votes, PoolStep, NewStreak, NoVotes
  <1> QED BY <1>1, <1>2

\* A probe that goes on through such a step stays without votes if it has to.
LEMMA PolledFollows ==
  ASSUME VoteInv, PoolStep, NewStreak, up' \subseteq Gateways, UNCHANGED probe
  PROVE  Polled'
  <1>1. probe' \in [on : BOOLEAN, queue : {probe'.queue}, tried : {probe'.tried}]
    BY DEF VoteInv, Polled
  <1>2. ASSUME since' # "held", probe'.on, NEW u \in Gateways PROVE counts'[u] = 0
    BY <1>2 DEF VoteInv, Polled, PoolStep, NoVotes
  <1> QED BY <1>1, <1>2 DEF Polled

LEMMA QuietStep ==
  ASSUME VoteInv, PoolStep, NewStreak, up' \subseteq Gateways, UNCHANGED probe
  PROVE  VoteInv'
  BY VotesFollow, PolledFollows DEF VoteInv

LEMMA VerificationVotes == ASSUME VoteInv, Verification, NewStreak PROVE VoteInv'
  <1>1. CASE Relaunch \/ OpenSdk
    <2>1. PoolStep
      BY <1>1, RelaunchMoves, SameActive DEF OpenSdk, Sync
    <2> QED BY <1>1, <2>1, QuietStep DEF Relaunch, OpenSdk, VoteInv, Polled
  <1>2. ASSUME NEW c \in Checkers, Verified(c) PROVE VoteInv'
    BY <1>2, ApplyMoves, QuietStep DEF Verified, VoteInv, Polled
  <1>3. ASSUME NEW c \in Checkers, Unverified(c) PROVE VoteInv'
    <2>1. PoolStep
      BY <1>3, UnverifiedMoves
    <2> QED BY <1>3, <2>1, QuietStep DEF Unverified, VoteInv, Polled
  <1> QED BY <1>1, <1>2, <1>3 DEF Verification

LEMMA RequestVotes ==
  ASSUME VoteInv, NewStreak, NEW r \in Requests, RequestStep(r) PROVE VoteInv'
  <1>1. CASE AttemptFails(r) \/ RetryFails(r)
    BY <1>1, SameActive, QuietStep DEF AttemptFails, RetryFails, Retry, Sync, VoteInv, Polled
  <1>2. CASE AttemptWorks(r)
    BY <1>2, SameActive, QuietStep DEF AttemptWorks, pool, VoteInv, Polled
  <1>3. CASE RetryWorks(r)
    BY <1>3, ApplyMoves, QuietStep DEF RetryWorks, VoteInv, Polled
  <1> QED BY <1>1, <1>2, <1>3 DEF RequestStep

LEMMA EnvironmentVotes == ASSUME VoteInv, Environment, NewStreak PROVE VoteInv'
  <1>1. ASSUME NEW urls \in Bundles, ConfigLoaded(urls) \/ Login(urls) PROVE VoteInv'
    BY <1>1, SameActive, QuietStep DEF ConfigLoaded, Login, Sync, VoteInv, Polled
  <1>2. ASSUME NEW u \in Gateways, Flip(u) PROVE VoteInv'
    BY <1>2, SameActive, QuietStep DEF Flip, pool, VoteInv, Polled
  <1>3. ASSUME NEW u \in Gateways, CircuitCloses(u) PROVE VoteInv'
    <2>1. PoolStep
      BY <1>3, SameActive DEF CircuitCloses
    <2>2. /\ probe'.on = probe.on
          /\ probe' \in [on : BOOLEAN, queue : {probe'.queue}, tried : {probe'.tried}]
      BY <1>3 DEF CircuitCloses, VoteInv, Polled
    <2>3. Polled'
      BY <1>3, <2>2 DEF CircuitCloses, VoteInv, Polled
    <2> QED BY <2>1, <2>3, VotesFollow DEF VoteInv
  <1>4. ASSUME NEW r \in Requests, Send(r) \/ AttemptRefused(r) PROVE VoteInv'
    BY <1>4, SameActive, QuietStep DEF Send, AttemptRefused, pool, VoteInv, Polled
  <1>5. CASE HoldElapses
    <2>1. PoolStep
      BY <1>5 DEF HoldElapses, PoolStep
    <2> QED BY <1>5, <2>1, QuietStep DEF HoldElapses, VoteInv, Polled
  <1> QED BY <1>1, <1>2, <1>3, <1>4, <1>5 DEF Environment

\* A check begins when the active gateway is held.
LEMMA TickVotes == ASSUME VoteInv, Tick, NewStreak PROVE VoteInv'
  <1>1. PoolStep
    BY SameActive DEF Tick, pool
  <1>2. Polled'
    BY DEF Tick, pool, Running, VoteInv, Polled
  <1> QED BY <1>1, <1>2, VotesFollow DEF VoteInv

\* A good probe adds to the streak what it adds to the votes, and ends the check.
LEMMA GoodVotes == ASSUME VoteInv, ProbeGood PROVE VoteInv'
  <1> DEFINE u == Probed.url
  <1>1. u \in Gateways /\ up' \subseteq Gateways
    BY DEF ProbeGood, VoteInv, Polled
  <1>2. Polled'
    BY <1>1 DEF ProbeGood, Idle, Polled
  <1>3. Votes'
    <2>1. CASE active'.url # active.url
      <3>1. Apply(u, Probed.rec.ver)
        BY <2>1 DEF ProbeGood
      <3>2. counts' = NoVotes
        BY <2>1, <3>1, ApplyMoves DEF PoolStep
      <3>3. streak' = NoVotes
        BY <2>1 DEF ProbeGood, NoVotes
      <3> QED BY <3>2, <3>3 DEF Votes, NoVotes
    <2>2. CASE active'.url = active.url
      <3>1. counts' \in {counts, [counts EXCEPT ![u] = counts[u] + 1]}
        BY <2>2, ApplyMoves DEF ProbeGood, PoolStep
      <3>2. streak' = [streak EXCEPT ![u] = streak[u] + 1]
        BY <2>2 DEF ProbeGood
      <3> HIDE DEF u
      <3> QED BY <1>1, <3>1, <3>2 DEF VoteInv, Votes
    <2> QED BY <2>1, <2>2
  <1> QED BY <1>2, <1>3 DEF VoteInv

\* A bad probe takes the votes and the streak of its gateway.
LEMMA BadVotes == ASSUME VoteInv, ProbeBad PROVE VoteInv'
  <1> DEFINE u == Probed.url
  <1>1. /\ counts' = [counts EXCEPT ![u] = 0] /\ streak' = [streak EXCEPT ![u] = 0]
        /\ UNCHANGED <<up, active, since>>
        /\ probe.on
        /\ probe' = IF Tail(probe.queue) = <<>> THEN Idle ELSE Running(Tail(probe.queue))
    BY DEF ProbeBad
  <1> HIDE DEF u
  <1>2. Votes'
    <2>1. counts' \in [Gateways -> Nat] /\ streak' \in [Gateways -> Nat]
      BY <1>1 DEF VoteInv, Votes
    <2>2. ASSUME NEW x \in Gateways PROVE counts'[x] <= streak'[x]
      <3>1. CASE x = u
        BY <1>1, <3>1 DEF VoteInv, Votes
      <3>2. CASE x # u
        BY <1>1, <3>2 DEF VoteInv, Votes
      <3> QED BY <3>1, <3>2
    <2> QED BY <2>1, <2>2 DEF Votes
  <1>3. Polled'
    BY <1>1 DEF VoteInv, Votes, Polled, Idle, Running
  <1> QED BY <1>2, <1>3 DEF VoteInv

\* The votes are earned, always.
LEMMA VotesEarned == Spec => []VoteInv
  <1>1. Init => VoteInv
    BY DEF Init, VoteInv, Votes, Polled, Idle
  <1>2. VoteInv /\ [Next]_vars => VoteInv'
    <2> SUFFICES ASSUME VoteInv, [Next]_vars PROVE VoteInv'
      OBVIOUS
    <2>1. CASE UNCHANGED vars
      BY <2>1 DEF vars, pool, VoteInv, Votes, Polled
    <2> QED BY <2>1, VerificationVotes, RequestVotes, EnvironmentVotes, TickVotes, GoodVotes,
               BadVotes DEF Next
  <1> QED BY <1>1, <1>2, PTL DEF Spec

\* The recovery check takes the app only to a gateway that answered
\* RecoveryThreshold probes in a row since the active one became active, and
\* only from one that was held: whatever requests, verifications, logins and
\* configurations did during the probe (_checkHigherPriorityRecovery).
THEOREM FailbackIsEarned == Spec => FailbackEarned
  <1>1. VoteInv /\ [Next]_vars
          => (probe' # probe /\ active'.url # active.url
                => since = "held" /\ streak[active'.url] + 1 >= RecoveryThreshold)
    <2> SUFFICES ASSUME VoteInv, [Next]_vars, probe' # probe, active'.url # active.url
                 PROVE  since = "held" /\ streak[active'.url] + 1 >= RecoveryThreshold
      OBVIOUS
    <2>1. ProbeGood
      BY DEF Next, vars, pool, Verification, Relaunch, OpenSdk, Verified, Unverified, Tick,
             RequestStep, AttemptFails, RetryFails, Retry, AttemptWorks, RetryWorks,
             Environment, ConfigLoaded, Login, Sync, Flip, CircuitCloses, Send,
             AttemptRefused, HoldElapses, ProbeBad
    <2> DEFINE u == Probed.url
    <2>2. /\ u \in Gateways /\ probe.on
          /\ ~(counts[u] + 1 < RecoveryThreshold)
          /\ Apply(u, Probed.rec.ver)
      BY <2>1 DEF ProbeGood, VoteInv, Polled
    <2>3. active'.url = u
      BY <2>2 DEF Apply, ApplyTo, Activate
    <2> HIDE DEF u
    <2>4. counts[u] \in Nat /\ streak[u] \in Nat /\ counts[u] <= streak[u]
      BY <2>2 DEF VoteInv, Votes
    <2>5. counts[u] # 0
      BY <2>2, <2>4, ThresholdsAssumption
    <2>6. since = "held"
      BY <2>2, <2>5 DEF VoteInv, Polled
    <2> QED BY <2>2, <2>3, <2>4, <2>6, ThresholdsAssumption
  <1> QED BY <1>1, VotesEarned, PTL DEF Spec, FailbackEarned

-----------------------------------------------------------------------------
(* The pool, and what is made from it *)

\* Candidates, each once, and what they carry.
GoodPool(l, f) == l \in Seq(Gateways) /\ IsInjective(l) /\ f \in [Range(l) -> Info]

PoolInv ==
  /\ declared \in Bundles /\ order \in Seq(Gateways) /\ IsInjective(order) /\ remote \in Nat
  /\ active \in [url : Gateways, ver : Nat]
  /\ GoodPool(list, info)
  /\ {active.url} \cup Range(order) \subseteq Range(list)

\* A verification or a recovery check that runs has a candidate to go on with.
JobOK(j) == j \in Job /\ (j.on => j.queue # <<>>)
JobsInv == JobOK(probe) /\ check \in [Checkers -> Job] /\ \A c \in Checkers : JobOK(check[c])

\* The gateways of the retries under way are different, all of them tried, and the
\* first failure was put down to yet another one.
Moving(trail, tried) == IsInjective(trail) /\ Range(trail) \subseteq tried /\ Range(trail) # tried

\* A loop that ends reports to a retry.
CallOK(q) ==
  /\ q \in Call /\ (q.st \in {"won", "lost"} => q.trail # <<>>)
  /\ q.trail # <<>> => Moving(q.trail, q.tried)
CallsInv == req \in [Requests -> Call] /\ \A r \in Requests : CallOK(req[r])

\* The history counts what the code counts; a probe of a gateway that became
\* active meanwhile has no votes to add to.
CountInv ==
  /\ counts \in [Gateways -> 0..RecoveryThreshold-1] /\ streak = counts
  /\ probe.on => \A i \in DOMAIN probe.queue :
                   probe.queue[i].url = active.url => counts[active.url] = 0

RestInv ==
  /\ up \subseteq Gateways /\ events \in 0..MaxEvents
  /\ since \in {"never", "recent", "held"}
  /\ stage \in {"launching", "launched", "opening", "running", "failed"}
  /\ sdk \in Gateways /\ tag \in Nat /\ saved \in Gateways \cup {"none"}

TypeInv == PoolInv /\ JobsInv /\ CallsInv /\ CountInv /\ RestInv

LEMMA CleanInfo == ASSUME NEW ver \in Nat PROVE Clean(ver) \in Info
  BY ThresholdsAssumption DEF Clean, Info

\* Without takes one address out of a list (syncFromCurrentConfig, promoteGatewayUrl).
LEMMA WithoutProperties ==
  ASSUME NEW l \in Seq(Gateways), NEW u \in Gateways
  PROVE  /\ Without(l, u) \in Seq(Gateways)
         /\ Range(Without(l, u)) = Range(l) \ {u}
         /\ IsInjective(l) => IsInjective(Without(l, u))
  <1>1. Range(l) \subseteq Gateways
    BY RangeOfSeq
  <1>2. Range(l) \cap (Gateways \ {u}) = Range(l) \ {u}
    BY <1>1
  <1> QED BY <1>2, FilterProperties DEF Without

\* One address put before a list that does not have it.
LEMMA InFront ==
  ASSUME NEW l \in Seq(Gateways), NEW u \in Gateways, u \notin Range(l)
  PROVE  /\ <<u>> \o l \in Seq(Gateways)
         /\ Range(<<u>> \o l) = {u} \cup Range(l)
         /\ IsInjective(l) => IsInjective(<<u>> \o l)
  <1> DEFINE one == <<u>>
  <1>1. one \in Seq(Gateways) /\ Range(one) = {u} /\ IsInjective(one)
    BY DEF Range, IsInjective
  <1>2. Range(one) \cap Range(l) = {}
    BY <1>1
  <1>3. /\ one \o l \in Seq(Gateways) /\ Range(one \o l) = Range(one) \cup Range(l)
        /\ IsInjective(l) => IsInjective(one \o l)
    <2> HIDE DEF one
    <2> QED BY <1>1, <1>2, ConcatDisjoint
  <1> QED BY <1>1, <1>3

Candidates(inf) == \A u \in DOMAIN inf : inf[u] \in Info

\* syncFromCurrentConfig makes a pool of the active and the configured addresses.
LEMMA SyncedPool ==
  ASSUME NEW ord \in Seq(Gateways), IsInjective(ord), NEW ver \in Nat,
         NEW inf, Candidates(inf), NEW act, act.url \in Gateways, act.ver \in Nat
  PROVE  /\ GoodPool(SyncedList(act, ord), SyncedInfo(act, ord, ver, inf))
         /\ Range(SyncedList(act, ord)) = Range(ord) \cup {act.url}
         /\ SyncedInfo(act, ord, ver, inf)[act.url] = Clean(act.ver)
  <1>1. act.url \in Gateways /\ act.ver \in Nat
    OBVIOUS
  <1>2. /\ Without(ord, act.url) \in Seq(Gateways)
        /\ Range(Without(ord, act.url)) = Range(ord) \ {act.url}
        /\ IsInjective(Without(ord, act.url))
    BY <1>1, WithoutProperties
  <1>3. /\ SyncedList(act, ord) \in Seq(Gateways)
        /\ Range(SyncedList(act, ord)) = Range(ord) \cup {act.url}
        /\ IsInjective(SyncedList(act, ord))
    BY <1>1, <1>2, InFront DEF SyncedList
  <1>4. SyncedInfo(act, ord, ver, inf) \in [Range(ord) \cup {act.url} -> Info]
    BY <1>1, CleanInfo DEF SyncedInfo, Candidates
  <1>5. SyncedInfo(act, ord, ver, inf)[act.url] = Clean(act.ver)
    BY DEF SyncedInfo
  <1> QED BY <1>3, <1>4, <1>5 DEF GoodPool

\* _upsertCandidate replaces a candidate or appends it.
LEMMA UpsertedPool ==
  ASSUME PoolInv, NEW cand, cand.url \in Gateways, cand.rec \in Info
  PROVE  /\ GoodPool(UpsertedList(cand), UpsertedInfo(cand))
         /\ Range(list) \subseteq Range(UpsertedList(cand))
  <1> DEFINE u == cand.url
             li == UpsertedList(cand)
             inf == UpsertedInfo(cand)
  <1>0. /\ li = IF u \in Listed THEN list ELSE Append(list, u)
        /\ inf = [x \in Listed \cup {u} |-> IF x = u THEN cand.rec ELSE info[x]]
    BY DEF UpsertedList, UpsertedInfo
  <1> SUFFICES GoodPool(li, inf) /\ Range(list) \subseteq Range(li)
    OBVIOUS
  <1> HIDE DEF li, inf
  <1>1. /\ list \in Seq(Gateways) /\ IsInjective(list) /\ info \in [Range(list) -> Info]
        /\ Listed = Range(list)
    BY DEF PoolInv, GoodPool, Listed
  <1>2. CASE u \in Listed
    BY <1>0, <1>1, <1>2 DEF GoodPool
  <1>3. CASE u \notin Listed
    <2> DEFINE one == <<u>>
    <2>1. li = list \o one
      BY <1>0, <1>1, <1>3, AppendIsConcat
    <2>2. one \in Seq(Gateways) /\ Range(one) = {u} /\ IsInjective(one)
      BY DEF Range, IsInjective
    <2>3. Range(list) \cap Range(one) = {}
      BY <1>1, <1>3, <2>2
    <2>4. li \in Seq(Gateways) /\ IsInjective(li) /\ Range(li) = Range(list) \cup {u}
      <3>1. /\ list \o one \in Seq(Gateways) /\ IsInjective(list \o one)
            /\ Range(list \o one) = Range(list) \cup Range(one)
        <4> HIDE DEF one
        <4> QED BY <1>1, <2>2, <2>3, ConcatDisjoint
      <3> QED BY <2>1, <2>2, <3>1
    <2>5. inf \in [Range(list) \cup {u} -> Info]
      BY <1>0, <1>1
    <2> QED BY <2>4, <2>5 DEF GoodPool
  <1> QED BY <1>2, <1>3

\* applyRuntimeConfig keeps the pool complete for its new active address, and
\* every configured one in it.
LEMMA AppliedPool ==
  ASSUME NEW li, NEW inf, GoodPool(li, inf), Range(order) \subseteq Range(li),
         NEW u \in Gateways, NEW ver \in Nat, ApplyTo(li, inf, u, ver)
  PROVE  /\ GoodPool(list', info') /\ {u} \cup Range(order) \subseteq Range(list')
         /\ active' = [url |-> u, ver |-> ver] /\ active' \in [url : Gateways, ver : Nat]
  <1> DEFINE kept == {u} \cup {x \in DOMAIN inf : u \in Range(order) => x \in Range(order)}
  <1>1. /\ li \in Seq(Gateways) /\ IsInjective(li) /\ inf \in [Range(li) -> Info]
        /\ DOMAIN inf = Range(li) /\ Range(order) \subseteq Range(li)
    BY DEF GoodPool
  <1>2. /\ active' = [url |-> u, ver |-> ver]
        /\ list' = <<u>> \o Filter(li, kept \ {u})
        /\ info' = [x \in kept |-> IF x = u THEN Clean(ver) ELSE inf[x]]
    BY DEF ApplyTo, Activate
  <1>3. kept \subseteq {u} \cup Range(li) /\ u \in kept /\ Range(order) \subseteq kept
    BY <1>1
  <1>4. \A x \in kept : x # u => x \in Range(li)
    BY <1>3
  <1> HIDE DEF kept
  <1>5. /\ Filter(li, kept \ {u}) \in Seq(Gateways) /\ IsInjective(Filter(li, kept \ {u}))
        /\ Range(Filter(li, kept \ {u})) = Range(li) \cap (kept \ {u})
    BY <1>1, FilterProperties
  <1>6. list' \in Seq(Gateways) /\ IsInjective(list')
    BY <1>2, <1>5, InFront
  <1>7. Range(list') = kept
    <2>1. Range(list') = {u} \cup (Range(li) \cap (kept \ {u}))
      BY <1>2, <1>5, InFront
    <2> QED BY <1>3, <2>1
  <1>8. info' \in [kept -> Info]
    BY <1>1, <1>2, <1>4, CleanInfo
  <1> QED BY <1>2, <1>3, <1>6, <1>7, <1>8 DEF GoodPool

\* mergeGatewayUrls puts the addresses of a login first and keeps the others.
LEMMA LoginPool ==
  ASSUME PoolInv, NEW urls \in Bundles, Login(urls)
  PROVE  PoolInv'
  <1> DEFINE was == <<active.url>> \o Without(list, active.url)
             old == Filter(was, Gateways \ Range(urls))
  <1>1. /\ list \in Seq(Gateways) /\ IsInjective(list) /\ info \in [Range(list) -> Info]
        /\ Listed = Range(list) /\ active.url \in Gateways /\ active.ver \in Nat /\ remote \in Nat
        /\ active \in [url : Gateways, ver : Nat] /\ active.url \in Range(list)
    BY DEF PoolInv, GoodPool, Listed
  <1>2. /\ order' = Distinct(urls) /\ declared' = urls /\ UNCHANGED <<remote, active>>
        /\ list' = order' \o old
        /\ info' = [u \in Range(urls) \cup {active.url} \cup Listed |->
                     IF u \in Range(urls) THEN Clean(remote)
                     ELSE IF u = active.url THEN Clean(active.ver) ELSE info[u]]
    BY DEF Login
  <1>3. urls \in Seq(Gateways)
    BY BundlesAssumption
  <1>4. order' \in Seq(Gateways) /\ IsInjective(order') /\ Range(order') = Range(urls)
    BY <1>2, <1>3, DistinctProperties
  <1>5. was \in Seq(Gateways) /\ IsInjective(was) /\ Range(was) = Range(list)
    <2>1. /\ Without(list, active.url) \in Seq(Gateways)
          /\ Range(Without(list, active.url)) = Range(list) \ {active.url}
          /\ IsInjective(Without(list, active.url))
      BY <1>1, WithoutProperties
    <2>2. {active.url} \cup (Range(list) \ {active.url}) = Range(list)
      BY <1>1
    <2> QED BY <1>1, <2>1, <2>2, InFront
  <1> HIDE DEF was
  <1>6. old \in Seq(Gateways) /\ IsInjective(old) /\ Range(old) = Range(list) \ Range(urls)
    <2>1. Range(list) \subseteq Gateways
      BY <1>1, RangeOfSeq
    <2>2. Range(list) \cap (Gateways \ Range(urls)) = Range(list) \ Range(urls)
      BY <2>1
    <2> QED BY <1>5, <2>2, FilterProperties
  <1> HIDE DEF old
  <1>7. /\ list' \in Seq(Gateways) /\ IsInjective(list')
        /\ Range(list') = Range(urls) \cup Range(list)
    <2>1. Range(order') \cap Range(old) = {}
      BY <1>4, <1>6
    <2>2. Range(order') \cup Range(old) = Range(urls) \cup Range(list)
      BY <1>4, <1>6
    <2> QED BY <1>2, <1>4, <1>6, <2>1, <2>2, ConcatDisjoint
  <1>8. info' \in [Range(urls) \cup Range(list) -> Info]
    <2>1. Range(urls) \cup {active.url} \cup Listed = Range(urls) \cup Range(list)
      BY <1>1
    <2>2. Clean(remote) \in Info /\ Clean(active.ver) \in Info
      BY <1>1, CleanInfo
    <2> QED BY <1>1, <1>2, <2>1, <2>2
  <1>9. declared' \in Bundles /\ active' = active /\ remote' \in Nat
    BY <1>1, <1>2
  <1> QED BY <1>1, <1>4, <1>7, <1>8, <1>9 DEF PoolInv, GoodPool

\* What markFailure has written before it syncs.
LEMMA FailedInfo ==
  ASSUME PoolInv, NEW u PROVE \A x \in DOMAIN Failed(info, u) : Failed(info, u)[x] \in Info
  <1> DEFINE old == IF u \in DOMAIN info THEN info[u] ELSE Clean(remote)
             fails == IF old.fails < FailureThreshold THEN old.fails + 1 ELSE old.fails
             new == [old EXCEPT !.fails = fails, !.open = @ \/ fails = FailureThreshold]
  <1>1. info \in [DOMAIN info -> Info] /\ remote \in Nat
    BY DEF PoolInv, GoodPool
  <1>2. old \in Info
    BY <1>1, CleanInfo
  <1>3. fails \in 0..FailureThreshold
    <2> HIDE DEF old
    <2> QED BY <1>2, ThresholdsAssumption DEF Info
  <1>4. new \in Info
    <2> DEFINE open == old.open \/ fails = FailureThreshold
    <2>1. new = [old EXCEPT !.fails = fails, !.open = open] /\ open \in BOOLEAN
      OBVIOUS
    <2> HIDE DEF new, old, fails, open
    <2> QED BY <1>2, <1>3, <2>1 DEF Info
  <1>5. Failed(info, u) = [x \in DOMAIN info \cup {u} |-> IF x # u THEN info[x] ELSE new]
    BY DEF Failed
  <1> HIDE DEF new
  <1> QED BY <1>1, <1>4, <1>5

LEMMA SyncStep ==
  ASSUME NEW inf, \A u \in DOMAIN inf : inf[u] \in Info, SyncPool(inf),
         active' \in [url : Gateways, ver : Nat],
         declared' \in Bundles, order' \in Seq(Gateways), IsInjective(order'), remote' \in Nat
  PROVE  PoolInv' /\ info'[active'.url] = Clean(active'.ver)
  <1>0. Candidates(inf)
    BY DEF Candidates
  <1>1. list' = SyncedList(active', order') /\ info' = SyncedInfo(active', order', remote', inf)
    BY DEF SyncPool
  <1>2. /\ GoodPool(list', info') /\ Range(list') = Range(order') \cup {active'.url}
        /\ info'[active'.url] = Clean(active'.ver)
    <2>1. ASSUME NEW act, act.url \in Gateways, act.ver \in Nat,
                 NEW ord \in Seq(Gateways), IsInjective(ord), NEW ver \in Nat
          PROVE  /\ GoodPool(SyncedList(act, ord), SyncedInfo(act, ord, ver, inf))
                 /\ Range(SyncedList(act, ord)) = Range(ord) \cup {act.url}
                 /\ SyncedInfo(act, ord, ver, inf)[act.url] = Clean(act.ver)
      BY <1>0, <2>1, SyncedPool
    <2>2. active'.url \in Gateways /\ active'.ver \in Nat
      OBVIOUS
    <2> QED BY <1>1, <2>1, <2>2
  <1> QED BY <1>2 DEF PoolInv

\* The configuration as read keeps its shape.
LEMMA ConfigRead ==
  ASSUME PoolInv, NEW urls \in Bundles, ReadConfig(urls)
  PROVE  declared' \in Bundles /\ order' \in Seq(Gateways) /\ IsInjective(order') /\ remote' \in Nat
  <1>1. urls \in Seq(Gateways) /\ remote \in Nat
    BY BundlesAssumption DEF PoolInv
  <1>2. Distinct(urls) \in Seq(Gateways) /\ IsInjective(Distinct(urls))
    BY <1>1, DistinctProperties
  <1> QED BY <1>1, <1>2 DEF ReadConfig

\* Both steps of the start that sync.
LEMMA StartSyncs ==
  ASSUME PoolInv, RestInv, Relaunch \/ OpenSdk
  PROVE  /\ SyncPool(info) /\ active' \in [url : Gateways, ver : Nat]
         /\ \A u \in DOMAIN info : info[u] \in Info
         /\ declared' \in Bundles /\ order' \in Seq(Gateways) /\ IsInjective(order')
         /\ remote' \in Nat
  <1>1. /\ declared \in Bundles /\ order \in Seq(Gateways) /\ IsInjective(order)
        /\ remote \in Nat /\ active \in [url : Gateways, ver : Nat]
        /\ \A u \in DOMAIN info : info[u] \in Info
    BY DEF PoolInv, GoodPool
  <1>2. SyncPool(info)
    BY DEF Relaunch, OpenSdk, Sync
  <1>3. /\ declared' \in Bundles /\ order' \in Seq(Gateways) /\ IsInjective(order')
        /\ remote' \in Nat
    <2>1. CASE UNCHANGED config
      BY <1>1, <2>1 DEF config
    <2> QED BY <2>1, ConfigRead DEF Relaunch, OpenSdk
  <1>4. active' \in [url : Gateways, ver : Nat]
    <2>1. CASE UNCHANGED active
      BY <1>1, <2>1
    <2>2. CASE saved # "none" /\ Activate(saved, IF saved \in Listed THEN info[saved].ver ELSE remote')
      <3> DEFINE ver == IF saved \in Listed THEN info[saved].ver ELSE remote'
      <3>1. ver \in Nat
        BY <1>1, <1>3 DEF Listed, Info
      <3>2. saved \in Gateways
        BY <2>2 DEF RestInv
      <3>3. active' = [url |-> saved, ver |-> ver]
        BY <2>2 DEF Activate
      <3> HIDE DEF ver
      <3> QED BY <3>1, <3>2, <3>3
    <2> QED BY <2>1, <2>2 DEF Relaunch, OpenSdk, Sync
  <1> QED BY <1>1, <1>2, <1>3, <1>4

LEMMA ApplyStep ==
  ASSUME PoolInv, NEW li, NEW inf, GoodPool(li, inf), Range(list) \subseteq Range(li),
         NEW u \in Gateways, NEW ver \in Nat, ApplyTo(li, inf, u, ver),
         declared' \in Bundles, order' \in Seq(Gateways), IsInjective(order'), remote' \in Nat,
         Range(order') \subseteq {u} \cup Range(order)
  PROVE  PoolInv'
  <1>1. Range(order) \subseteq Range(li)
    BY DEF PoolInv
  <1>2. /\ GoodPool(list', info') /\ {u} \cup Range(order) \subseteq Range(list')
        /\ active'.url = u /\ active' \in [url : Gateways, ver : Nat]
    BY <1>1, AppliedPool
  <1> QED BY <1>2 DEF PoolInv

LEMMA UpsertStep ==
  ASSUME PoolInv, NEW cand, cand.url \in Gateways, cand.rec \in Info,
         UNCHANGED <<config, active>>,
         list' = UpsertedList(cand), info' = UpsertedInfo(cand)
  PROVE  PoolInv'
  <1>1. GoodPool(list', info') /\ Range(list) \subseteq Range(list')
    BY UpsertedPool
  <1> QED BY <1>1 DEF PoolInv, config

\* The candidate a verification or a recovery check is at.
Entry == [url : Gateways, rec : Info]

LEMMA AtHead ==
  ASSUME NEW j, JobOK(j), j.on
  PROVE  /\ j.queue \in Seq(Entry) \ {<<>>}
         /\ Head(j.queue) \in Entry /\ Tail(j.queue) \in Seq(Entry)
         /\ Head(j.queue).url \in Gateways /\ Head(j.queue).rec \in Info
         /\ Head(j.queue).rec.ver \in Nat
  <1>1. j.queue \in Seq(Entry) /\ j.queue # <<>>
    BY DEF JobOK, Job, Entry
  <1>2. Head(j.queue) \in Entry /\ Tail(j.queue) \in Seq(Entry)
    BY <1>1
  <1> QED BY <1>1, <1>2 DEF Entry, Info

\* The URL of the innermost retry.
LEMMA AtLast ==
  ASSUME CallsInv, NEW r \in Requests, req[r].st \in {"won", "lost"}
  PROVE  Last(req[r].trail) \in Gateways /\ Front(req[r].trail) \in Seq(Gateways)
  <1>1. req[r].trail \in Seq(Gateways) /\ req[r].trail # <<>>
    BY DEF CallsInv, CallOK, Call
  <1>2. Len(req[r].trail) \in Nat \ {0} /\ Last(req[r].trail) \in Gateways
    BY <1>1, EmptySeq DEF Last
  <1>3. \A i \in 1..Len(req[r].trail)-1 : req[r].trail[i] \in Gateways
    BY <1>1
  <1> QED BY <1>2, <1>3, SubSeqProperties DEF Front

\* promoteGatewayUrl only reorders.
LEMMA PromotedOrder ==
  ASSUME PoolInv, NEW u \in Gateways
  PROVE  /\ Promoted(u) \in Seq(Gateways) /\ IsInjective(Promoted(u))
         /\ Range(Promoted(u)) = Range(order)
  <1>1. order \in Seq(Gateways) /\ IsInjective(order)
    BY DEF PoolInv
  <1>2. CASE u \notin Range(order)
    BY <1>1, <1>2 DEF Promoted
  <1>3. CASE u \in Range(order)
    <2>1. /\ Without(order, u) \in Seq(Gateways) /\ IsInjective(Without(order, u))
          /\ Range(Without(order, u)) = Range(order) \ {u}
      BY <1>1, WithoutProperties
    <2>2. /\ <<u>> \o Without(order, u) \in Seq(Gateways)
          /\ IsInjective(<<u>> \o Without(order, u))
          /\ Range(<<u>> \o Without(order, u)) = {u} \cup (Range(order) \ {u})
      BY <2>1, InFront
    <2> QED BY <1>3, <2>2 DEF Promoted
  <1> QED BY <1>2, <1>3

LEMMA InitialPool == ASSUME Init PROVE PoolInv /\ info[active.url] = Clean(active.ver)
  <1>1. declared \in Seq(Gateways) \ {<<>>} /\ declared \in Bundles /\ remote = 1
    BY BundlesAssumption DEF Init
  <1>2. order \in Seq(Gateways) /\ IsInjective(order) /\ Range(order) = Range(declared)
    BY <1>1, DistinctProperties DEF Init
  <1>3. order # <<>>
    <2>1. declared[1] \in Range(order)
      <3>1. 1 \in DOMAIN declared
        BY <1>1, EmptySeq
      <3> QED BY <1>2, <3>1 DEF Range
    <2> QED BY <2>1 DEF Range
  <1>4. active \in [url : Gateways, ver : Nat]
    <2>1. Head(order) \in Gateways
      BY <1>2, <1>3
    <2>2. \/ \E u \in Gateways, v \in {0, 1} : active = [url |-> u, ver |-> v]
          \/ active = [url |-> Head(order), ver |-> 1]
      BY <1>1 DEF Init
    <2> QED BY <2>1, <2>2
  <1> DEFINE none == [u \in {} |-> Clean(0)]
  <1>5. info = SyncedInfo(active, order, remote, none)
    BY DEF Init, SyncedInfo
  <1>6. Candidates(none)
    BY DEF Candidates
  <1>7. list = SyncedList(active, order) /\ remote \in Nat
    BY <1>1 DEF Init
  <1> HIDE DEF none
  <1>8. /\ GoodPool(list, info) /\ Range(list) = Range(order) \cup {active.url}
        /\ info[active.url] = Clean(active.ver)
    <2>1. active.url \in Gateways /\ active.ver \in Nat
      BY <1>4
    <2>2. /\ GoodPool(SyncedList(active, order), SyncedInfo(active, order, remote, none))
          /\ Range(SyncedList(active, order)) = Range(order) \cup {active.url}
          /\ SyncedInfo(active, order, remote, none)[active.url] = Clean(active.ver)
      BY <1>2, <1>6, <1>7, <2>1, SyncedPool
    <2> QED BY <1>5, <1>7, <2>2
  <1> QED BY <1>1, <1>2, <1>4, <1>7, <1>8 DEF PoolInv

-----------------------------------------------------------------------------
(* The pool under every step *)

LEMMA VerificationPool ==
  ASSUME PoolInv, JobsInv, RestInv, Verification
  PROVE  PoolInv'
  <1>1. /\ declared \in Bundles /\ order \in Seq(Gateways) /\ IsInjective(order)
        /\ remote \in Nat /\ active.url \in Gateways /\ active.ver \in Nat
        /\ \A u \in DOMAIN info : info[u] \in Info
    BY DEF PoolInv, GoodPool
  <1>2. CASE Relaunch \/ OpenSdk
    BY <1>2, StartSyncs, SyncStep
  <1>3. ASSUME NEW c \in Checkers, Verified(c) PROVE PoolInv'
    <2> DEFINE cand == Head(check[c].queue)
    <2>1. /\ UNCHANGED <<declared, order, remote>> /\ check[c].on
          /\ ApplyTo(list, info, cand.url, cand.rec.ver)
      BY <1>3 DEF Verified, Apply
    <2>2. cand.url \in Gateways /\ cand.rec.ver \in Nat
      BY <2>1, AtHead DEF JobsInv
    <2> HIDE DEF cand
    <2>3. GoodPool(list, info)
      BY DEF PoolInv
    <2> QED BY <1>1, <2>1, <2>2, <2>3, ApplyStep
  <1>4. ASSUME NEW c \in Checkers, Unverified(c) PROVE PoolInv'
    <2> DEFINE cand == Head(check[c].queue)
    <2>1. /\ UNCHANGED config /\ check[c].on
          /\ \/ ApplyTo(UpsertedList(cand), UpsertedInfo(cand), active.url, active.ver)
             \/ Upsert(cand)
      BY <1>4 DEF Unverified
    <2>2. cand.url \in Gateways /\ cand.rec \in Info
      BY <2>1, AtHead DEF JobsInv
    <2> HIDE DEF cand
    <2>3. CASE ApplyTo(UpsertedList(cand), UpsertedInfo(cand), active.url, active.ver)
      <3>1. /\ GoodPool(UpsertedList(cand), UpsertedInfo(cand))
            /\ Range(list) \subseteq Range(UpsertedList(cand))
        BY <2>2, UpsertedPool
      <3>2. UNCHANGED <<declared, order, remote>>
        BY <2>1 DEF config
      <3> QED BY <1>1, <2>3, <3>1, <3>2, ApplyStep
    <2>4. CASE Upsert(cand)
      BY <2>1, <2>2, <2>4, UpsertStep DEF Upsert
    <2> QED BY <2>1, <2>3, <2>4
  <1> QED BY <1>2, <1>3, <1>4 DEF Verification

LEMMA RequestPool ==
  ASSUME PoolInv, CallsInv, RestInv, NEW r \in Requests, RequestStep(r)
  PROVE  PoolInv'
  <1>1. /\ declared \in Bundles /\ order \in Seq(Gateways) /\ IsInjective(order)
        /\ remote \in Nat
    BY DEF PoolInv
  <1>2. ASSUME NEW u, NEW trail, NEW tried, Retry(r, u, trail, tried) PROVE PoolInv'
    <2>1. UNCHANGED <<config, active>> /\ SyncPool(Failed(info, u))
      BY <1>2 DEF Retry, Sync
    <2>2. \A x \in DOMAIN Failed(info, u) : Failed(info, u)[x] \in Info
      BY FailedInfo
    <2>3. active' \in [url : Gateways, ver : Nat]
      BY <2>1 DEF PoolInv
    <2> QED BY <1>1, <2>1, <2>2, <2>3, SyncStep DEF config
  <1>3. CASE AttemptFails(r) \/ RetryFails(r)
    BY <1>2, <1>3 DEF AttemptFails, RetryFails
  <1>4. CASE AttemptWorks(r)
    BY <1>4 DEF AttemptWorks, config, pool, PoolInv, GoodPool
  <1>5. CASE RetryWorks(r)
    <2> DEFINE u == Last(req[r].trail)
    <2>1. /\ req[r].st = "won" /\ order' = Promoted(u) /\ ApplyTo(list, info, u, tag)
          /\ UNCHANGED <<declared, remote>>
      BY <1>5 DEF RetryWorks, Apply
    <2>2. u \in Gateways /\ tag \in Nat
      BY <2>1, AtLast DEF RestInv
    <2> HIDE DEF u
    <2>3. GoodPool(list, info)
      BY DEF PoolInv
    <2> QED BY <1>1, <2>1, <2>2, <2>3, PromotedOrder, ApplyStep
  <1> QED BY <1>3, <1>4, <1>5 DEF RequestStep

LEMMA EnvironmentPool ==
  ASSUME PoolInv, Environment
  PROVE  PoolInv'
  <1>1. ASSUME NEW urls \in Bundles, ConfigLoaded(urls) PROVE PoolInv'
    <2>1. ReadConfig(urls) /\ UNCHANGED active /\ SyncPool(info)
      BY <1>1 DEF ConfigLoaded, Sync
    <2>2. active' \in [url : Gateways, ver : Nat] /\ \A u \in DOMAIN info : info[u] \in Info
      BY <2>1 DEF PoolInv, GoodPool
    <2> QED BY <2>1, <2>2, ConfigRead, SyncStep
  <1>2. ASSUME NEW u \in Gateways, CircuitCloses(u) PROVE PoolInv'
    <2>1. /\ u \in Listed /\ info' = [info EXCEPT ![u].open = FALSE]
          /\ UNCHANGED <<declared, order, remote, active, list>>
      BY <1>2 DEF CircuitCloses, config
    <2>2. info \in [Range(list) -> Info]
      BY DEF PoolInv, GoodPool
    <2>3. info' \in [Range(list) -> Info]
      <3>1. [info[u] EXCEPT !.open = FALSE] \in Info
        BY <2>1, <2>2 DEF Listed, Info
      <3> QED BY <2>1, <2>2, <3>1
    <2> QED BY <2>1, <2>3 DEF PoolInv, GoodPool
  <1>3. ASSUME UNCHANGED <<config, active, list, info>> PROVE PoolInv'
    BY <1>3 DEF config, PoolInv, GoodPool
  <1>4. CASE HoldElapses
    BY <1>3, <1>4 DEF HoldElapses
  <1>5. ASSUME NEW u \in Gateways, Flip(u) PROVE PoolInv'
    BY <1>3, <1>5 DEF Flip, pool
  <1>6. ASSUME NEW r \in Requests, Send(r) \/ AttemptRefused(r) PROVE PoolInv'
    BY <1>3, <1>6 DEF Send, AttemptRefused, pool
  <1> QED BY <1>1, <1>2, <1>4, <1>5, <1>6, LoginPool DEF Environment

LEMMA ProbePool ==
  ASSUME PoolInv, JobsInv, ProbeGood \/ ProbeBad
  PROVE  PoolInv'
  <1>1. /\ declared \in Bundles /\ order \in Seq(Gateways) /\ IsInjective(order)
        /\ remote \in Nat
    BY DEF PoolInv
  <1> DEFINE u == Probed.url
  <1>2. probe.on
    BY DEF ProbeGood, ProbeBad
  <1>3. u \in Gateways /\ Probed.rec \in Info /\ Probed.rec.ver \in Nat
    BY <1>2, AtHead DEF JobsInv, Probed
  <1>4. CASE ProbeGood
    <2>1. /\ UNCHANGED config
          /\ ApplyTo(list, info, u, Probed.rec.ver) \/ UNCHANGED <<active, list, info>>
      BY <1>4 DEF ProbeGood, Apply
    <2> HIDE DEF u
    <2>2. CASE ApplyTo(list, info, u, Probed.rec.ver)
      <3>1. GoodPool(list, info) /\ UNCHANGED <<declared, order, remote>>
        BY <2>1 DEF PoolInv, config
      <3> QED BY <1>1, <1>3, <2>2, <3>1, ApplyStep
    <2>3. CASE UNCHANGED <<active, list, info>>
      BY <2>1, <2>3 DEF config, PoolInv, GoodPool
    <2> QED BY <2>1, <2>2, <2>3
  <1>5. CASE ProbeBad
    BY <1>3, <1>5, UpsertStep DEF ProbeBad
  <1> QED BY <1>4, <1>5

LEMMA PoolStays == ASSUME TypeInv, [Next]_vars PROVE PoolInv'
  <1>1. ASSUME UNCHANGED <<config, pool>> PROVE PoolInv'
    BY <1>1 DEF config, pool, TypeInv, PoolInv, GoodPool
  <1>2. CASE UNCHANGED vars \/ Tick
    BY <1>1, <1>2 DEF vars, Tick
  <1> QED BY <1>2, VerificationPool, RequestPool, EnvironmentPool, ProbePool DEF TypeInv, Next

-----------------------------------------------------------------------------
(* The queues of verifications and recovery checks *)

LEMMA RunningJob ==
  ASSUME NEW q \in Seq(Entry), q # <<>>, NEW T \in SUBSET Gateways
  PROVE  JobOK(Running(q)) /\ JobOK([Running(q) EXCEPT !.tried = T])
  BY DEF JobOK, Job, Running, Entry

LEMMA IdleJob == JobOK(Idle)
  <1>1. <<>> \in Seq(Entry)
    OBVIOUS
  <1> QED BY <1>1 DEF JobOK, Job, Idle, Entry

\* A snapshot of the candidates of a list.
LEMMA SnapshotProperties ==
  ASSUME NEW us \in Seq(Gateways), NEW f, \A u \in Range(us) : f[u] \in Info
  PROVE  /\ Snapshot(us, f) \in Seq(Entry) /\ DOMAIN Snapshot(us, f) = 1..Len(us)
         /\ \A i \in 1..Len(us) : Snapshot(us, f)[i].url = us[i]
         /\ us # <<>> => Snapshot(us, f) # <<>>
  <1>1. \A i \in 1..Len(us) : us[i] \in Gateways /\ f[us[i]] \in Info
    BY DEF Range
  <1>2. \A i \in 1..Len(us) : [url |-> us[i], rec |-> f[us[i]]] \in Entry
    BY <1>1 DEF Entry
  <1>3. Snapshot(us, f) \in Seq(Entry)
    BY <1>2 DEF Snapshot
  <1>4. /\ DOMAIN Snapshot(us, f) = 1..Len(us)
        /\ \A i \in 1..Len(us) : Snapshot(us, f)[i].url = us[i]
    BY DEF Snapshot
  <1>5. us # <<>> => 1 \in DOMAIN Snapshot(us, f)
    BY <1>4, EmptySeq
  <1> QED BY <1>3, <1>4, <1>5

\* verifyAndActivateBestCandidate always has the active gateway to verify, since
\* its version is the current one.
LEMMA QueuedJob ==
  ASSUME NEW us \in Seq(Gateways), NEW inf, \A u \in DOMAIN inf : inf[u] \in Info,
         NEW act, act.url \in Range(us) \cap DOMAIN inf, inf[act.url] = Clean(act.ver),
         act.ver \in Nat
  PROVE  JobOK(Queue(us, inf, act))
  <1> DEFINE now == {u \in DOMAIN inf : inf[u].ver >= act.ver}
             q == Filter(us, now)
  <1>1. q \in Seq(Gateways) /\ Range(q) = Range(us) \cap now
    BY FilterProperties
  <1>2. act.url \in now
    BY DEF Clean
  <1>3. now \subseteq DOMAIN inf
    OBVIOUS
  <1>4. Queue(us, inf, act) = Running(Snapshot(q, inf))
    BY DEF Queue
  <1> HIDE DEF now, q
  <1>5. q # <<>>
    <2>1. act.url \in Range(q)
      BY <1>1, <1>2
    <2> QED BY <2>1 DEF Range
  <1>6. \A u \in Range(q) : inf[u] \in Info
    BY <1>1, <1>3
  <1>7. Snapshot(q, inf) \in Seq(Entry) /\ Snapshot(q, inf) # <<>>
    BY <1>1, <1>5, <1>6, SnapshotProperties
  <1> QED BY <1>4, <1>7, RunningJob

\* The candidates in configured order are those of the pool.
LEMMA InOrder ==
  ASSUME NEW o \in Seq(Gateways), NEW l \in Seq(Gateways), Range(o) \subseteq Range(l)
  PROVE  LET p == Filter(o, Range(l)) \o Filter(l, Range(l) \ Range(o))
         IN  p \in Seq(Gateways) /\ Range(p) = Range(l)
  <1> DEFINE a == Filter(o, Range(l))
             b == Filter(l, Range(l) \ Range(o))
  <1>1. a \in Seq(Gateways) /\ Range(a) = Range(o) \cap Range(l)
    BY FilterProperties
  <1>2. b \in Seq(Gateways) /\ Range(b) = Range(l) \cap (Range(l) \ Range(o))
    BY FilterProperties
  <1>3. a \o b \in Seq(Gateways) /\ Range(a \o b) = Range(l)
    <2> HIDE DEF a, b
    <2>1. a \o b \in Seq(Gateways) /\ Range(a \o b) = Range(a) \cup Range(b)
      BY <1>1, <1>2, ConcatDisjoint
    <2> QED BY <1>1, <1>2, <2>1
  <1> QED BY <1>3

\* A recovery check probes gateways of the pool, and never the active one.
LEMMA AboveProperties ==
  ASSUME PoolInv
  PROVE  /\ Above \in Seq(Gateways)
         /\ \A i \in 1..Len(Above) : Above[i] \in Range(list) /\ Above[i] # active.url
  <1> DEFINE all == Prioritised
             I == {i \in 1..Len(all) : all[i] = active.url}
             at == SelectInSeq(all, LAMBDA u : u = active.url)
  <1>1. all \in Seq(Gateways) /\ Range(all) = Range(list)
    <2>1. order \in Seq(Gateways) /\ list \in Seq(Gateways) /\ Range(order) \subseteq Range(list)
      BY DEF PoolInv, GoodPool
    <2>2. Listed = Range(list)
      BY DEF PoolInv, GoodPool, Listed
    <2>3. all = Filter(order, Range(list)) \o Filter(list, Range(list) \ Range(order))
      BY <2>2 DEF Prioritised
    <2> DEFINE p == Filter(order, Range(list)) \o Filter(list, Range(list) \ Range(order))
    <2>4. p \in Seq(Gateways) /\ Range(p) = Range(list)
      BY <2>1, InOrder
    <2> HIDE DEF all, at, I
    <2> QED BY <2>3, <2>4
  <1>2. Above = SubSeq(all, 1, at - 1)
    BY DEF Above
  <1>3. at = IF I # {} THEN Min(I) ELSE 0
    BY DEF SelectInSeq
  <1>4. I \in SUBSET Nat /\ I \subseteq 1..Len(all)
    BY <1>1
  <1>5. \A i \in 1..Len(all) : i \notin I => all[i] # active.url
    OBVIOUS
  <1> HIDE DEF all, at, I
  <1>6. at = 0 \/ (at \in I /\ \A k \in I : at <= k)
    BY <1>3, <1>4, MinLeast
  <1>7. at \in Int /\ at - 1 <= Len(all) /\ Len(all) \in Nat
    <2>1. Len(all) \in Nat
      BY <1>1
    <2>2. CASE at = 0
      BY <2>1, <2>2
    <2>3. CASE at \in I
      <3>1. at \in 1..Len(all)
        BY <1>4, <2>3
      <3> QED BY <2>1, <3>1
    <2> QED BY <1>6, <2>2, <2>3
  <1>8. \A i \in 1..at-1 : i \in 1..Len(all) /\ i \notin I
    BY <1>6, <1>7
  <1>9. \A i \in 1..Len(all) : all[i] \in Gateways /\ all[i] \in Range(list)
    <2>1. \A i \in 1..Len(all) : all[i] \in Range(all)
      BY <1>1 DEF Range
    <2> QED BY <1>1, <2>1
  <1>10. \A i \in 1..at-1 : all[i] \in Gateways /\ all[i] \in Range(list) /\ all[i] # active.url
    BY <1>5, <1>8, <1>9
  <1>11. /\ Above \in Seq(Gateways) /\ Len(Above) = IF 1 <= at-1 THEN at-1 ELSE 0
         /\ \A i \in 1..at-1 : Above[i] = all[i]
    <2>1. \A i \in 1..at-1-1+1 : SubSeq(all, 1, at-1)[i] = all[1+i-1]
      BY <1>7, <1>10, SubSeqProperties
    <2>2. \A i \in 1..at-1 : SubSeq(all, 1, at-1)[i] = all[i]
      BY <1>7, <2>1
    <2> QED BY <1>2, <1>7, <1>10, <2>2, SubSeqProperties
  <1> QED BY <1>7, <1>10, <1>11

\* A verification begins right after the pool has been synced.
LEMMA FreshQueue ==
  ASSUME NEW inf, \A u \in DOMAIN inf : inf[u] \in Info, SyncPool(inf),
         active' \in [url : Gateways, ver : Nat],
         declared' \in Bundles, order' \in Seq(Gateways), IsInjective(order'), remote' \in Nat
  PROVE  JobOK(Queue(list', info', active')) /\ JobOK(Queue(Prioritised', info', active'))
  <1>1. PoolInv' /\ info'[active'.url] = Clean(active'.ver)
    BY SyncStep
  <1>2. active'.ver \in Nat /\ active'.url \in Gateways
    BY <1>1 DEF PoolInv
  <1>3. /\ list' \in Seq(Gateways) /\ order' \in Seq(Gateways) /\ Range(order') \subseteq Range(list')
        /\ Listed' = Range(list') /\ DOMAIN info' = Range(list')
        /\ \A u \in DOMAIN info' : info'[u] \in Info
        /\ active'.url \in Range(list')
    BY <1>1 DEF PoolInv, GoodPool, Listed
  <1>4. Prioritised' \in Seq(Gateways) /\ Range(Prioritised') = Range(list')
    <2> DEFINE p == Filter(order', Range(list')) \o Filter(list', Range(list') \ Range(order'))
    <2>1. p \in Seq(Gateways) /\ Range(p) = Range(list')
      BY <1>3, InOrder
    <2>2. Prioritised' = p
      BY <1>3 DEF Prioritised
    <2> HIDE DEF p
    <2> QED BY <2>1, <2>2
  <1>5. JobOK(Queue(list', info', active'))
    BY <1>1, <1>2, <1>3, QueuedJob
  <1>6. JobOK(Queue(Prioritised', info', active'))
    BY <1>1, <1>2, <1>3, <1>4, QueuedJob
  <1> QED BY <1>5, <1>6

LEMMA OneJob ==
  ASSUME JobsInv, NEW c \in Checkers, NEW j, JobOK(j),
         check' = [check EXCEPT ![c] = j], UNCHANGED probe
  PROVE  JobsInv'
  BY DEF JobsInv, JobOK

LEMMA VerificationJobs == ASSUME PoolInv, JobsInv, RestInv, Verification PROVE JobsInv'
  <1>2. CASE Relaunch \/ OpenSdk
    <2>1. JobOK(Queue(list', info', active')) /\ JobOK(Queue(Prioritised', info', active'))
      BY <1>2, StartSyncs, FreshQueue
    <2> QED BY <1>2, <2>1, OneJob DEF Relaunch, OpenSdk
  <1>3. ASSUME NEW c \in Checkers, Verified(c) PROVE JobsInv'
    BY <1>3, IdleJob, OneJob DEF Verified
  <1>4. ASSUME NEW c \in Checkers, Unverified(c) PROVE JobsInv'
    <2> DEFINE rest == Tail(check[c].queue)
               tried == check[c].tried \cup {Head(check[c].queue).url}
               j == IF rest = <<>> THEN Idle ELSE [Running(rest) EXCEPT !.tried = tried]
    <2>1. check[c].on /\ check' = [check EXCEPT ![c] = j] /\ UNCHANGED probe
      BY <1>4 DEF Unverified
    <2>2. rest \in Seq(Entry) /\ Head(check[c].queue).url \in Gateways
      BY <2>1, AtHead DEF JobsInv
    <2>3. tried \in SUBSET Gateways
      BY <2>2 DEF JobsInv, JobOK, Job
    <2>4. JobOK(j)
      <3> HIDE DEF rest, tried
      <3> QED BY <2>2, <2>3, IdleJob, RunningJob
    <2> HIDE DEF j
    <2> QED BY <2>1, <2>4, OneJob
  <1> QED BY <1>2, <1>3, <1>4 DEF Verification

\* What the end of a cooling changes in a queue: no addresses.
LEMMA ClosedJob ==
  ASSUME NEW j, JobOK(j), NEW u
  PROVE  /\ JobOK([j EXCEPT !.queue = Closed(j.queue, u)])
         /\ DOMAIN Closed(j.queue, u) = DOMAIN j.queue
         /\ \A i \in DOMAIN j.queue : Closed(j.queue, u)[i].url = j.queue[i].url
  <1> DEFINE q == Closed(j.queue, u)
  <1>1. j.queue \in Seq(Entry) /\ (j.on => j.queue # <<>>) /\ j \in Job
    BY DEF JobOK, Job, Entry
  <1>2. ASSUME NEW i \in DOMAIN j.queue
        PROVE  q[i] \in Entry /\ q[i].url = j.queue[i].url
    <2>1. j.queue[i] \in Entry
      BY <1>1
    <2>2. [j.queue[i] EXCEPT !.rec.open = FALSE] \in Entry
      BY <2>1 DEF Entry, Info
    <2>3. [j.queue[i] EXCEPT !.rec.open = FALSE].url = j.queue[i].url
      BY <2>1 DEF Entry
    <2> QED BY <2>1, <2>2, <2>3 DEF Closed
  <1>3. DOMAIN q = DOMAIN j.queue
    BY DEF Closed
  <1> HIDE DEF q
  <1>4. q \in Seq(Entry)
    <2>1. DOMAIN q = 1..Len(j.queue) /\ Len(j.queue) \in Nat
      BY <1>1, <1>3
    <2>2. q = [i \in 1..Len(j.queue) |-> q[i]]
      BY <2>1 DEF q, Closed
    <2> HIDE DEF Entry
    <2> QED BY <1>2, <1>3, <2>1, <2>2
  <1>5. j.on => q # <<>>
    <2>1. j.on => 1 \in DOMAIN q
      BY <1>1, <1>3, EmptySeq
    <2> QED BY <2>1
  <1>6. [j EXCEPT !.queue = q] \in Job
    BY <1>1, <1>4 DEF Job, Entry
  <1>7. [j EXCEPT !.queue = q].on = j.on /\ [j EXCEPT !.queue = q].queue = q
    BY <1>1 DEF Job
  <1>8. JobOK([j EXCEPT !.queue = q])
    BY <1>5, <1>6, <1>7 DEF JobOK
  <1> QED BY <1>2, <1>3, <1>8 DEF q

LEMMA CircuitJobs ==
  ASSUME JobsInv, NEW u, CircuitCloses(u)
  PROVE  /\ JobsInv' /\ probe'.on = probe.on /\ DOMAIN probe'.queue = DOMAIN probe.queue
         /\ \A i \in DOMAIN probe.queue : probe'.queue[i].url = probe.queue[i].url
  <1>1. /\ probe' = [probe EXCEPT !.queue = Closed(probe.queue, u)]
        /\ check' = [c \in Checkers |-> [check[c] EXCEPT !.queue = Closed(check[c].queue, u)]]
    BY DEF CircuitCloses
  <1>2. JobOK(probe) /\ \A c \in Checkers : JobOK(check[c])
    BY DEF JobsInv
  <1>3. probe'.on = probe.on /\ probe'.queue = Closed(probe.queue, u)
    BY <1>1, <1>2 DEF JobOK, Job
  <1>4. JobOK(probe') /\ \A c \in Checkers : JobOK(check'[c])
    BY <1>1, <1>2, ClosedJob
  <1>5. check' \in [Checkers -> Job]
    BY <1>1, <1>4 DEF JobOK
  <1> QED BY <1>2, <1>3, <1>4, <1>5, ClosedJob DEF JobsInv

LEMMA ProbeJobs ==
  ASSUME PoolInv, JobsInv, Tick \/ ProbeGood \/ ProbeBad
  PROVE  JobsInv'
  <1>1. UNCHANGED check
    BY DEF Tick, ProbeGood, ProbeBad
  <1>2. CASE Tick
    <2>1. Above # <<>> /\ probe' = Running(Snapshot(Above, info))
      BY <1>2 DEF Tick
    <2>2. Above \in Seq(Gateways) /\ \A u \in Range(Above) : info[u] \in Info
      <3>1. info \in [Range(list) -> Info]
        BY DEF PoolInv, GoodPool
      <3> QED BY <3>1, AboveProperties DEF Range
    <2>3. Snapshot(Above, info) \in Seq(Entry) /\ Snapshot(Above, info) # <<>>
      BY <2>1, <2>2, SnapshotProperties
    <2> QED BY <1>1, <2>1, <2>3, RunningJob DEF JobsInv, JobOK
  <1>3. CASE ProbeGood
    BY <1>1, <1>3, IdleJob DEF ProbeGood, JobsInv, JobOK
  <1>4. CASE ProbeBad
    <2> DEFINE rest == Tail(probe.queue)
    <2>1. probe.on /\ probe' = IF rest = <<>> THEN Idle ELSE Running(rest)
      BY <1>4 DEF ProbeBad
    <2>2. rest \in Seq(Entry)
      BY <2>1, AtHead DEF JobsInv
    <2> HIDE DEF rest
    <2>3. JobOK(probe')
      BY <2>1, <2>2, IdleJob, RunningJob
    <2> QED BY <1>1, <2>3 DEF JobsInv, JobOK
  <1> QED BY <1>2, <1>3, <1>4

LEMMA JobsStay == ASSUME TypeInv, [Next]_vars PROVE JobsInv'
  <1>1. ASSUME UNCHANGED <<probe, check>> PROVE JobsInv'
    BY <1>1 DEF TypeInv, JobsInv, JobOK
  <1>2. CASE UNCHANGED vars
    BY <1>1, <1>2 DEF vars
  <1>3. ASSUME NEW r \in Requests, RequestStep(r) PROVE JobsInv'
    BY <1>1, <1>3 DEF RequestStep, AttemptFails, AttemptWorks, RetryFails, RetryWorks, Retry
  <1>4. ASSUME NEW urls \in Bundles, ConfigLoaded(urls) PROVE JobsInv'
    <2>1. /\ ReadConfig(urls) /\ UNCHANGED <<active, probe>> /\ SyncPool(info)
          /\ \E c \in Checkers : check' = [check EXCEPT ![c] = Queue(list', info', active')]
      BY <1>4 DEF ConfigLoaded, Sync
    <2>2. active' \in [url : Gateways, ver : Nat] /\ \A u \in DOMAIN info : info[u] \in Info
      BY <2>1 DEF TypeInv, PoolInv, GoodPool
    <2>3. JobOK(Queue(list', info', active'))
      BY <2>1, <2>2, ConfigRead, FreshQueue DEF TypeInv
    <2> QED BY <2>1, <2>3, OneJob DEF TypeInv
  <1>5. ASSUME Environment, \A urls \in Bundles : ~ConfigLoaded(urls) PROVE JobsInv'
    BY <1>1, <1>5, CircuitJobs
       DEF Environment, Login, Flip, Send, AttemptRefused, HoldElapses, TypeInv
  <1> QED BY <1>2, <1>3, <1>4, <1>5, VerificationJobs, ProbeJobs DEF Next, TypeInv

-----------------------------------------------------------------------------
(* The requests, the votes and the rest *)

LEMMA OneCall ==
  ASSUME CallsInv, NEW r \in Requests, NEW q, CallOK(q), req' = [req EXCEPT ![r] = q]
  PROVE  CallsInv'
  BY DEF CallsInv, CallOK

LEMMA NoCall == CallOK(NoRequest)
  <1>1. <<>> \in Seq(Gateways)
    OBVIOUS
  <1> QED BY <1>1 DEF CallOK, Call, NoRequest

\* The trail without its innermost retry.
LEMMA FrontMoves ==
  ASSUME NEW trail \in Seq(Gateways), trail # <<>>, NEW tried, Moving(trail, tried)
  PROVE  Front(trail) \in Seq(Gateways) /\ Moving(Front(trail), tried)
  <1> DEFINE n == Len(trail)
  <1>1. n \in Nat \ {0} /\ \A i \in 1..n-1 : trail[i] \in Gateways
    BY EmptySeq
  <1>2. Front(trail) = SubSeq(trail, 1, n-1)
    BY DEF Front
  <1>3. /\ Front(trail) \in Seq(Gateways) /\ DOMAIN Front(trail) = 1..n-1
        /\ \A i \in 1..n-1 : Front(trail)[i] = trail[i]
    BY <1>1, <1>2, SubSeqProperties
  <1>4. DOMAIN trail = 1..n /\ 1..n-1 \subseteq 1..n
    BY <1>1
  <1> HIDE DEF n
  <1>5. IsInjective(Front(trail))
    BY <1>3, <1>4 DEF Moving, IsInjective
  <1>6. Range(Front(trail)) \subseteq Range(trail)
    BY <1>3, <1>4 DEF Range
  <1> QED BY <1>3, <1>5, <1>6 DEF Moving

\* One more retry, with a gateway that was not tried.
LEMMA AppendMoves ==
  ASSUME NEW trail \in Seq(Gateways), NEW tried, Moving(trail, tried),
         NEW h \in Gateways, h \notin tried
  PROVE  Append(trail, h) \in Seq(Gateways) /\ Moving(Append(trail, h), tried \cup {h})
  <1> DEFINE one == <<h>>
  <1>1. Append(trail, h) = trail \o one
    BY AppendIsConcat
  <1>2. one \in Seq(Gateways) /\ Range(one) = {h} /\ IsInjective(one)
    BY DEF Range, IsInjective
  <1>3. Range(trail) \cap Range(one) = {}
    BY <1>2 DEF Moving
  <1>4. /\ trail \o one \in Seq(Gateways) /\ IsInjective(trail \o one)
        /\ Range(trail \o one) = Range(trail) \cup Range(one)
    <2> HIDE DEF one
    <2> QED BY <1>2, <1>3, ConcatDisjoint DEF Moving
  <1> HIDE DEF one
  <1> QED BY <1>1, <1>2, <1>4 DEF Moving

\* A turn of the loop goes on with a gateway of the pool that was not tried, or
\* ends the loop.
LEMMA RetryCall ==
  ASSUME CallsInv, PoolInv', NEW r \in Requests, NEW u, NEW trail \in Seq(Gateways),
         NEW tried \in SUBSET Gateways, Moving(trail, tried), Retry(r, u, trail, tried)
  PROVE  CallsInv' /\ (sdk' \in Listed' \/ Emit)
  <1> DEFINE good == {x \in Listed' \ ({active.url} \cup tried) : ~info'[x].open}
             next == Filter(list', good)
  <1>1. next \in Seq(Gateways) /\ Range(next) \subseteq Listed' \ tried
    <2>1. good \subseteq Listed' \ tried
      OBVIOUS
    <2> HIDE DEF good
    <2>2. list' \in Seq(Gateways)
      BY DEF PoolInv, GoodPool
    <2> QED BY <2>1, <2>2, FilterProperties
  <1>2. CASE next # <<>>
    <2> DEFINE h == Head(next)
               q == [st |-> "sent", at |-> h, tried |-> tried \cup {h}, trail |-> Append(trail, h)]
    <2>1. req' = [req EXCEPT ![r] = q] /\ sdk' = h
      BY <1>2 DEF Retry
    <2>2. h \in Gateways /\ h \in Listed' /\ h \notin tried
      <3> HIDE DEF next
      <3>1. h \in Gateways /\ h \in Range(next)
        BY <1>1, <1>2, EmptySeq DEF Range
      <3> QED BY <1>1, <3>1
    <2> HIDE DEF h
    <2>3. Append(trail, h) \in Seq(Gateways) /\ Moving(Append(trail, h), tried \cup {h})
      BY <2>2, AppendMoves
    <2>4. CallOK(q)
      BY <2>2, <2>3 DEF CallOK, Call
    <2> HIDE DEF q
    <2> QED BY <2>1, <2>2, <2>4, OneCall
  <1>3. CASE next = <<>>
    <2> DEFINE q == IF trail = <<>> THEN NoRequest
                    ELSE [st |-> "lost", at |-> "none", tried |-> tried, trail |-> trail]
    <2>1. req' = [req EXCEPT ![r] = q] /\ Emit
      BY <1>3 DEF Retry
    <2>2. CallOK(q)
      BY NoCall DEF CallOK, Call
    <2> HIDE DEF q
    <2> QED BY <2>1, <2>2, OneCall
  <1> QED BY <1>2, <1>3

\* A loop that ends without an error reports to the one around it.
LEMMA EndedCall ==
  ASSUME CallsInv, NEW r \in Requests, NEW st \in {"won", "lost"}, NEW trail \in Seq(Gateways),
         trail # <<>> => Moving(trail, req[r].tried)
  PROVE  CallOK(Ended(r, st, trail))
  <1>1. req[r].tried \in SUBSET Gateways
    BY DEF CallsInv, Call
  <1> QED BY <1>1, NoCall DEF CallOK, Call, Ended

LEMMA FailedCalls ==
  ASSUME CallsInv, RestInv, PoolInv', NEW r \in Requests, AttemptFails(r) \/ RetryFails(r)
  PROVE  CallsInv' /\ (sdk' \in Listed' \/ Emit)
  <1>1. /\ req[r].trail \in Seq(Gateways) /\ req[r].tried \in SUBSET Gateways /\ sdk \in Gateways
        /\ req[r].trail # <<>> => Moving(req[r].trail, req[r].tried)
        /\ req[r].st = "lost" => req[r].trail # <<>>
    BY DEF CallsInv, CallOK, Call, RestInv
  <1>2. CASE AttemptFails(r)
    <2> DEFINE tried == IF req[r].trail = <<>> THEN {sdk} ELSE req[r].tried
    <2>1. Retry(r, sdk, req[r].trail, tried)
      BY <1>2 DEF AttemptFails
    <2>2. tried \in SUBSET Gateways
      BY <1>1
    <2>3. Moving(req[r].trail, tried)
      <3>1. Moving(<<>>, {sdk})
        BY DEF Moving, IsInjective, Range
      <3> QED BY <1>1, <3>1
    <2> HIDE DEF tried
    <2> QED BY <1>1, <2>1, <2>2, <2>3, RetryCall
  <1>3. CASE RetryFails(r)
    <2>1. req[r].st = "lost" /\ Retry(r, Last(req[r].trail), Front(req[r].trail), req[r].tried)
      BY <1>3 DEF RetryFails
    <2>2. Front(req[r].trail) \in Seq(Gateways) /\ Moving(Front(req[r].trail), req[r].tried)
      BY <1>1, <2>1, FrontMoves
    <2> QED BY <1>1, <2>1, <2>2, RetryCall
  <1> QED BY <1>2, <1>3

LEMMA CallsStay == ASSUME TypeInv, PoolInv', [Next]_vars PROVE CallsInv'
  <1>0. CallsInv /\ RestInv
    BY DEF TypeInv
  <1>1. ASSUME UNCHANGED req PROVE CallsInv'
    BY <1>0, <1>1 DEF CallsInv, CallOK
  <1>2. ASSUME NEW r \in Requests, RequestStep(r) PROVE CallsInv'
    <2>1. CASE AttemptFails(r) \/ RetryFails(r)
      BY <1>0, <2>1, FailedCalls
    <2>2. CASE AttemptWorks(r)
      <3>1. /\ req[r].trail \in Seq(Gateways)
            /\ req[r].trail # <<>> => Moving(req[r].trail, req[r].tried)
        BY <1>0 DEF CallsInv, CallOK, Call
      <3> QED BY <1>0, <2>2, <3>1, EndedCall, OneCall DEF AttemptWorks
    <2>3. CASE RetryWorks(r)
      <3>1. req[r].st = "won" /\ req' = [req EXCEPT ![r] = Ended(r, "won", Front(req[r].trail))]
        BY <2>3 DEF RetryWorks
      <3>2. /\ req[r].trail \in Seq(Gateways) /\ req[r].trail # <<>>
            /\ Moving(req[r].trail, req[r].tried)
        BY <1>0, <3>1 DEF CallsInv, CallOK, Call
      <3>3. Front(req[r].trail) \in Seq(Gateways) /\ Moving(Front(req[r].trail), req[r].tried)
        BY <3>2, FrontMoves
      <3> QED BY <1>0, <3>1, <3>3, EndedCall, OneCall
    <2> QED BY <1>2, <2>1, <2>2, <2>3 DEF RequestStep
  <1>3. ASSUME NEW r \in Requests, Send(r) PROVE CallsInv'
    <2> DEFINE q == [NoRequest EXCEPT !.st = "sent", !.at = sdk]
    <2>1. CallOK(q)
      <3>1. <<>> \in Seq(Gateways)
        OBVIOUS
      <3> QED BY <1>0, <3>1 DEF CallOK, Call, NoRequest, RestInv
    <2>2. req' = [req EXCEPT ![r] = q]
      BY <1>3 DEF Send
    <2> HIDE DEF q
    <2> QED BY <1>0, <2>1, <2>2, OneCall
  <1>4. ASSUME NEW r \in Requests, AttemptRefused(r) PROVE CallsInv'
    BY <1>0, <1>4, NoCall, OneCall DEF AttemptRefused
  <1> QED BY <1>1, <1>2, <1>3, <1>4
        DEF Next, vars, Verification, Relaunch, OpenSdk, Verified, Unverified, Tick, ProbeGood,
            ProbeBad, Environment, ConfigLoaded, Login, Flip, CircuitCloses, HoldElapses

\* The SDK follows the active gateway, which is one of the gateways.
LEMMA EmittedSdk ==
  ASSUME RestInv, PoolInv', Emit
  PROVE  sdk' \in Gateways /\ stage' = stage /\ tag' = tag
  BY DEF RestInv, PoolInv, Emit

LEMMA RestStays == ASSUME TypeInv, PoolInv', [Next]_vars PROVE RestInv'
  <1> DEFINE Env == up' \subseteq Gateways /\ events' \in 0..MaxEvents
             App == /\ stage' \in {"launching", "launched", "opening", "running", "failed"}
                    /\ sdk' \in Gateways /\ tag' \in Nat
             Since == since' \in {"never", "recent", "held"}
             Saved == saved' \in Gateways \cup {"none"}
  <1>1. RestInv /\ JobsInv /\ CallsInv /\ MaxEvents \in Nat
    BY ThresholdsAssumption DEF TypeInv
  <1>2. Env
    <2>1. events' = events \/ (events < MaxEvents /\ events' = events + 1)
      BY DEF Next, vars, Verification, Relaunch, OpenSdk, Verified, Unverified, Tick, ProbeGood,
             ProbeBad, Environment, ConfigLoaded, Login, Flip, CircuitCloses, HoldElapses,
             RequestStep, AttemptFails, AttemptWorks, RetryFails, RetryWorks, Retry, Send,
             AttemptRefused, Event
    <2>2. up' \subseteq Gateways
      BY <1>1
         DEF Next, vars, Verification, Relaunch, OpenSdk, Verified, Unverified, Tick, ProbeGood,
             ProbeBad, Environment, ConfigLoaded, Login, Flip, CircuitCloses, HoldElapses,
             RequestStep, AttemptFails, AttemptWorks, RetryFails, RetryWorks, Retry, Send,
             AttemptRefused, RestInv
    <2> QED BY <1>1, <2>1, <2>2 DEF RestInv
  <1>3. Since
    BY <1>1
       DEF Next, vars, Verification, Relaunch, OpenSdk, Verified, Unverified, Tick, ProbeGood,
           ProbeBad, Environment, ConfigLoaded, Login, Flip, CircuitCloses, HoldElapses,
           RequestStep, AttemptFails, AttemptWorks, RetryFails, RetryWorks, Retry, Send,
           AttemptRefused, Apply, ApplyTo, Activate, Upsert, Sync, pool, RestInv
  <1>4. App
    <2>1. ASSUME UNCHANGED app \/ Emit PROVE App
      BY <1>1, <2>1, EmittedSdk DEF app, RestInv
    <2>2. CASE Relaunch \/ OpenSdk
      BY <1>1, <2>2 DEF Relaunch, OpenSdk, RestInv
    <2>3. ASSUME NEW c \in Checkers, Verified(c) PROVE App
      <3> DEFINE cand == Head(check[c].queue)
      <3>1. /\ check[c].on
            /\ CASE stage = "launching" -> stage' = "launched" /\ UNCHANGED <<sdk, tag>>
                 [] stage = "opening"   -> stage' = "running" /\ sdk' = cand.url /\ tag' = cand.rec.ver
                 [] OTHER               -> Emit
        BY <2>3 DEF Verified
      <3>2. cand.url \in Gateways /\ cand.rec.ver \in Nat
        BY <1>1, <3>1, AtHead DEF JobsInv
      <3> HIDE DEF cand
      <3> QED BY <1>1, <2>1, <3>1, <3>2 DEF RestInv
    <2>4. ASSUME NEW c \in Checkers, Unverified(c) PROVE App
      <3>1. (stage' = "failed" /\ UNCHANGED <<sdk, tag>>) \/ Emit
        BY <2>4 DEF Unverified
      <3> QED BY <1>1, <2>1, <3>1 DEF RestInv
    <2>5. ASSUME NEW r \in Requests, RequestStep(r) PROVE App
      <3>1. CASE AttemptFails(r) \/ RetryFails(r)
        <4>1. sdk' \in Gateways \/ Emit
          <5>1. sdk' \in Listed' \/ Emit
            BY <1>1, <3>1, FailedCalls
          <5>2. Listed' \subseteq Gateways
            BY RangeOfSeq DEF PoolInv, GoodPool, Listed
          <5> QED BY <5>1, <5>2
        <4>2. (stage' = stage /\ tag' = tag) \/ Emit
          BY <3>1 DEF AttemptFails, RetryFails, Retry
        <4> QED BY <1>1, <2>1, <4>1, <4>2 DEF RestInv
      <3>2. CASE AttemptWorks(r) \/ RetryWorks(r)
        BY <2>1, <3>2 DEF AttemptWorks, RetryWorks
      <3> QED BY <2>5, <3>1, <3>2 DEF RequestStep
    <2>6. CASE Environment \/ Tick \/ ProbeGood \/ ProbeBad \/ UNCHANGED vars
      BY <2>1, <2>6
         DEF Environment, ConfigLoaded, Login, Flip, CircuitCloses, HoldElapses, Send,
             AttemptRefused, Tick, ProbeGood, ProbeBad, vars, app
    <2> QED BY <2>2, <2>3, <2>4, <2>5, <2>6 DEF Next, Verification
  <1>5. Saved
    <2>1. saved' = saved \/ saved' = "none"
      BY DEF Next, vars, config, Verification, Relaunch, OpenSdk, Verified, Unverified, Tick,
             ProbeGood, ProbeBad, Environment, ConfigLoaded, Login, ReadConfig, Flip,
             CircuitCloses, HoldElapses, RequestStep, AttemptFails, AttemptWorks, RetryFails,
             RetryWorks, Retry, Send, AttemptRefused
    <2> QED BY <1>1, <2>1 DEF RestInv
  <1> QED BY <1>2, <1>3, <1>4, <1>5 DEF RestInv

\* A step that is not a probe leaves the votes with the same active gateway, and
\* a new one has none: so every probe still to come keeps what it relies on.
LEMMA QuietCounts ==
  ASSUME CountInv, PoolInv', PoolStep, NewStreak,
         probe'.on => /\ probe.on /\ DOMAIN probe'.queue = DOMAIN probe.queue
                      /\ \A i \in DOMAIN probe.queue : probe'.queue[i].url = probe.queue[i].url
  PROVE  CountInv'
  <1>1. NoVotes \in [Gateways -> 0..RecoveryThreshold-1]
    BY ThresholdsAssumption DEF NoVotes
  <1>2. CASE active'.url = active.url
    BY <1>2 DEF CountInv, PoolStep, NewStreak
  <1>3. CASE active'.url # active.url
    <2>1. counts' = NoVotes /\ streak' = NoVotes /\ active'.url \in Gateways
      BY <1>3 DEF PoolStep, NewStreak, NoVotes, PoolInv
    <2>2. counts'[active'.url] = 0
      BY <2>1 DEF NoVotes
    <2> QED BY <1>1, <2>1, <2>2 DEF CountInv
  <1> QED BY <1>2, <1>3

\* What a step does to the active gateway when it is not a probe.
LEMMA QuietPool ==
  ASSUME Verification \/ Environment \/ Tick \/ \E r \in Requests : RequestStep(r)
  PROVE  PoolStep
  <1>1. CASE Verification
    BY <1>1, UnverifiedMoves, RelaunchMoves, ApplyMoves, SameActive
       DEF Verification, OpenSdk, Sync, Verified
  <1>2. CASE Environment
    <2>1. CASE HoldElapses
      BY <2>1 DEF HoldElapses, PoolStep
    <2> QED BY <1>2, <2>1, SameActive
            DEF Environment, ConfigLoaded, Login, Sync, Flip, CircuitCloses, Send,
                AttemptRefused, pool
  <1>3. CASE Tick
    BY <1>3, SameActive DEF Tick, pool
  <1>4. ASSUME NEW r \in Requests, RequestStep(r) PROVE PoolStep
    BY <1>4, ApplyMoves, SameActive
       DEF RequestStep, AttemptFails, RetryFails, Retry, Sync, AttemptWorks, RetryWorks, pool
  <1> QED BY <1>1, <1>2, <1>3, <1>4

\* A recovery check starts with the candidates before the active one.
LEMMA TickCounts == ASSUME PoolInv, CountInv, Tick, NewStreak PROVE CountInv'
  <1>1. probe' = Running(Snapshot(Above, info)) /\ UNCHANGED <<active, counts, streak>>
    BY DEF Tick, pool, NewStreak
  <1>2. Above \in Seq(Gateways) /\ \A u \in Range(Above) : info[u] \in Info
    <2>1. info \in [Range(list) -> Info]
      BY DEF PoolInv, GoodPool
    <2> QED BY <2>1, AboveProperties DEF Range
  <1>3. \A i \in DOMAIN probe'.queue : probe'.queue[i].url # active.url
    BY <1>1, <1>2, SnapshotProperties, AboveProperties DEF Running
  <1> QED BY <1>1, <1>3 DEF CountInv

\* A good probe either has no promotion to make, or takes all votes with it.
LEMMA GoodCounts == ASSUME PoolInv, JobsInv, CountInv, ProbeGood PROVE CountInv'
  <1> DEFINE u == Probed.url
  <1>1. probe.on /\ probe' = Idle
    BY DEF ProbeGood
  <1>2. u \in Gateways /\ u = probe.queue[1].url /\ 1 \in DOMAIN probe.queue
    BY <1>1, AtHead, EmptySeq DEF JobsInv, Probed
  <1>3. streak' = IF active'.url = active.url THEN [streak EXCEPT ![u] = @ + 1] ELSE NoVotes
    BY DEF ProbeGood, NoVotes
  <1>4. \/ counts[u] + 1 < RecoveryThreshold /\ counts' = [counts EXCEPT ![u] = counts[u] + 1]
           /\ active' = active
        \/ ~(counts[u] + 1 < RecoveryThreshold) /\ Apply(u, Probed.rec.ver)
    BY DEF ProbeGood
  <1>5. u = active.url => counts[u] = 0
    BY <1>1, <1>2 DEF CountInv
  <1> HIDE DEF u
  <1>6. counts \in [Gateways -> 0..RecoveryThreshold-1] /\ streak = counts
    BY DEF CountInv
  <1>7. ~probe'.on
    BY <1>1 DEF Idle
  <1>8. CASE counts[u] + 1 < RecoveryThreshold
    <2>1. counts' = [counts EXCEPT ![u] = counts[u] + 1] /\ active' = active
      BY <1>4, <1>8
    <2>2. streak' = counts'
      BY <1>2, <1>3, <1>6, <2>1
    <2>3. counts[u] + 1 \in 0..RecoveryThreshold-1
      BY <1>2, <1>6, <1>8, ThresholdsAssumption
    <2>4. counts' \in [Gateways -> 0..RecoveryThreshold-1]
      BY <1>6, <2>1, <2>3
    <2> QED BY <1>7, <2>2, <2>4 DEF CountInv
  <1>9. CASE ~(counts[u] + 1 < RecoveryThreshold)
    <2>1. Apply(u, Probed.rec.ver)
      BY <1>4, <1>9
    <2>2. active'.url = u /\ u # active.url
      BY <1>5, <1>9, <2>1, ThresholdsAssumption DEF Apply, ApplyTo, Activate
    <2>3. counts' = NoVotes /\ streak' = NoVotes
      BY <1>3, <2>1, <2>2, ApplyMoves DEF PoolStep
    <2>4. NoVotes \in [Gateways -> 0..RecoveryThreshold-1]
      BY ThresholdsAssumption DEF NoVotes
    <2> QED BY <1>7, <2>3, <2>4 DEF CountInv
  <1> QED BY <1>8, <1>9

\* A bad probe forgets the votes of its gateway, in the code and in the history.
LEMMA BadCounts == ASSUME PoolInv, JobsInv, CountInv, ProbeBad PROVE CountInv'
  <1> DEFINE u == Probed.url
             rest == Tail(probe.queue)
  <1>1. /\ probe.on /\ probe' = IF rest = <<>> THEN Idle ELSE Running(rest)
        /\ counts' = [counts EXCEPT ![u] = 0] /\ streak' = [streak EXCEPT ![u] = 0]
        /\ active' = active
    BY DEF ProbeBad
  <1>2. /\ rest \in Seq(Entry) /\ active.url \in Gateways
        /\ \A i \in DOMAIN rest : i+1 \in DOMAIN probe.queue /\ rest[i] = probe.queue[i+1]
    <2>1. probe.queue \in Seq(Entry) \ {<<>>}
      BY <1>1, AtHead DEF JobsInv
    <2> QED BY <2>1 DEF PoolInv
  <1> HIDE DEF u, rest
  <1>3. counts' \in [Gateways -> 0..RecoveryThreshold-1] /\ streak' = counts'
    <2> DEFINE votes == 0..RecoveryThreshold-1
    <2>1. 0 \in votes
      BY ThresholdsAssumption
    <2>2. counts \in [Gateways -> votes] /\ streak = counts
      BY DEF CountInv
    <2> HIDE DEF votes
    <2>3. counts' \in [Gateways -> votes] /\ streak' = counts'
      BY <1>1, <2>1, <2>2
    <2> QED BY <2>3 DEF votes
  <1>4. counts[active.url] = 0 => counts'[active.url] = 0
    BY <1>1, <1>2 DEF CountInv
  <1>5. ASSUME probe'.on, NEW i \in DOMAIN probe'.queue, probe'.queue[i].url = active.url
        PROVE  counts'[active.url] = 0
    <2>1. probe'.queue = rest
      BY <1>1, <1>5 DEF Idle, Running
    <2> QED BY <1>1, <1>2, <1>4, <1>5, <2>1 DEF CountInv
  <1> QED BY <1>1, <1>3, <1>5 DEF CountInv

LEMMA CountsStay == ASSUME TypeInv, PoolInv', [Next]_vars PROVE CountInv'
  <1>1. CASE UNCHANGED vars
    BY <1>1 DEF vars, pool, TypeInv, CountInv
  <1>2. ASSUME Verification \/ \E r \in Requests : RequestStep(r), NewStreak PROVE CountInv'
    <2>1. UNCHANGED probe
      BY <1>2 DEF Verification, Relaunch, OpenSdk, Verified, Unverified, RequestStep,
                  AttemptFails, RetryFails, Retry, AttemptWorks, RetryWorks
    <2> QED BY <1>2, <2>1, QuietPool, QuietCounts DEF TypeInv
  <1>3. ASSUME Environment, NewStreak PROVE CountInv'
    <2>1. CASE \E u \in Gateways : CircuitCloses(u)
      BY <1>3, <2>1, CircuitJobs, QuietPool, QuietCounts DEF TypeInv
    <2>2. CASE UNCHANGED probe
      BY <1>3, <2>2, QuietPool, QuietCounts DEF TypeInv
    <2> QED BY <1>3, <2>1, <2>2
            DEF Environment, ConfigLoaded, Login, Flip, Send, AttemptRefused, HoldElapses
  <1> QED BY <1>1, <1>2, <1>3, TickCounts, GoodCounts, BadCounts DEF Next, TypeInv

-----------------------------------------------------------------------------
(* The theorems about the pool *)

\* At launch there is the stored endpoint or the first configured one, and the
\* first verification has it in its queue.
LEMMA InitialType == Init => TypeInv
  <1> SUFFICES ASSUME Init PROVE TypeInv
    OBVIOUS
  <1>1. PoolInv /\ info[active.url] = Clean(active.ver)
    BY InitialPool
  <1>2. active.url \in Gateways /\ active.ver \in Nat
    BY <1>1 DEF PoolInv
  <1>3. Prioritised \in Seq(Gateways) /\ Range(Prioritised) = Range(list)
    <2>1. /\ order \in Seq(Gateways) /\ list \in Seq(Gateways) /\ Range(order) \subseteq Range(list)
          /\ Listed = Range(list)
      BY <1>1 DEF PoolInv, GoodPool, Listed
    <2> DEFINE p == Filter(order, Range(list)) \o Filter(list, Range(list) \ Range(order))
    <2>2. p \in Seq(Gateways) /\ Range(p) = Range(list)
      BY <2>1, InOrder
    <2>3. Prioritised = p
      BY <2>1 DEF Prioritised
    <2> HIDE DEF p
    <2> QED BY <2>2, <2>3
  <1>4. JobOK(Queue(Prioritised, info, active))
    <2>1. /\ \A u \in DOMAIN info : info[u] \in Info
          /\ active.url \in Range(list) \cap DOMAIN info
      BY <1>1 DEF PoolInv, GoodPool
    <2> QED BY <1>1, <1>2, <1>3, <2>1, QueuedJob
  <1>5. JobsInv
    <2>1. PICK c \in Checkers :
            check = [k \in Checkers |-> IF k = c THEN Queue(Prioritised, info, active) ELSE Idle]
      BY DEF Init
    <2>2. probe = Idle
      BY DEF Init
    <2> QED BY <1>4, <2>1, <2>2, IdleJob DEF JobsInv, JobOK
  <1>6. CallsInv
    BY NoCall DEF Init, CallsInv, CallOK
  <1>7. CountInv
    BY ThresholdsAssumption DEF Init, CountInv, Idle
  <1>8. RestInv
    BY <1>2, ThresholdsAssumption DEF Init, RestInv
  <1> QED BY <1>1, <1>5, <1>6, <1>7, <1>8 DEF TypeInv

\* The invariant all of this is about.
LEMMA TypeInvHolds == Spec => []TypeInv
  <1>1. TypeInv /\ [Next]_vars => TypeInv'
    <2> SUFFICES ASSUME TypeInv, [Next]_vars PROVE TypeInv'
      OBVIOUS
    <2> QED BY PoolStays, JobsStay, CallsStay, CountsStay, RestStays DEF TypeInv
  <1> QED BY <1>1, InitialType, PTL DEF Spec

\* Every variable keeps its type: what a verification, a recovery check or a
\* nested retry of the SDK goes on with is a gateway of the pool it was read
\* from, and the votes of _recoverySuccessCounts stay below the threshold.
THEOREM TypeCorrect == Spec => []TypeOK
  <1>1. TypeInv => TypeOK
    <2> SUFFICES ASSUME TypeInv PROVE TypeOK
      OBVIOUS
    <2>1. /\ declared \in Bundles /\ order \in Seq(Gateways) /\ remote \in Nat
          /\ active \in [url : Gateways, ver : Nat] /\ list \in Seq(Gateways)
          /\ Listed \subseteq Gateways /\ info \in [Listed -> Info]
      BY RangeOfSeq DEF TypeInv, PoolInv, GoodPool, Listed
    <2>2. probe \in Job /\ check \in [Checkers -> Job] /\ req \in [Requests -> Call]
      BY DEF TypeInv, JobsInv, JobOK, CallsInv
    <2>3. /\ counts \in [Gateways -> 0..RecoveryThreshold-1]
          /\ streak \in [Gateways -> 0..RecoveryThreshold-1]
      BY DEF TypeInv, CountInv
    <2> QED BY <2>1, <2>2, <2>3 DEF TypeOK, TypeInv, RestInv
  <1> QED BY <1>1, TypeInvHolds, PTL

\* Whatever a login, a configuration, a promotion or a late verification did to
\* the pool, each candidate is in it once, and the active gateway and every
\* configured address are among them (syncFromCurrentConfig, mergeGatewayUrls,
\* applyRuntimeConfig, _upsertCandidate).
THEOREM PoolIsComplete == Spec => []PoolComplete
  <1>1. TypeInv => PoolComplete
    BY DEF TypeInv, PoolInv, GoodPool, PoolComplete, Listed
  <1> QED BY <1>1, TypeInvHolds, PTL

-----------------------------------------------------------------------------
(* The SDK *)

\* As many different elements as positions.
LEMMA InjectiveLength ==
  ASSUME NEW X, IsFiniteSet(X), NEW s \in Seq(X), IsInjective(s)
  PROVE  Cardinality(Range(s)) = Len(s) /\ IsFiniteSet(Range(s))
  <1>1. Len(s) \in Nat /\ DOMAIN s = 1..Len(s) /\ s \in [1..Len(s) -> X]
    OBVIOUS
  <1>2. IsFiniteSet(1..Len(s)) /\ Cardinality(1..Len(s)) = Len(s)
    BY <1>1, FS_Interval
  <1>3. s \in Bijection(1..Len(s), Range(s))
    BY <1>1 DEF Bijection, Injection, Surjection, IsInjective, Range
  <1>4. ExistsBijection(1..Len(s), Range(s))
    BY <1>3 DEF ExistsBijection
  <1> QED BY <1>2, <1>4, FS_Bijection

\* A request is never retried with a gateway twice, although each of its nested
\* loops marks failures, rebuilds the pool and shares the set of gateways tried
\* with the others: so fewer loops are nested than there are gateways, and none
\* comes to its limit of eight retries (onError of the failover interceptor).
THEOREM RetriesAlwaysMoveOn == Spec => []RetriesMoveOn
  <1>1. TypeInv => RetriesMoveOn
    <2> SUFFICES ASSUME TypeInv, NEW r \in Requests
                 PROVE  /\ IsInjective(req[r].trail)
                        /\ Len(req[r].trail) < Cardinality(Gateways)
      BY DEF RetriesMoveOn
    <2> DEFINE trail == req[r].trail
               tried == req[r].tried
    <2>1. /\ trail \in Seq(Gateways) /\ tried \subseteq Gateways
          /\ trail # <<>> => Moving(trail, tried)
          /\ IsFiniteSet(Gateways)
      BY RetriesAssumption DEF TypeInv, CallsInv, CallOK, Call
    <2>2. active.url \in Gateways
      BY DEF TypeInv, PoolInv
    <2> HIDE DEF trail, tried
    <2>3. IsInjective(trail) /\ Range(trail) \subseteq Gateways /\ Range(trail) # Gateways
      <3>1. CASE trail = <<>>
        BY <2>2, <3>1 DEF IsInjective, Range
      <3>2. CASE trail # <<>>
        BY <2>1, <3>2 DEF Moving
      <3> QED BY <3>1, <3>2
    <2>4. Cardinality(Range(trail)) = Len(trail)
      BY <2>1, <2>3, InjectiveLength
    <2>5. Cardinality(Range(trail)) < Cardinality(Gateways)
      <3>1. /\ Cardinality(Range(trail)) <= Cardinality(Gateways)
            /\ Cardinality(Range(trail)) # Cardinality(Gateways)
        BY <2>1, <2>3, FS_Subset
      <3>2. Cardinality(Range(trail)) \in Nat /\ Cardinality(Gateways) \in Nat
        BY <2>1, <2>3, FS_Subset, FS_CardinalityType
      <3> QED BY <3>1, <3>2
    <2> QED BY <2>3, <2>4, <2>5 DEF trail
  <1> QED BY <1>1, TypeInvHolds, PTL

\* Whoever changes the pool emits it; a step that does not leaves all of it.
LEMMA SdkStays ==
  ASSUME TypeInv, TypeInv', SdkInPool, [Next]_vars
  PROVE  SdkInPool'
  <1>1. CallsInv /\ RestInv /\ PoolInv'
    BY DEF TypeInv
  <1>2. active'.url \in Listed'
    BY <1>1 DEF PoolInv, GoodPool, Listed
  <1>3. ASSUME Emit PROVE SdkInPool'
    BY <1>2, <1>3 DEF Emit, SdkInPool
  <1>4. ASSUME UNCHANGED app, Listed \subseteq Listed' PROVE SdkInPool'
    BY <1>4 DEF app, SdkInPool
  <1>5. CASE Verification
    <2>1. CASE Relaunch \/ OpenSdk
      BY <2>1 DEF Relaunch, OpenSdk, SdkInPool
    <2>2. ASSUME NEW c \in Checkers, Verified(c) PROVE SdkInPool'
      <3>1. Apply(Head(check[c].queue).url, Head(check[c].queue).rec.ver)
        BY <2>2 DEF Verified
      <3>2. active'.url = Head(check[c].queue).url
        BY <3>1 DEF Apply, ApplyTo, Activate
      <3>3. stage' = "launched" \/ sdk' = Head(check[c].queue).url \/ Emit
        BY <2>2 DEF Verified
      <3> QED BY <1>2, <1>3, <3>2, <3>3 DEF SdkInPool
    <2>3. ASSUME NEW c \in Checkers, Unverified(c) PROVE SdkInPool'
      <3>1. stage' = "failed" \/ Emit
        BY <2>3 DEF Unverified
      <3> QED BY <1>3, <3>1 DEF SdkInPool
    <2> QED BY <1>5, <2>1, <2>2, <2>3 DEF Verification
  <1>6. ASSUME NEW r \in Requests, RequestStep(r) PROVE SdkInPool'
    <2>1. CASE AttemptFails(r) \/ RetryFails(r)
      <3>1. sdk' \in Listed' \/ Emit
        BY <1>1, <2>1, FailedCalls
      <3> QED BY <1>3, <3>1 DEF SdkInPool
    <2>2. CASE AttemptWorks(r)
      BY <1>4, <2>2 DEF AttemptWorks, pool, Listed
    <2>3. CASE RetryWorks(r)
      BY <1>3, <2>3 DEF RetryWorks
    <2> QED BY <1>6, <2>1, <2>2, <2>3 DEF RequestStep
  <1>7. CASE Environment
    <2>1. ASSUME NEW u \in Gateways, CircuitCloses(u) PROVE SdkInPool'
      BY <1>4, <2>1 DEF CircuitCloses, Listed
    <2> QED BY <1>3, <1>4, <1>7, <2>1
            DEF Environment, ConfigLoaded, Login, Flip, Send, AttemptRefused, HoldElapses,
                pool, Listed
  <1>8. CASE Tick \/ ProbeGood \/ ProbeBad \/ UNCHANGED vars
    BY <1>3, <1>4, <1>8 DEF Tick, ProbeGood, ProbeBad, vars, pool, Listed
  <1> QED BY <1>5, <1>6, <1>7, <1>8 DEF Next

\* The SDK sends to a gateway of the pool, also after a retry has set its URL and
\* a configuration, a login or a promotion has then retired that gateway
\* (the listener of runtime.stream, updateEndpoint).
THEOREM SdkStaysInPool == Spec => []SdkInPool
  <1>1. Init => SdkInPool
    BY DEF Init, SdkInPool
  <1>2. TypeInv /\ TypeInv' /\ SdkInPool /\ [Next]_vars => SdkInPool'
    BY SdkStays
  <1> QED BY <1>1, <1>2, TypeInvHolds, PTL DEF Spec

=============================================================================
