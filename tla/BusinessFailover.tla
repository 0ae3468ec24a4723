-------------------------- MODULE BusinessFailover --------------------------
(***************************************************************************)
(* The choice of the business backend by a gateway (device_gateway/main.go *)
(* 2523-2750, 2978-3036): the circuit breaker that ends the use of a       *)
(* failing backend, the recovery checker that fails back to a backend of   *)
(* higher priority, the requests in flight while both decide, and the      *)
(* refresh of the configured list.                                         *)
(*                                                                         *)
(* The three kinds of goroutine share backendMu, and hold it for one       *)
(* decision at a time: what they read before may be stale when they act.   *)
(***************************************************************************)
EXTENDS Integers, Sequences, SequencesExt, Lists

CONSTANTS
  Backends,        \* business base URLs
  None,            \* no backend: activeBusinessURL is empty
  Routes,          \* the lists the OSS configuration may give, best first
  Fallible,        \* the backends that may fail
  Requests,        \* request handlers
  Threshold,       \* DG_BUSINESS_FAILURE_THRESHOLD
  Cooldown,        \* DG_BUSINESS_CIRCUIT_SECONDS, in ticks
  RecoveryVotes,   \* DG_BUSINESS_RECOVERY_SUCCESSES
  MinHold          \* DG_BUSINESS_BACKUP_MIN_HOLD_SECONDS, in ticks

ASSUME FailoverAssumption ==
  /\ None \notin Backends
  /\ Fallible \subseteq Backends
  /\ Routes \subseteq Seq(Backends) \ {<<>>}
  /\ Threshold \in Nat \ {0} /\ Cooldown \in Nat \ {0}
  /\ RecoveryVotes \in Nat \ {0} /\ MinHold \in Nat

VARIABLES
  answers,    \* environment: how each backend answers
  route,      \* cfg.BusinessBaseURLs
  unsynced,   \* a refresh has written route and not yet synced the states
  states,     \* backendStates; a missing one is a fresh one
  active,     \* activeBusinessURL
  held,       \* ticks since activeBusinessSince, up to MinHold
  check,      \* the recovery checker
  reqs        \* the requests in flight

vars == <<answers, route, unsynced, states, active, held, check, reqs>>

Fresh == [fails |-> 0, cool |-> 0, votes |-> 0]
NoCheck == [pc |-> "idle", todo |-> <<>>, age |-> 0]
\* An answer below 500 does for a request, only a 2xx does for a probe.
Answers == {"none", "below500", "2xx"}

NoRequest == [pc |-> "idle", urls |-> <<>>, safe |-> TRUE, aborted |-> FALSE,
              sent |-> 0]

Cooling(b) == states[b].cool > 0

Lower(n, bound) == IF n < bound THEN n + 1 ELSE bound

----------------------------------------------------------------------------
(* The shared bookkeeping *)

\* businessURLs: the active backend first, then the configured ones, without
\* those that cool down; when all do, the first is tried all the same.
BusinessURLs ==
  LET first == IF active \in Range(route) /\ ~Cooling(active)
               THEN <<active>> ELSE <<>>
      ordered == first \o Filter(route, {b \in Backends \ {active} : ~Cooling(b)})
  IN  IF ordered = <<>> THEN <<route[1]>> ELSE ordered

\* markBusinessSuccess: the circuit closes and the backend becomes active.
MarkSuccess(b) ==
  /\ states' = [states EXCEPT ![b] = Fresh]
  /\ active' = b
  /\ held' = IF active = b THEN held ELSE 0

\* Faulty variant of MarkFailure: the active backend is kept.
MarkFailureKeepActive(b) ==
  LET fails == Lower(states[b].fails, Threshold)
  IN  /\ states' = [states EXCEPT
                      ![b] = [fails |-> fails, votes |-> 0,
                              cool |-> IF fails = Threshold THEN Cooldown ELSE @.cool]]
      /\ UNCHANGED <<active, held>>

\* markBusinessFailure: from Threshold failures on, each one opens the circuit
\* anew.  The count saturates: only a success resets it.
MarkFailure(b) ==
  LET fails == Lower(states[b].fails, Threshold)
      opens == fails = Threshold
  IN  /\ states' = [states EXCEPT
                      ![b] = [fails |-> fails, votes |-> 0,
                              cool |-> IF opens THEN Cooldown ELSE @.cool]]
      /\ active' = IF opens /\ active = b THEN None ELSE active
      /\ held' = held

----------------------------------------------------------------------------
(* Requests: tryBusinessURLs, called by the proxy, the sign-in and the      *)
(* fetch of the subscription                                                *)

\* The list is read once, when the request begins.
Start(r, safe) ==
  /\ reqs[r].pc = "idle"
  /\ reqs' = [reqs EXCEPT ![r] = [pc |-> "sent", urls |-> BusinessURLs,
                                  safe |-> safe, aborted |-> FALSE, sent |-> 1]]
  /\ UNCHANGED <<answers, route, unsynced, states, active, held, check>>

\* The backend answers, or fails to; the gateway has not seen it yet.
Serve(r) ==
  /\ reqs[r].pc = "sent"
  /\ reqs' = [reqs EXCEPT ![r].pc = IF answers[Head(reqs[r].urls)] # "none"
                                    THEN "answered" ELSE "failed"]
  /\ UNCHANGED <<answers, route, unsynced, states, active, held, check>>

\* The client goes away: the request shares its context, so Do fails now and
\* at every later backend of the list.
Abort(r) ==
  /\ reqs[r].pc = "sent"
  /\ reqs' = [reqs EXCEPT ![r].pc = "failed", ![r].aborted = TRUE]
  /\ UNCHANGED <<answers, route, unsynced, states, active, held, check>>

\* A response below 500 reaches the handler.
Succeed(r) ==
  /\ reqs[r].pc = "answered"
  /\ MarkSuccess(Head(reqs[r].urls))
  /\ reqs' = [reqs EXCEPT ![r] = NoRequest]
  /\ UNCHANGED <<answers, route, unsynced, check>>

\* Faulty variants of Fail: every request is retried; the list is not advanced.
FailRetryAll(r) ==
  /\ reqs[r].pc = "failed"
  /\ MarkFailure(Head(reqs[r].urls))
  /\ reqs' = [reqs EXCEPT ![r] =
                IF Len(reqs[r].urls) > 1
                THEN [reqs[r] EXCEPT
                        !.pc = IF reqs[r].aborted THEN "failed" ELSE "sent",
                        !.urls = Tail(@), !.sent = @ + 1]
                ELSE NoRequest]
  /\ UNCHANGED <<answers, route, unsynced, check>>
FailRetrySame(r) ==
  /\ reqs[r].pc = "failed"
  /\ MarkFailure(Head(reqs[r].urls))
  /\ reqs' = [reqs EXCEPT ![r] = IF reqs[r].safe THEN [@ EXCEPT !.pc = "sent"]
                                 ELSE NoRequest]
  /\ UNCHANGED <<answers, route, unsynced, check>>

\* A transport error or a 5xx reaches the handler: a safe request goes on to
\* the next backend of its list, any other ends.
Fail(r) ==
  /\ reqs[r].pc = "failed"
  /\ MarkFailure(Head(reqs[r].urls))
  /\ reqs' = [reqs EXCEPT ![r] =
                IF reqs[r].safe /\ Len(reqs[r].urls) > 1
                THEN [reqs[r] EXCEPT
                        !.pc = IF reqs[r].aborted THEN "failed" ELSE "sent",
                        !.urls = Tail(@), !.sent = @ + 1]
                ELSE NoRequest]
  /\ UNCHANGED <<answers, route, unsynced, check>>

Request ==
  \E r \in Requests :
    \/ \E safe \in BOOLEAN : Start(r, safe)
    \/ Serve(r) \/ Abort(r) \/ Succeed(r) \/ Fail(r)

----------------------------------------------------------------------------
(* The recovery checker: checkBusinessRecovery *)

IsBackup(b) == b \in Range(route) /\ b # route[1]

\* Faulty variant of Above: one backend short.
AboveShort(b) == SelectInSeq(route, LAMBDA x : x = b) - 2

\* The backends configured before b.
Above(b) == SelectInSeq(route, LAMBDA x : x = b) - 1

\* The active backend and its age are read once; only the backends above it
\* are candidates.
CheckStart ==
  /\ check.pc = "idle"
  /\ IsBackup(active)
  /\ check' = [pc |-> "scan", todo |-> SubSeq(route, 1, Above(active)),
               age |-> held]
  /\ UNCHANGED <<answers, route, unsynced, states, active, held, reqs>>

\* Candidates that cool down are passed over.
CheckScan ==
  /\ check.pc = "scan"
  /\ check' = IF check.todo = <<>> THEN NoCheck
              ELSE IF Cooling(Head(check.todo))
                   THEN [check EXCEPT !.todo = Tail(@)]
                   ELSE [check EXCEPT !.pc = "probing"]
  /\ UNCHANGED <<answers, route, unsynced, states, active, held, reqs>>

CheckProbe ==
  /\ check.pc = "probing"
  /\ check' = [check EXCEPT !.pc = IF answers[Head(check.todo)] = "2xx"
                                   THEN "good" ELSE "bad"]
  /\ UNCHANGED <<answers, route, unsynced, states, active, held, reqs>>

\* Faulty variant of CheckReject: a failed probe takes one vote.
CheckRejectOneVote ==
  /\ check.pc = "bad"
  /\ states' = [states EXCEPT ![Head(check.todo)].votes = @ - 1]
  /\ check' = [check EXCEPT !.pc = "scan", !.todo = Tail(@)]
  /\ UNCHANGED <<answers, route, unsynced, active, held, reqs>>

\* A failed probe takes the votes of the candidate and tries the next one.
CheckReject ==
  /\ check.pc = "bad"
  /\ states' = [states EXCEPT ![Head(check.todo)].votes = 0]
  /\ check' = [check EXCEPT !.pc = "scan", !.todo = Tail(@)]
  /\ UNCHANGED <<answers, route, unsynced, active, held, reqs>>

\* A good probe is a vote.  The verdict is reached here, and carried out once
\* the lock has been released and taken again.
CheckVote ==
  /\ check.pc = "good"
  /\ LET c == Head(check.todo)
         votes == Lower(states[c].votes, RecoveryVotes)
     IN  /\ states' = [states EXCEPT ![c].votes = votes]
         /\ check' = IF votes = RecoveryVotes /\ check.age = MinHold
                     THEN [check EXCEPT !.pc = "promote"] ELSE NoCheck
  /\ UNCHANGED <<answers, route, unsynced, active, held, reqs>>

CheckPromote ==
  /\ check.pc = "promote"
  /\ MarkSuccess(Head(check.todo))
  /\ check' = NoCheck
  /\ UNCHANGED <<answers, route, unsynced, reqs>>

CheckStep == CheckScan \/ CheckProbe \/ CheckReject \/ CheckVote \/ CheckPromote

----------------------------------------------------------------------------
(* The refresh of the list, time and the environment *)

\* refreshOSSConfig writes a list one of whose backends answered a probe ...
RefreshWrite(new) ==
  /\ ~unsynced
  /\ \E b \in Range(new) : answers[b] = "2xx"
  /\ route' = new
  /\ unsynced' = TRUE
  /\ UNCHANGED <<answers, states, active, held, check, reqs>>

\* ... and under the other lock forgets the backends that left the list.
RefreshSync ==
  /\ unsynced
  /\ unsynced' = FALSE
  /\ states' = [b \in Backends |-> IF b \in Range(route) THEN states[b] ELSE Fresh]
  /\ active' = IF active \in Range(route) THEN active ELSE None
  /\ UNCHANGED <<answers, route, held, check, reqs>>

\* Time passes: circuits cool down, the hold grows.
Tick ==
  /\ states' = [b \in Backends |->
                  [states[b] EXCEPT !.cool = IF @ > 0 THEN @ - 1 ELSE 0]]
  /\ held' = Lower(held, MinHold)
  /\ check' = IF check.pc = "idle" THEN check
              ELSE [check EXCEPT !.age = Lower(@, MinHold)]
  /\ UNCHANGED <<answers, route, unsynced, active, reqs>>

\* A backend fails, recovers, or answers its probes with something else.
Change(b, answer) ==
  /\ answer # answers[b]
  /\ answers' = [answers EXCEPT ![b] = answer]
  /\ UNCHANGED <<route, unsynced, states, active, held, check, reqs>>

Environment ==
  \/ \E new \in Routes : RefreshWrite(new)
  \/ RefreshSync
  \/ Tick
  \/ \E b \in Fallible, answer \in Answers : Change(b, answer)

----------------------------------------------------------------------------
Init ==
  /\ answers = [b \in Backends |-> "2xx"]
  /\ route \in Routes
  /\ unsynced = FALSE
  /\ states = [b \in Backends |-> Fresh]
  /\ active = None
  /\ held = MinHold
  /\ check = NoCheck
  /\ reqs = [r \in Requests |-> NoRequest]

Next == Request \/ CheckStart \/ CheckStep \/ Environment

Spec == Init /\ [][Next]_vars

\* The ticker starts a check every interval, every request has a timeout
\* (DG_HTTP_TIMEOUT_SECONDS, five seconds for a probe), and time passes.
\* Nothing makes clients send or abort requests, backends fail or recover, or
\* the list change.
Fairness ==
  /\ WF_vars(CheckStart) /\ WF_vars(CheckStep)
  /\ WF_vars(RefreshSync) /\ WF_vars(Tick)
  /\ \A r \in Requests : WF_vars(Serve(r) \/ Succeed(r) \/ Fail(r))

FairSpec == Spec /\ Fairness

----------------------------------------------------------------------------
(* Type and invariants *)

StateRecords == [fails : 0..Threshold, cool : 0..Cooldown, votes : 0..RecoveryVotes]
CheckRecords == [pc : {"idle", "scan", "probing", "good", "bad", "promote"},
                 todo : Seq(Backends), age : 0..MinHold]
RequestRecords == [pc : {"idle", "sent", "answered", "failed"},
                   urls : Seq(Backends), safe : BOOLEAN, aborted : BOOLEAN,
                   sent : Nat]

\* Every variable has its type (main.go:70-84, 102-108).
TypeOK ==
  /\ answers \in [Backends -> Answers]
  /\ route \in Routes /\ unsynced \in BOOLEAN
  /\ states \in [Backends -> StateRecords]
  /\ active \in Backends \cup {None}
  /\ held \in 0..MinHold
  /\ check \in CheckRecords
  /\ check.pc \in {"probing", "good", "bad", "promote"} => check.todo # <<>>
  /\ reqs \in [Requests -> RequestRecords]
  /\ \A r \in Requests : reqs[r].pc # "idle" => reqs[r].urls # <<>>

\* The active backend has a closed circuit and fewer failures than open it,
\* whatever late answers, stale verdicts and refreshes are applied
\* (markBusinessFailure, markBusinessSuccess, syncBusinessBackends).
ActiveInRotation ==
  active \in Backends => /\ states[active].cool = 0
                         /\ states[active].fails < Threshold

\* A request that may change state reaches one backend at most, so it cannot
\* be carried out twice (tryBusinessURLs; device_gateway/README.md:94-96).
NeverReplayed ==
  \A r \in Requests : ~reqs[r].safe => reqs[r].sent <= 1

\* The first choice of a new request.
Preferred == BusinessURLs[1]

AllServe ==
  /\ \A b \in Backends : answers[b] = "2xx"
  /\ \A r \in Requests : ~reqs[r].aborted

\* Every backend answers its probes, and the list is l.
Settled(l) == AllServe /\ route = l /\ ~unsynced

\* Once every backend answers its probes, no request is aborted and the list stays the
\* same, new requests are sent to the backend of highest priority again and
\* again, whatever had been active and whichever circuits were open
\* (checkBusinessRecovery).
FailsBack ==
  \A l \in Routes : <>[]Settled(l) => []<>(Preferred = l[1])

\* ... and for good: "after the recovery threshold is met only new requests
\* use the recovered backend" (main.go:2654-2657).
FailbackLasts ==
  \A l \in Routes : <>[]Settled(l) => <>[](Preferred = l[1])

\* Every request ends, after it has been to each backend of its list at most
\* once (tryBusinessURLs).
RequestsEnd ==
  \A r \in Requests : reqs[r].pc # "idle" ~> reqs[r].pc = "idle"

\* A backend that never failed stays in rotation: circuits open "after
\* DG_BUSINESS_FAILURE_THRESHOLD consecutive failures" of a backend
\* (device_gateway/README.md:92-93).
HealthyStaysInRotation ==
  \A b \in Backends \ Fallible : ~Cooling(b)

============================================================================
