----------------------------- MODULE AndroidVpn -----------------------------
(***************************************************************************)
(* The VPN of the Android app: GlobalState, VpnPlugin, FastCatVpnService   *)
(* and VpnRecoveryStore, the Dart entry point _service that runs in the    *)
(* service engine, and below them the TUN of the core (CoreTun).           *)
(*                                                                         *)
(* The handlers of the service run on the main thread, one at a time; the  *)
(* heartbeat and the status poll are coroutines on other threads that      *)
(* suspend at every call to Dart.  runLock is only ever taken on the main  *)
(* thread and orders nothing.  VPN mode only (options.enable is true).     *)
(***************************************************************************)
EXTENDS CoreTun

CONSTANTS
  FailureLimit,   \* HEARTBEAT_FAILURE_LIMIT
  MaxEvents,      \* bound: what the user and the system do
  MaxJobs         \* bound: goroutines waiting for tunLock

ASSUME FailureLimitAssumption == FailureLimit \in Nat \ {0}
ASSUME BoundsAssumption == MaxEvents \in Nat /\ MaxJobs \in Nat

VARIABLES
  desired,     \* VpnRecoveryStore: desired_running, on disk
  permission,  \* VpnService.prepare() = null: the VPN is ours to start
  alwaysOn,    \* isAlwaysOn: the VPN is the one the system keeps up
  started,     \* Android holds the service as started (no stopSelf yet)
  command,     \* a start of the service, with its intent, is on its way
  exists,      \* a service object exists
  sticky,      \* the process died under a started service
  runState, health,
  service,     \* fastCatService # null
  bound,       \* our connection: "no", "pending" or "yes"
  tunActive,   \* the flag of the service object
  job, failures, stage,   \* heartbeatJob and its counters
  beat,        \* the heartbeat being performed (heartbeatMutex), and by whom
  restart,     \* recoveryRestartInProgress: its coroutine is on its way
  sync,        \* the syncStatus coroutine: "none", "launched", "polling",
               \* "beating", or the health it read
  posted,      \* a STOP posted to runState by onRevoke
  tileStop,    \* a tile's stop for the service engine: "asked", then its "exit"
  activity, appInit,      \* flutterEngine # null; the app calls destroy, init
  engine,      \* serviceEngine: "none", "quick" (starting up), "ready", or
               \* "failed": a quick start that threw before it did anything
  off,         \* the user stopped the VPN and has not asked for it since
  events

osVars == <<desired, permission, alwaysOn, started, command, exists, sticky>>
stateVars == <<runState, health, service, bound, tunActive>>
beatVars == <<job, failures, stage, beat>>
msgVars == <<restart, sync, posted, tileStop>>
appVars == <<activity, appInit, engine>>
vars == <<tunVars, osVars, stateVars, beatVars, msgVars, appVars, off, events>>

RunStates == {"STOP", "PENDING", "START"}
Health == {"disconnected", "connected", "degraded", "recovering"}
Engines == {"none", "quick", "ready", "failed"}
NoBeat == [at |-> "idle", owner |-> "job", tun |-> FALSE]
Beats == [at : {"idle", "asked", "rebuilding", "preparing"},
          owner : {"job", "status"}, tun : BOOLEAN]

Init ==
  /\ TunInit
  /\ desired = FALSE /\ permission \in BOOLEAN /\ alwaysOn = FALSE
  /\ started = FALSE /\ command = FALSE /\ exists = FALSE /\ sticky = FALSE
  /\ runState = "STOP" /\ health = "disconnected"
  /\ service = FALSE /\ bound = "no" /\ tunActive = FALSE
  /\ job = FALSE /\ failures = 0 /\ stage = 0 /\ beat = NoBeat
  /\ restart = FALSE /\ sync = "none" /\ posted = FALSE /\ tileStop = "no"
  /\ activity = FALSE /\ appInit = "no" /\ engine = "none"
  /\ off = FALSE /\ events = 0

-----------------------------------------------------------------------------
(* What the handlers are made of. *)

Call(s, n) ==
  /\ stops + s <= MaxJobs /\ starting + opening + n <= MaxJobs
  /\ Calls(s, n)

\* stopHeartbeatJob: a heartbeat of the job ends where it is suspended, one
\* that a status poll performs goes on.
Uncancelled == IF beat.owner = "job" THEN NoBeat ELSE beat
StopHeartbeatJob == job' = FALSE /\ beat' = Uncancelled /\ UNCHANGED <<failures, stage>>

Unbound == IF bound = "yes" THEN "no" ELSE bound

\* FlutterEngine.destroy, with the onDetachedFromEngine of the plugin; what the
\* tile sent to the engine goes with it.
DestroyEngine ==
  /\ engine' = "none" /\ tileStop' = "no"
  /\ bound' = IF engine = "none" THEN bound ELSE Unbound
  /\ IF engine = "none" THEN UNCHANGED beatVars ELSE StopHeartbeatJob

\* The engine initServiceEngine leaves, quick if it is told to or no app is open.
InitiatedEngine(force) ==
  IF engine # "none" THEN engine ELSE IF force \/ ~activity THEN "quick" ELSE "ready"

\* restartServiceEngineForRecovery, up to the launch of its coroutine.
Restarting == restart \/ desired

\* handleStartService, with a service to start; no job runs in the scope of a
\* destroyed engine.
StartService(ok) ==
  \/ runState = "START"
     /\ UNCHANGED <<desired, runState, health, tunActive, beatVars, tunVars>>
  \/ /\ runState # "START" /\ ok
     /\ desired' = TRUE /\ tunActive' = TRUE
     /\ runState' = "START" /\ health' = "connected"
     /\ Call(0, 1)
     /\ job' = (engine # "none") /\ failures' = 0 /\ stage' = 0 /\ beat' = Uncancelled
  \/ /\ runState # "START"             \* Establish VPN rejected by system
     /\ desired' = FALSE
     /\ runState' = "STOP" /\ health' = "disconnected"
     /\ UNCHANGED <<tunActive, beatVars, tunVars>>

\* VpnPlugin.handleStart; without the permission nothing more happens.
VpnStart(ok) ==
  \/ /\ ok /\ service
     /\ StartService(ok)
     /\ UNCHANGED <<started, command, bound>>
  \/ /\ ok /\ ~service                  \* bindService
     /\ started' = TRUE /\ command' = TRUE /\ bound' = "pending"
     /\ UNCHANGED <<desired, runState, health, tunActive, beatVars, tunVars>>
  \/ /\ ~ok
     /\ UNCHANGED <<desired, started, command, runState, health, bound, tunActive, beatVars,
                    tunVars>>

\* Faulty variant: the intent is left on disk.
VpnStopUnsaved(next) ==
  /\ UNCHANGED desired /\ health' = "disconnected"
  /\ \/ /\ runState = "STOP"
        /\ engine' = next
        /\ UNCHANGED <<started, runState, bound, tunActive, beatVars, tunVars>>
     \/ /\ runState # "STOP" /\ runState' = "STOP"
        /\ Call(1, 0)
        /\ tunActive' = (tunActive /\ ~service) /\ started' = (started /\ ~service)
        /\ StopHeartbeatJob
        /\ engine' = IF activity THEN next ELSE "none"
        /\ bound' = IF activity THEN bound ELSE Unbound

\* VpnPlugin.handleStop; next is the engine if the handler leaves it alone.
VpnStop(next) ==
  /\ desired' = FALSE /\ health' = "disconnected"
  /\ \/ /\ runState = "STOP"
        /\ engine' = next
        /\ UNCHANGED <<started, runState, bound, tunActive, beatVars, tunVars>>
     \/ /\ runState # "STOP"
        /\ runState' = "STOP"
        /\ Call(1, 0)
        /\ tunActive' = (tunActive /\ ~service)
        /\ started' = (started /\ ~service)
        /\ StopHeartbeatJob
        /\ engine' = IF activity THEN next ELSE "none"          \* handleTryDestroy
        /\ bound' = IF activity THEN bound ELSE Unbound

-----------------------------------------------------------------------------
(* The user and the system. *)

Event == events < MaxEvents /\ events' = events + 1

\* The VPN is on, as far as the app knows.
ShownOn == runState # "STOP" /\ service

\* What starts the VPN without asking again whether it is still wanted, and what
\* a stop does not end: a restart for recovery that was launched, a quick start,
\* a service that is being started, bound or recreated, and the rebuild of a
\* status poll's heartbeat, which has looked at the intent already.
StartUnderWay ==
  \/ restart \/ engine = "quick" \/ command \/ bound = "pending" \/ sticky
  \/ beat.at = "rebuilding" /\ beat.owner = "status"

\* The user's stop, through the app or the tile, has been carried out.
Stopped == off' = (off \/ (ShownOn /\ ~StartUnderWay /\ ~alwaysOn))

\* syncStatus; one coroutine at a time is modelled.
Launched == IF sync = "none" THEN "launched" ELSE sync

\* The main engine starts, with a status poll: ClashLib first destroys the
\* service engine, then has one initialised.
OpenApp ==
  /\ Event /\ ~activity
  /\ activity' = TRUE /\ appInit' = "destroy" /\ sync' = Launched
  /\ UNCHANGED <<tunVars, osVars, stateVars, beatVars, restart, posted, tileStop, engine, off>>

CloseApp ==
  /\ Event /\ activity
  /\ activity' = FALSE /\ appInit' = "no"
  /\ UNCHANGED <<tunVars, osVars, stateVars, beatVars, msgVars, engine, off>>

AppDestroy ==
  /\ appInit = "destroy"
  /\ appInit' = "init"
  /\ DestroyEngine
  /\ UNCHANGED <<tunVars, osVars, runState, health, service, tunActive, restart, sync,
                 posted, activity, off, events>>

AppInit ==
  /\ appInit = "init"
  /\ appInit' = "no"
  /\ engine' = InitiatedEngine(FALSE)
  /\ UNCHANGED <<tunVars, osVars, stateVars, beatVars, msgVars, activity, off, events>>

\* startVpn of the app; the user may grant the permission when asked.
UserStart(granted) ==
  /\ Event /\ activity /\ appInit = "no" /\ engine # "none"
  /\ permission' = (permission \/ granted)
  /\ VpnStart(permission')
  /\ off' = FALSE
  /\ UNCHANGED <<alwaysOn, exists, sticky, service, msgVars, appVars>>

\* stopVpn of the app.
UserStop ==
  /\ Event /\ activity /\ appInit = "no" /\ engine # "none"
  /\ VpnStop(engine)
  /\ Stopped
  /\ UNCHANGED <<permission, alwaysOn, command, exists, sticky, service, msgVars, activity,
                 appInit>>

\* handleToggle.  With the app open the tile asks the app, which starts or
\* stops as its user would; the service engine knows only how to stop.
TileClick ==
  /\ Event
  /\ \/ /\ runState = "STOP"
        /\ off' = FALSE
        /\ engine' = IF activity THEN engine ELSE InitiatedEngine(FALSE)
        /\ UNCHANGED tileStop
     \/ /\ runState = "START"
        /\ tileStop' \in CASE activity \/ engine = "none" -> {tileStop}
                           [] engine = "ready" -> {"asked"}
                           [] OTHER -> {tileStop, "asked"}    \* listening or not
        /\ UNCHANGED <<off, engine>>
  /\ runState' = "PENDING"
  /\ UNCHANGED <<tunVars, osVars, health, service, bound, tunActive, beatVars,
                 restart, sync, posted, activity, appInit>>

\* Everything in memory goes with the process; a started service is recreated.
ProcessGone(st) ==
  /\ started' = st /\ sticky' = st /\ command' = FALSE /\ exists' = FALSE
  /\ runState' = "STOP" /\ health' = "disconnected"
  /\ service' = FALSE /\ bound' = "no" /\ tunActive' = FALSE
  /\ job' = FALSE /\ failures' = 0 /\ stage' = 0 /\ beat' = NoBeat
  /\ restart' = FALSE /\ sync' = "none" /\ posted' = FALSE /\ tileStop' = "no"
  /\ activity' = FALSE /\ appInit' = "no" /\ engine' = "none"
  /\ stops' = 0 /\ starting' = 0 /\ opening' = 0 /\ runTime' = FALSE

\* onStop of the service engine's tile listener.  With no app open the stop
\* destroys the engine that asked for it, and its exit(0) is never reached.
TileStop ==
  /\ tileStop = "asked" /\ engine # "none"
  /\ VpnStop(engine)
  /\ Stopped
  /\ tileStop' = IF engine' = "none" THEN "no" ELSE "exit"
  /\ UNCHANGED <<permission, alwaysOn, command, exists, sticky, service, restart, sync, posted,
                 activity, appInit, events>>

TileExit ==
  /\ tileStop = "exit"
  /\ ProcessGone(started)
  /\ UNCHANGED <<desired, permission, alwaysOn, off, events>>

ProcessDeath ==
  /\ Event
  /\ ProcessGone(started)
  /\ UNCHANGED <<desired, permission, alwaysOn, off>>

\* The user makes this the VPN the system keeps up, or the system starts it
\* again: it may be started from now on, and a start is on its way.
AlwaysOn ==
  /\ Event
  /\ alwaysOn' = TRUE /\ permission' = TRUE
  /\ started' = TRUE /\ command' = TRUE
  /\ off' = FALSE
  /\ UNCHANGED <<tunVars, desired, exists, sticky, stateVars, beatVars, msgVars, appVars>>

AlwaysOff ==
  /\ Event /\ alwaysOn
  /\ alwaysOn' = FALSE
  /\ UNCHANGED <<tunVars, desired, permission, started, command, exists, sticky, stateVars,
                 beatVars, msgVars, appVars, off>>

\* onStartCommand without an intent.
StickyRestart ==
  /\ sticky /\ started
  /\ sticky' = FALSE /\ exists' = TRUE
  /\ IF desired \/ alwaysOn
       THEN restart' = Restarting /\ UNCHANGED engine
       ELSE engine' = InitiatedEngine(FALSE) /\ UNCHANGED restart
  /\ UNCHANGED <<tunVars, desired, permission, alwaysOn, started, command, stateVars, beatVars,
                 sync, posted, tileStop, activity, appInit, off, events>>

\* onRevoke, on a binder thread; another VPN took over, which it cannot from one
\* that is always on.
Revoke ==
  /\ Event /\ permission /\ ~alwaysOn
  /\ permission' = FALSE
  /\ IF tunActive
       THEN /\ desired' = FALSE /\ posted' = TRUE
            /\ tunActive' = FALSE /\ started' = FALSE
            /\ Call(1, 0)
       ELSE UNCHANGED <<desired, posted, tunActive, started, tunVars>>
  /\ UNCHANGED <<alwaysOn, command, exists, sticky, runState, health, service, bound, beatVars,
                 restart, sync, tileStop, appVars, off>>

PostedStop ==
  /\ posted /\ posted' = FALSE
  /\ runState' = "STOP"
  /\ UNCHANGED <<tunVars, osVars, health, service, bound, tunActive, beatVars, restart, sync,
                 tileStop, appVars, off, events>>

\* onDestroy, once the service is neither started nor bound.
ServiceDestroyed ==
  /\ exists /\ ~started /\ bound = "no"
  /\ exists' = FALSE
  /\ tunActive' = FALSE
  /\ Call(1, 0)
  /\ UNCHANGED <<desired, permission, alwaysOn, started, command, sticky, runState, health,
                 service, bound, beatVars, msgVars, appVars, off, events>>

-----------------------------------------------------------------------------
(* The binder and the service engine. *)

\* onStartCommand with an intent.
StartCommand ==
  /\ command /\ command' = FALSE
  /\ sticky' = FALSE /\ exists' = TRUE
  /\ engine' = InitiatedEngine(desired \/ alwaysOn)
  /\ UNCHANGED <<tunVars, desired, permission, alwaysOn, started, stateVars, beatVars, msgVars,
                 activity, appInit, off, events>>

\* onServiceConnected; the service was started before it was bound.
ServiceConnected ==
  /\ bound = "pending" /\ ~command
  /\ bound' = "yes" /\ service' = TRUE /\ exists' = TRUE
  /\ StartService(permission)
  /\ UNCHANGED <<permission, alwaysOn, started, command, sticky, msgVars, appVars, off, events>>

\* The quick start of _service: without a profile, or when the core cannot be
\* set up, it stops the VPN; otherwise it starts it.  Whatever throws before the
\* try block, in globalState.init or initGeo, ends it with neither.
QuickStart ==
  /\ engine = "quick"
  /\ \/ VpnStop("ready") /\ UNCHANGED command
     \/ VpnStart(permission) /\ engine' = "ready"
     \/ /\ engine' = "failed"
        /\ UNCHANGED <<desired, started, command, runState, health, bound, tunActive, beatVars,
                       tunVars>>
  /\ tileStop' = IF engine' = "none" THEN "no" ELSE tileStop
  /\ UNCHANGED <<permission, alwaysOn, exists, sticky, service, restart, sync, posted, activity,
                 appInit, off, events>>

-----------------------------------------------------------------------------
(* The heartbeat (performHeartbeat), of the job or of a status poll. *)

BeatBy(owner) == [at |-> "asked", owner |-> owner, tun |-> service /\ tunActive]
BeatAt(step) == [beat EXCEPT !.at = step]

HeartbeatDue ==
  /\ job /\ beat.at = "idle" /\ runState = "START"
  /\ beat' = BeatBy("job")
  /\ UNCHANGED <<tunVars, osVars, stateVars, job, failures, stage, msgVars, appVars, off, events>>

\* handleControlPlaneFailure.  The code counts on beyond the limit; nothing tells
\* those counts from the limit, and the model stops there.
ControlPlaneFailure ==
  /\ failures' = IF failures < FailureLimit THEN failures + 1 ELSE failures
  /\ IF failures' < FailureLimit
       THEN health' = "degraded" /\ beat' = NoBeat
       ELSE health' = "recovering" /\ beat' = BeatAt("preparing")
  /\ UNCHANGED stage

\* Faulty variant: every stage of the recovery steps on to the next.
DataPlaneFailureStepping ==
  \/ stage = 0 /\ stage' = 1 /\ health' = "degraded" /\ beat' = NoBeat
  \/ /\ stage = 1 /\ health' = "recovering"
     /\ beat' = BeatAt(IF service /\ desired THEN "rebuilding" ELSE "preparing")
     /\ UNCHANGED stage
  \/ stage >= 2 /\ health' = "recovering" /\ beat' = BeatAt("preparing") /\ stage' = stage + 1

\* A probe of the data plane failed: soft recovery, then a new TUN, then a
\* new engine (recoverDataPlane, and rebuildTun up to its first suspension).
DataPlaneFailure ==
  \/ stage = 0 /\ stage' = 1 /\ health' = "degraded" /\ beat' = NoBeat
  \/ /\ stage = 1 /\ health' = "recovering"
     /\ beat' = BeatAt(IF service /\ desired THEN "rebuilding" ELSE "preparing")
     /\ UNCHANGED stage
  \/ stage = 2 /\ health' = "recovering" /\ beat' = BeatAt("preparing") /\ UNCHANGED stage

\* tunHealthy, as read before the call to Dart, and coreHealthy, its answer; the
\* faulty variant trusts the flag of the service alone.
CoreHealthyByFlag == beat.tun
CoreHealthy == beat.tun /\ runTime

\* Dart has answered, or the call timed out.
HeartbeatAnswered ==
  /\ beat.at = "asked"
  /\ \/ ControlPlaneFailure                        \* unhealthy, or no answer
     \/ /\ CoreHealthy
        /\ failures' = 0
        /\ \/ health' = "connected" /\ stage' = 0 /\ beat' = NoBeat
           \/ UNCHANGED <<health, stage>> /\ beat' = NoBeat      \* idle traffic
           \/ health' = "degraded" /\ beat' = NoBeat /\ UNCHANGED stage   \* no network
           \/ DataPlaneFailure
  /\ UNCHANGED <<tunVars, osVars, runState, service, bound, tunActive, job, msgVars, appVars,
                 off, events>>

\* rebuildTun on the main thread.
RebuildTun ==
  /\ beat.at = "rebuilding"
  /\ \/ /\ permission
        /\ Call(1, 1)
        /\ tunActive' = TRUE /\ runState' = "START"
        /\ stage' = 2 /\ beat' = NoBeat
     \/ /\ Call(1, 0)
        /\ tunActive' = FALSE /\ runState' = "PENDING"
        /\ beat' = BeatAt("preparing") /\ UNCHANGED stage
  /\ UNCHANGED <<osVars, health, service, bound, job, failures, msgVars, appVars, off, events>>

\* The core has been shut down, or did not answer in time.
RecoveryPrepared ==
  /\ beat.at = "preparing"
  /\ beat' = NoBeat
  /\ restart' = Restarting
  /\ UNCHANGED <<tunVars, osVars, stateVars, job, failures, stage, sync, posted, tileStop,
                 appVars, off, events>>

\* Faulty variant: the old engine is kept, and with it there is no quick start.
RestartKeepingEngine ==
  /\ restart /\ restart' = FALSE
  /\ runState' = "PENDING" /\ engine' = InitiatedEngine(TRUE)
  /\ UNCHANGED tileStop
  /\ IF engine = "none"
       THEN UNCHANGED <<health, service, bound, tunActive, beatVars, tunVars>>
       ELSE /\ health' = "recovering"
            /\ StopHeartbeatJob
            /\ Call(1, 0)
            /\ tunActive' = (tunActive /\ ~service)
            /\ bound' = Unbound
            /\ service' = FALSE
  /\ UNCHANGED <<osVars, sync, posted, activity, appInit, off, events>>

\* The coroutine itself, on the main thread, with prepareForRecovery; it does not
\* look at the intent again.
RestartEngine ==
  /\ restart /\ restart' = FALSE
  /\ runState' = "PENDING" /\ engine' = "quick" /\ tileStop' = "no"
  /\ IF engine = "none"
       THEN UNCHANGED <<health, service, bound, tunActive, beatVars, tunVars>>
       ELSE /\ health' = "recovering"
            /\ StopHeartbeatJob
            /\ Call(1, 0)
            /\ tunActive' = (tunActive /\ ~service)
            /\ bound' = Unbound
            /\ service' = FALSE
  /\ UNCHANGED <<osVars, sync, posted, activity, appInit, off, events>>

-----------------------------------------------------------------------------
(* The status poll (syncStatus), when the app or the tile comes up. *)

TileListens ==
  /\ Event /\ sync = "none"
  /\ sync' = Launched
  /\ UNCHANGED <<tunVars, osVars, stateVars, beatVars, restart, posted, tileStop, appVars, off>>

\* The coroutine takes the plugin of the engine there is.
PollStatus ==
  /\ sync = "launched"
  /\ sync' = IF engine = "none" THEN "disconnected" ELSE "polling"
  /\ UNCHANGED <<tunVars, osVars, stateVars, beatVars, restart, posted, tileStop, appVars,
                 off, events>>

\* getStatus performs a heartbeat if the last healthy one is long ago.
PollHeartbeat ==
  /\ sync = "polling" /\ runState = "START" /\ beat.at = "idle"
  /\ sync' = "beating" /\ beat' = BeatBy("status")
  /\ UNCHANGED <<tunVars, osVars, stateVars, job, failures, stage, restart, posted, tileStop,
                 appVars, off, events>>

ReadHealth ==
  /\ sync = "polling" \/ (sync = "beating" /\ beat.owner = "job")
  /\ sync' = health
  /\ UNCHANGED <<tunVars, osVars, stateVars, beatVars, restart, posted, tileStop, appVars,
                 off, events>>

WriteState ==
  /\ sync \in Health
  /\ sync' = "none"
  /\ runState' = CASE sync \in {"connected", "degraded"} -> "START"
                   [] sync = "recovering" -> runState
                   [] OTHER -> "STOP"
  /\ UNCHANGED <<tunVars, osVars, health, service, bound, tunActive, beatVars, restart, posted,
                 tileStop, appVars, off, events>>

-----------------------------------------------------------------------------
Tun == TunStep /\ UNCHANGED <<osVars, stateVars, beatVars, msgVars, appVars, off, events>>

UserOrSystem ==
  \/ OpenApp \/ CloseApp \/ TileClick \/ UserStop \/ TileListens
  \/ \E granted \in BOOLEAN : UserStart(granted)
  \/ Revoke \/ AlwaysOn \/ AlwaysOff \/ ProcessDeath

Handlers ==
  \/ AppDestroy \/ AppInit \/ TileStop \/ TileExit \/ StickyRestart \/ PostedStop
  \/ ServiceDestroyed \/ StartCommand \/ ServiceConnected \/ QuickStart \/ RestartEngine

Heartbeats ==
  \/ HeartbeatDue \/ HeartbeatAnswered \/ RebuildTun \/ RecoveryPrepared
  \/ PollStatus \/ PollHeartbeat \/ ReadHealth \/ WriteState

Next == UserOrSystem \/ Handlers \/ Heartbeats \/ Tun

(***************************************************************************)
(* Goroutines, messages to the main thread and the Dart code get their     *)
(* turn, and the heartbeat job wakes up every HEARTBEAT_INTERVAL_MS.  The  *)
(* user and the system owe nothing.                                        *)
(***************************************************************************)
Fairness ==
  /\ TunFairness
  /\ WF_vars(StickyRestart) /\ WF_vars(StartCommand) /\ WF_vars(ServiceConnected)
  /\ WF_vars(QuickStart)
  /\ WF_vars(RestartEngine) /\ WF_vars(PostedStop)
  /\ WF_vars(AppDestroy) /\ WF_vars(AppInit)
  /\ WF_vars(TileStop) /\ WF_vars(TileExit)
  /\ WF_vars(HeartbeatDue) /\ WF_vars(HeartbeatAnswered)
  /\ WF_vars(RebuildTun) /\ WF_vars(RecoveryPrepared)
  /\ WF_vars(PollStatus) /\ WF_vars(ReadHealth) /\ WF_vars(WriteState)

Spec == Init /\ [][Next]_vars /\ Fairness

-----------------------------------------------------------------------------
TypeOK ==
  /\ TunTypeOK
  /\ {desired, permission, alwaysOn, started, command, exists, sticky, service, tunActive, job,
      restart, posted, activity, off} \subseteq BOOLEAN
  /\ runState \in RunStates /\ health \in Health
  /\ bound \in {"no", "pending", "yes"}
  /\ failures \in 0..FailureLimit /\ stage \in 0..2 /\ beat \in Beats
  /\ sync \in {"none", "launched", "polling", "beating"} \cup Health
  /\ tileStop \in {"no", "asked", "exit"}
  /\ appInit \in {"no", "destroy", "init"} /\ engine \in Engines
  /\ events \in 0..MaxEvents

\* A VPN the user stopped stays off until the user starts it or makes it always
\* on: no heartbeat of the job or of a status poll, no late recovery, binder
\* callback, engine, restart of the service or death of the process brings it
\* back (VpnPlugin.handleStop and everything that may run after it).  What had
\* passed its last look at the intent when the stop came, StartUnderWay, does
\* bring it back, and the system does that keeps it always on.
StopHolds == off => ~desired /\ ~tunActive

Lost == ~tunActive \/ ~runTime

\* While the heartbeat job runs, a VPN that shows as started and whose TUN is
\* gone, a start overtaken by an earlier stop included, does not stay so: the
\* TUN comes back, or the state or the intent changes (performHeartbeatLocked).
LostTunnelNoticed ==
  (runState = "START" /\ job /\ Lost)
    ~> (~Lost \/ runState # "START" \/ ~job \/ ~desired)

\* A restart for recovery, or the recreation of the service after the process
\* died while the VPN was wanted, is carried to its end, a running VPN or a
\* stopped one, unless the user opens the app, the permission is lost, the quick
\* start throws before its try block, or the process dies with a service that
\* is bound only, which nobody recreates (restartServiceEngineForRecovery, the
\* quick start of _service, onStartCommand).
Unrecovered == activity \/ ~permission \/ engine = "failed" \/ (engine = "none" /\ ~started)

RecoveryEnds ==
  (desired /\ (restart \/ (sticky /\ started) \/ engine = "quick"))
    ~> (runState = "START" \/ ~desired \/ Unrecovered)

=============================================================================
