-------------------------- MODULE AndroidVpnProofs --------------------------
(***************************************************************************)
(* Proofs about the VPN of the Android app, for every limit of the         *)
(* heartbeat and every number of events and jobs.                          *)
(***************************************************************************)
EXTENDS AndroidVpn, TLAPS

-----------------------------------------------------------------------------
(* Types *)

\* The calls to the core keep the types of its TUN.
LEMMA CallKeepsTunTypes ==
  ASSUME TunTypeOK, NEW s \in {0, 1}, NEW n \in {0, 1}, Call(s, n)
  PROVE  TunTypeOK'
  BY DEF TunTypeOK, Call, Calls

\* So do its goroutines.
LEMMA TunStepTypes == ASSUME TunTypeOK, TunStep PROVE TunTypeOK'
  <1>1. stops' \in Nat /\ starting' \in Nat /\ opening' \in Nat
    <2> stops \in Nat /\ starting \in Nat /\ opening \in Nat
      BY DEF TunTypeOK
    <2> QED BY DEF TunStep, RunStop, StartClear, StartOpen
  <1>2. runTime' \in BOOLEAN
    BY DEF TunStep, RunStop, StartClear, StartOpen
  <1> QED BY <1>1, <1>2 DEF TunTypeOK

\* The three handlers that start and stop the VPN keep the types of what they
\* write.
Written ==
  /\ TunTypeOK /\ {desired, tunActive, job, started, command} \subseteq BOOLEAN
  /\ runState \in RunStates /\ health \in Health /\ bound \in {"no", "pending", "yes"}
  /\ failures \in 0..FailureLimit /\ stage \in 0..2 /\ beat \in Beats

LEMMA UncancelledIsBeat == ASSUME beat \in Beats PROVE Uncancelled \in Beats
  BY DEF Uncancelled, NoBeat, Beats

LEMMA StartServiceTypes ==
  ASSUME Written, NEW ok \in BOOLEAN, StartService(ok), started' \in BOOLEAN,
         command' \in BOOLEAN, bound' \in {"no", "pending", "yes"}
  PROVE  Written'
  <1>1. CASE /\ runState = "START"
             /\ UNCHANGED <<desired, runState, health, tunActive, beatVars, tunVars>>
    BY <1>1 DEF Written, beatVars, tunVars, TunTypeOK
  <1>2. CASE /\ runState # "START" /\ ok
             /\ desired' = TRUE /\ tunActive' = TRUE
             /\ runState' = "START" /\ health' = "connected"
             /\ Call(0, 1)
             /\ job' = (engine # "none") /\ failures' = 0 /\ stage' = 0 /\ beat' = Uncancelled
    <2>1. TunTypeOK'
      BY <1>2, CallKeepsTunTypes DEF Written
    <2> QED BY <1>2, <2>1, UncancelledIsBeat, FailureLimitAssumption
            DEF Written, RunStates, Health
  <1>3. CASE /\ runState # "START"
             /\ desired' = FALSE
             /\ runState' = "STOP" /\ health' = "disconnected"
             /\ UNCHANGED <<tunActive, beatVars, tunVars>>
    BY <1>3 DEF Written, beatVars, tunVars, TunTypeOK, RunStates, Health
  <1> QED BY <1>1, <1>2, <1>3 DEF StartService

LEMMA VpnStartTypes ==
  ASSUME Written, NEW ok \in BOOLEAN, VpnStart(ok)
  PROVE  Written'
  <1>1. CASE service /\ StartService(ok) /\ UNCHANGED <<started, command, bound>>
    BY <1>1, StartServiceTypes DEF Written
  <1>2. CASE /\ started' \in {started, TRUE} /\ command' \in {command, TRUE}
             /\ bound' \in {bound, "pending"}
             /\ UNCHANGED <<desired, runState, health, tunActive, beatVars, tunVars>>
    BY <1>2 DEF Written, beatVars, tunVars, TunTypeOK
  <1> QED BY <1>1, <1>2 DEF VpnStart

LEMMA StopHeartbeatJobTypes ==
  ASSUME Written, StopHeartbeatJob
  PROVE  job' \in BOOLEAN /\ failures' \in 0..FailureLimit /\ stage' \in 0..2 /\ beat' \in Beats
  BY UncancelledIsBeat DEF Written, StopHeartbeatJob

LEMMA VpnStopTypes ==
  ASSUME Written, NEW next \in Engines, VpnStop(next), UNCHANGED command
  PROVE  Written' /\ engine' \in Engines
  <1>1. CASE runState = "STOP"
    BY <1>1 DEF VpnStop, Written, beatVars, tunVars, TunTypeOK, Health, Engines
  <1>2. CASE runState # "STOP"
    <2>1. TunTypeOK'
      BY <1>2, CallKeepsTunTypes DEF Written, VpnStop
    <2>2. bound' \in {"no", "pending", "yes"}
      BY <1>2 DEF Written, VpnStop, Unbound
    <2>3. started' \in BOOLEAN /\ tunActive' \in BOOLEAN /\ desired' \in BOOLEAN
      BY <1>2 DEF Written, VpnStop
    <2> QED BY <1>2, <2>1, <2>2, <2>3, StopHeartbeatJobTypes
            DEF Written, VpnStop, RunStates, Health, Engines
  <1> QED BY <1>1, <1>2

\* TypeOK is what those handlers write, and the rest.
Others ==
  /\ {permission, alwaysOn, exists, sticky, service, restart, posted, activity, off}
       \subseteq BOOLEAN
  /\ sync \in {"none", "launched", "polling", "beating"} \cup Health
  /\ tileStop \in {"no", "asked", "exit"}
  /\ appInit \in {"no", "destroy", "init"} /\ engine \in Engines
  /\ events \in 0..MaxEvents

LEMMA TypeParts == TypeOK <=> Written /\ Others
  BY DEF TypeOK, Written, Others

LEMMA ProcessGoneTypes ==
  ASSUME NEW st \in BOOLEAN, ProcessGone(st), desired' \in BOOLEAN
  PROVE  Written'
  <1>1. NoBeat \in Beats
    BY DEF NoBeat, Beats
  <1>2. TunTypeOK'
    BY DEF ProcessGone, TunTypeOK
  <1>3. 0 \in 0..FailureLimit /\ 0 \in 0..2
    BY FailureLimitAssumption
  <1>4. {desired', tunActive', job', started', command'} \subseteq BOOLEAN
    BY DEF ProcessGone
  <1> QED BY <1>1, <1>2, <1>3, <1>4 DEF ProcessGone, Written, RunStates, Health

\* What the user and the system do.
LEMMA UserTypes == ASSUME Written, Others, UserOrSystem PROVE Written' /\ Others'
  <1>0. ASSUME Event PROVE events' \in 0..MaxEvents
    BY <1>0, BoundsAssumption DEF Event, Others
  <1>1. CASE OpenApp \/ CloseApp \/ TileListens
    <2>1. Launched \in {"none", "launched", "polling", "beating"} \cup Health
      BY DEF Launched, Others
    <2> QED BY <1>0, <1>1, <2>1
            DEF OpenApp, CloseApp, TileListens, Written, Others, tunVars, osVars, stateVars,
                beatVars, msgVars, appVars, TunTypeOK
  <1>2. CASE TileClick
    <2>1. Written'
      BY <1>2 DEF TileClick, Written, tunVars, osVars, beatVars, TunTypeOK, RunStates
    <2>2. Others'
      <3>1. tileStop' \in {"no", "asked", "exit"}
        BY <1>2 DEF TileClick, Others
      <3> QED BY <1>0, <1>2, <3>1 DEF TileClick, Others, osVars, InitiatedEngine, Engines
    <2> QED BY <2>1, <2>2
  <1>3. CASE UserStop
    <2>1. Written' /\ engine' \in Engines
      BY <1>3, VpnStopTypes DEF UserStop, Others
    <2>2. Others'
      BY <1>0, <1>3, <2>1 DEF UserStop, Others, msgVars, Stopped
    <2> QED BY <2>1, <2>2
  <1>4. CASE AlwaysOn \/ AlwaysOff
    BY <1>0, <1>4
       DEF AlwaysOn, AlwaysOff, Written, Others, tunVars, stateVars, beatVars, msgVars, appVars,
           TunTypeOK
  <1>5. ASSUME NEW granted \in BOOLEAN, UserStart(granted) PROVE Written' /\ Others'
    <2>1. permission' \in BOOLEAN
      BY <1>5 DEF UserStart, Others
    <2>2. Written'
      BY <1>5, <2>1, VpnStartTypes DEF UserStart
    <2>3. Others'
      BY <1>0, <1>5, <2>1 DEF UserStart, Others, msgVars, appVars
    <2> QED BY <2>2, <2>3
  <1>6. CASE Revoke
    <2>1. TunTypeOK'
      BY <1>6, CallKeepsTunTypes DEF Revoke, Written, tunVars, TunTypeOK
    <2>2. Written'
      BY <1>6, <2>1 DEF Revoke, Written, beatVars
    <2>3. Others'
      BY <1>0, <1>6 DEF Revoke, Others, appVars
    <2> QED BY <2>2, <2>3
  <1>7. CASE ProcessDeath
    <2>1. Written'
      BY <1>7, ProcessGoneTypes DEF ProcessDeath, Written
    <2>2. Others'
      BY <1>0, <1>7 DEF ProcessDeath, ProcessGone, Others, Written, Engines
    <2> QED BY <2>1, <2>2
  <1> QED BY <1>1, <1>2, <1>3, <1>4, <1>5, <1>6, <1>7 DEF UserOrSystem

\* What the handlers of the service do.
LEMMA HandlerTypes == ASSUME Written, Others, Handlers PROVE Written' /\ Others'
  <1>1. CASE AppDestroy
    <2>1. bound' \in {"no", "pending", "yes"}
      BY <1>1 DEF AppDestroy, DestroyEngine, Unbound, Written
    <2>2. job' \in BOOLEAN /\ failures' \in 0..FailureLimit /\ stage' \in 0..2 /\ beat' \in Beats
      BY <1>1, StopHeartbeatJobTypes DEF AppDestroy, DestroyEngine, beatVars, Written
    <2>3. Written'
      BY <1>1, <2>1, <2>2 DEF AppDestroy, Written, tunVars, osVars, TunTypeOK
    <2>4. Others'
      BY <1>1 DEF AppDestroy, DestroyEngine, Others, osVars, Engines
    <2> QED BY <2>3, <2>4
  <1>2. CASE AppInit
    <2>1. Written'
      BY <1>2 DEF AppInit, Written, tunVars, osVars, stateVars, beatVars, TunTypeOK
    <2>2. Others'
      BY <1>2 DEF AppInit, InitiatedEngine, Others, osVars, stateVars, msgVars, Engines
    <2> QED BY <2>1, <2>2
  <1>3. CASE TileStop
    <2>1. Written' /\ engine' \in Engines
      BY <1>3, VpnStopTypes DEF TileStop, Others
    <2>2. Others'
      BY <1>3, <2>1 DEF TileStop, Others, Stopped
    <2> QED BY <2>1, <2>2
  <1>3a. CASE TileExit
    <2>1. Written'
      BY <1>3a, ProcessGoneTypes DEF TileExit, Written
    <2>2. Others'
      BY <1>3a DEF TileExit, ProcessGone, Others, Written, Engines
    <2> QED BY <2>1, <2>2
  <1>3b. CASE StartCommand
    <2>1. Written'
      BY <1>3b DEF StartCommand, Written, tunVars, stateVars, beatVars, TunTypeOK
    <2>2. Others'
      BY <1>3b DEF StartCommand, InitiatedEngine, Others, stateVars, msgVars, Engines
    <2> QED BY <2>1, <2>2
  <1>4. CASE StickyRestart
    <2>1. Written'
      BY <1>4 DEF StickyRestart, Written, tunVars, stateVars, beatVars, TunTypeOK
    <2>2. Others'
      BY <1>4 DEF StickyRestart, InitiatedEngine, Restarting, Others, Written, stateVars, Engines
    <2> QED BY <2>1, <2>2
  <1>5. CASE PostedStop
    <2>1. Written'
      BY <1>5 DEF PostedStop, Written, tunVars, osVars, beatVars, TunTypeOK, RunStates
    <2>2. Others'
      BY <1>5 DEF PostedStop, Others, osVars, appVars
    <2> QED BY <2>1, <2>2
  <1>6. CASE ServiceDestroyed
    <2>1. TunTypeOK'
      BY <1>6, CallKeepsTunTypes DEF ServiceDestroyed, Written
    <2>2. Written'
      BY <1>6, <2>1 DEF ServiceDestroyed, Written, beatVars
    <2>3. Others'
      BY <1>6 DEF ServiceDestroyed, Others, msgVars, appVars
    <2> QED BY <2>2, <2>3
  <1>7. CASE ServiceConnected
    <2>1. Written'
      BY <1>7, StartServiceTypes DEF ServiceConnected, Written, Others
    <2>2. Others'
      BY <1>7 DEF ServiceConnected, Others, msgVars, appVars
    <2> QED BY <2>1, <2>2
  <1>8. CASE QuickStart
    <2>1. Written' /\ engine' \in Engines
      <3>1. CASE VpnStop("ready") /\ UNCHANGED command
        BY <3>1, VpnStopTypes DEF Engines
      <3>2. CASE VpnStart(permission) /\ engine' = "ready"
        BY <3>2, VpnStartTypes DEF Others, Engines
      <3>3. CASE /\ engine' = "failed"
                 /\ UNCHANGED <<desired, started, command, runState, health, bound, tunActive,
                                beatVars, tunVars>>
        BY <3>3 DEF Written, beatVars, tunVars, TunTypeOK, Engines
      <3> QED BY <1>8, <3>1, <3>2, <3>3 DEF QuickStart
    <2>2. Others'
      BY <1>8, <2>1 DEF QuickStart, Others
    <2> QED BY <2>1, <2>2
  <1>9. CASE RestartEngine
    <2>1. TunTypeOK'
      BY <1>9, CallKeepsTunTypes DEF RestartEngine, Written, tunVars, TunTypeOK
    <2>2. job' \in BOOLEAN /\ failures' \in 0..FailureLimit /\ stage' \in 0..2 /\ beat' \in Beats
      BY <1>9, StopHeartbeatJobTypes DEF RestartEngine, beatVars, Written
    <2>3. Written'
      BY <1>9, <2>1, <2>2 DEF RestartEngine, Written, Unbound, osVars, RunStates, Health
    <2>4. Others'
      BY <1>9 DEF RestartEngine, Others, osVars, Engines
    <2> QED BY <2>3, <2>4
  <1> QED BY <1>1, <1>2, <1>3, <1>3a, <1>3b, <1>4, <1>5, <1>6, <1>7, <1>8, <1>9 DEF Handlers

\* What heartbeats and status polls do.
LEMMA HeartbeatTypes == ASSUME Written, Others, Heartbeats PROVE Written' /\ Others'
  <1>1. NoBeat \in Beats /\ \A step \in {"rebuilding", "preparing"} : BeatAt(step) \in Beats
    BY DEF NoBeat, BeatAt, Beats, Written
  <1>2. CASE HeartbeatDue
    <2>1. beat' \in Beats
      BY <1>2 DEF HeartbeatDue, BeatBy, Beats, Written, Others
    <2> QED BY <1>2, <2>1
            DEF HeartbeatDue, Written, Others, tunVars, osVars, stateVars, msgVars, appVars,
                TunTypeOK
  <1>3. CASE HeartbeatAnswered
    <2>1. /\ failures' \in 0..FailureLimit /\ stage' \in 0..2
          /\ health' \in Health /\ beat' \in Beats
      <3>1. CASE ControlPlaneFailure
        BY <1>1, <3>1, FailureLimitAssumption DEF ControlPlaneFailure, Written, Health
      <3>2. CASE /\ failures' = 0
                 /\ \/ health' = "connected" /\ stage' = 0 /\ beat' = NoBeat
                    \/ UNCHANGED <<health, stage>> /\ beat' = NoBeat
                    \/ health' = "degraded" /\ beat' = NoBeat /\ UNCHANGED stage
                    \/ DataPlaneFailure
        BY <1>1, <3>2, FailureLimitAssumption DEF DataPlaneFailure, Written, Health
      <3> QED BY <1>3, <3>1, <3>2 DEF HeartbeatAnswered
    <2> QED BY <1>3, <2>1
            DEF HeartbeatAnswered, Written, Others, tunVars, osVars, msgVars, appVars, TunTypeOK
  <1>4. CASE RebuildTun
    <2>1. TunTypeOK'
      BY <1>4, CallKeepsTunTypes DEF RebuildTun, Written
    <2>2. beat' \in Beats /\ stage' \in 0..2 /\ tunActive' \in BOOLEAN /\ runState' \in RunStates
      <3>1. BeatAt("preparing") \in Beats /\ NoBeat \in Beats /\ 2 \in 0..2
        BY <1>1
      <3>2. stage \in 0..2
        BY DEF Written
      <3> QED BY <1>4, <3>1, <3>2 DEF RebuildTun, RunStates
    <2>4. Written'
      BY <1>4, <2>1, <2>2 DEF RebuildTun, Written, osVars
    <2>3. Others'
      BY <1>4 DEF RebuildTun, Others, osVars, msgVars, appVars
    <2> QED BY <2>4, <2>3
  <1>5. CASE RecoveryPrepared
    BY <1>1, <1>5
       DEF RecoveryPrepared, Restarting, Written, Others, tunVars, osVars, stateVars, appVars,
           TunTypeOK
  <1>5a. CASE PollStatus
    BY <1>5a
       DEF PollStatus, Written, Others, tunVars, osVars, stateVars, beatVars, appVars,
           TunTypeOK, Health
  <1>5b. CASE PollHeartbeat
    <2>1. beat' \in Beats
      BY <1>5b DEF PollHeartbeat, BeatBy, Beats, Written, Others
    <2> QED BY <1>5b, <2>1
            DEF PollHeartbeat, Written, Others, tunVars, osVars, stateVars, appVars, TunTypeOK
  <1>6. CASE ReadHealth
    BY <1>6
       DEF ReadHealth, Written, Others, tunVars, osVars, stateVars, beatVars, appVars,
           TunTypeOK, Health
  <1>7. CASE WriteState
    <2>1. runState' \in RunStates
      BY <1>7 DEF WriteState, Written, RunStates
    <2> QED BY <1>7, <2>1
            DEF WriteState, Written, Others, tunVars, osVars, beatVars, appVars, TunTypeOK
  <1> QED BY <1>2, <1>3, <1>4, <1>5, <1>5a, <1>5b, <1>6, <1>7 DEF Heartbeats

\* Every variable has its type, for any limit and bounds: a recovery of the data
\* plane never goes beyond its last stage (VpnPlugin.recoverDataPlane).
THEOREM TypeCorrect == Spec => []TypeOK
  <1>1. Init => Written /\ Others
    <2>1. NoBeat \in Beats /\ 0 \in 0..FailureLimit /\ 0 \in 0..2 /\ 0 \in 0..MaxEvents
      BY FailureLimitAssumption, BoundsAssumption DEF NoBeat, Beats
    <2>2. Init => Written
      <3>1. Init => TunTypeOK
        <4>1. Init => stops \in Nat /\ starting \in Nat /\ opening \in Nat
          BY DEF Init, TunInit
        <4>2. Init => runTime \in BOOLEAN
          BY DEF Init, TunInit
        <4> QED BY <4>1, <4>2 DEF TunTypeOK
      <3>2. Init => {desired, tunActive, job, started, command} \subseteq BOOLEAN
        BY DEF Init
      <3> QED BY <2>1, <3>1, <3>2 DEF Init, Written, RunStates, Health
    <2>3. Init => Others
      BY <2>1 DEF Init, Others, Engines
    <2> QED BY <2>2, <2>3
  <1>2. Written /\ Others /\ [Next]_vars => (Written /\ Others)'
    <2> SUFFICES ASSUME Written, Others, [Next]_vars PROVE Written' /\ Others'
      OBVIOUS
    <2>1. CASE UNCHANGED vars
      BY <2>1 DEF vars, Written, Others, tunVars, osVars, stateVars, beatVars, msgVars, appVars,
                  TunTypeOK
    <2>2. CASE Tun
      <3>1. TunTypeOK'
        BY <2>2, TunStepTypes DEF Tun, Written
      <3> QED BY <2>2, <3>1
              DEF Tun, Written, Others, osVars, stateVars, beatVars, msgVars, appVars
    <2> QED BY <2>1, <2>2, UserTypes, HandlerTypes, HeartbeatTypes DEF Next
  <1> QED BY <1>1, <1>2, TypeParts, PTL DEF Spec

-----------------------------------------------------------------------------
(* A stop holds *)

\* Off, nothing is left that starts the VPN: no intent on disk, no started
\* service to recreate and no start of it on its way, no quick start, no
\* binding, no restart, no rebuild.
NothingLeft ==
  /\ ~desired /\ ~started /\ ~command /\ ~sticky /\ ~tunActive /\ ~restart
  /\ engine # "quick" /\ bound # "pending" /\ beat.at # "rebuilding"

StopInv ==
  /\ off => NothingLeft
  /\ appInit # "no" => activity

\* A stop leaves nothing of the VPN, unless one of these was under way.
LEMMA StopLeavesNothing ==
  ASSUME VpnStop(engine), engine # "quick", bound # "pending", ~sticky, ~restart, ~command,
         beat.at # "rebuilding" \/ (runState # "STOP" /\ beat.owner = "job"),
         (runState # "STOP" /\ service) \/ (~started /\ ~tunActive),
         UNCHANGED <<sticky, restart, command>>
  PROVE  NothingLeft'
  <1>1. ~desired' /\ ~sticky' /\ ~restart' /\ ~command'
    BY DEF VpnStop
  <1>2. engine' # "quick" /\ bound' # "pending"
    BY DEF VpnStop, Unbound
  <1>3. ~started' /\ ~tunActive'
    <2>1. CASE runState = "STOP"
      BY <2>1 DEF VpnStop
    <2>2. CASE runState # "STOP"
      BY <2>2 DEF VpnStop
    <2> QED BY <2>1, <2>2
  <1>4. beat'.at # "rebuilding"
    BY DEF VpnStop, beatVars, StopHeartbeatJob, Uncancelled, NoBeat
  <1> QED BY <1>1, <1>2, <1>3, <1>4 DEF NothingLeft

LEMMA OffHolds ==
  ASSUME beat \in Beats, off, NothingLeft, appInit # "no" => activity, Next, off'
  PROVE  NothingLeft'
  <1> USE DEF NothingLeft
  <1>1. CASE UserOrSystem
    <2>1. CASE UserStop
      BY <2>1, StopLeavesNothing DEF UserStop, msgVars
    <2>2. CASE OpenApp \/ CloseApp \/ TileListens
      BY <2>2 DEF OpenApp, CloseApp, TileListens, osVars, stateVars, beatVars, msgVars, appVars
    <2>3. CASE TileClick
      BY <2>3 DEF TileClick, osVars, beatVars
    <2>4. CASE Revoke
      BY <2>4 DEF Revoke, beatVars, appVars
    <2>5. CASE ProcessDeath
      BY <2>5 DEF ProcessDeath, ProcessGone, NoBeat
    <2>6. CASE AlwaysOff
      BY <2>6 DEF AlwaysOff, stateVars, beatVars, msgVars, appVars
    <2>7. ASSUME NEW granted \in BOOLEAN, UserStart(granted) PROVE FALSE
      BY <2>7 DEF UserStart
    <2>8. ~AlwaysOn
      BY DEF AlwaysOn
    <2> QED BY <1>1, <2>1, <2>2, <2>3, <2>4, <2>5, <2>6, <2>7, <2>8 DEF UserOrSystem
  <1>2. CASE Handlers
    <2>1. CASE AppDestroy
      BY <2>1 DEF AppDestroy, DestroyEngine, StopHeartbeatJob, Uncancelled, Unbound, NoBeat,
                  osVars, beatVars
    <2>2. CASE AppInit
      BY <2>2 DEF AppInit, InitiatedEngine, osVars, stateVars, beatVars, msgVars
    <2>3. CASE TileStop
      BY <2>3, StopLeavesNothing DEF TileStop
    <2>4. CASE PostedStop
      BY <2>4 DEF PostedStop, osVars, beatVars, appVars
    <2>5. CASE ServiceDestroyed
      BY <2>5 DEF ServiceDestroyed, beatVars, msgVars, appVars
    <2>6. CASE TileExit
      BY <2>6 DEF TileExit, ProcessGone, NoBeat
    <2>7. ~StickyRestart /\ ~StartCommand /\ ~ServiceConnected /\ ~QuickStart /\ ~RestartEngine
      BY DEF StickyRestart, StartCommand, ServiceConnected, QuickStart, RestartEngine
    <2> QED BY <1>2, <2>1, <2>2, <2>3, <2>4, <2>5, <2>6, <2>7 DEF Handlers
  <1>3. CASE Heartbeats
    <2>1. CASE HeartbeatDue
      BY <2>1 DEF HeartbeatDue, BeatBy, osVars, stateVars, msgVars, appVars
    <2>2. CASE HeartbeatAnswered
      <3>1. BeatAt("preparing").at # "rebuilding" /\ NoBeat.at # "rebuilding"
        BY DEF BeatAt, NoBeat, Beats
      <3>2. beat' \in {BeatAt("preparing"), NoBeat}
        BY <2>2 DEF HeartbeatAnswered, ControlPlaneFailure, DataPlaneFailure
      <3> QED BY <2>2, <3>1, <3>2 DEF HeartbeatAnswered, osVars, msgVars, appVars
    <2>3. CASE RecoveryPrepared
      BY <2>3 DEF RecoveryPrepared, Restarting, NoBeat, osVars, stateVars, appVars
    <2>4. CASE PollStatus \/ ReadHealth \/ WriteState
      BY <2>4 DEF PollStatus, ReadHealth, WriteState, osVars, stateVars, beatVars, appVars
    <2>5. CASE PollHeartbeat
      BY <2>5 DEF PollHeartbeat, BeatBy, osVars, stateVars, appVars
    <2>6. ~RebuildTun
      BY DEF RebuildTun
    <2> QED BY <1>3, <2>1, <2>2, <2>3, <2>4, <2>5, <2>6 DEF Heartbeats
  <1>4. CASE Tun
    BY <1>4 DEF Tun, osVars, stateVars, beatVars, msgVars, appVars
  <1> QED BY <1>1, <1>2, <1>3, <1>4 DEF Next

\* Only a stop of a VPN that is on begins it, with no start under way, and it
\* leaves nothing behind.
LEMMA OffBegins == ASSUME beat \in Beats, ~off, Next, off' PROVE NothingLeft'
  <1>1. /\ VpnStop(engine) /\ UNCHANGED <<sticky, restart, command>>
        /\ ShownOn /\ ~StartUnderWay
    <2>1. UserStop \/ TileStop
      BY DEF Next, UserOrSystem, OpenApp, CloseApp, UserStart, TileClick, Revoke, TileListens,
             AlwaysOn, AlwaysOff, ProcessDeath, Handlers, AppDestroy, AppInit, TileExit,
             StickyRestart, PostedStop, ServiceDestroyed, StartCommand, ServiceConnected,
             QuickStart, RestartEngine, Heartbeats, HeartbeatDue, HeartbeatAnswered, RebuildTun,
             RecoveryPrepared, PollStatus, PollHeartbeat, ReadHealth, WriteState, Tun
    <2> QED BY <2>1 DEF UserStop, TileStop, Stopped, msgVars
  <1>2. beat.owner \in {"job", "status"}
    BY DEF Beats
  <1> QED BY <1>1, <1>2, StopLeavesNothing DEF ShownOn, StartUnderWay

LEMMA AppInitNeedsApp ==
  ASSUME appInit # "no" => activity, Next PROVE (appInit # "no" => activity)'
  BY DEF Next, UserOrSystem, OpenApp, CloseApp, UserStart, TileClick, UserStop, Revoke,
         TileListens, AlwaysOn, AlwaysOff, ProcessDeath, ProcessGone, Handlers, AppDestroy,
         AppInit, TileStop, TileExit, StickyRestart, PostedStop, ServiceDestroyed, StartCommand,
         ServiceConnected, QuickStart, RestartEngine, Heartbeats, HeartbeatDue,
         HeartbeatAnswered, RebuildTun, RecoveryPrepared, PollStatus, PollHeartbeat, ReadHealth,
         WriteState, Tun, appVars, msgVars

\* A VPN the user stopped stays off until it is started again or made always on:
\* neither a heartbeat or poll that was under way, nor the recreation of the
\* service after the process died, nor the tile, nor an app that opens brings it
\* back (VpnPlugin.handleStop, GlobalState.handleStop, VpnRecoveryStore); only
\* what StartUnderWay names, which had passed its last look at the intent when
\* the stop came, may.
THEOREM StoppedStaysOff == Spec => []StopHolds
  <1>1. Init => StopInv
    BY DEF Init, StopInv
  <1>2. TypeOK /\ StopInv /\ [Next]_vars => StopInv'
    <2> SUFFICES ASSUME TypeOK, StopInv, [Next]_vars PROVE StopInv'
      OBVIOUS
    <2>1. CASE UNCHANGED vars
      BY <2>1 DEF vars, StopInv, NothingLeft, osVars, stateVars, beatVars, msgVars, appVars
    <2>2. CASE Next
      BY <2>2, OffHolds, OffBegins, AppInitNeedsApp, TypeParts DEF StopInv, Written
    <2> QED BY <2>1, <2>2
  <1>3. StopInv => StopHolds
    BY DEF StopInv, NothingLeft, StopHolds
  <1> QED BY <1>1, <1>2, <1>3, TypeCorrect, PTL DEF Spec

=============================================================================
