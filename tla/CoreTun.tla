------------------------------- MODULE CoreTun -------------------------------
(***************************************************************************)
(* The TUN of the proxy core on Android (core/lib_android.go).  The calls  *)
(* startTUN and stopTun only spawn a goroutine each; the goroutines take   *)
(* tunLock when they are scheduled, in any order, and a start takes it     *)
(* twice: once to close what is open, once to open the new TUN.            *)
(*                                                                         *)
(* What the others can see of it is runTime, set by the second half of a   *)
(* start whether or not the listener came up.                              *)
(***************************************************************************)
EXTENDS Naturals

VARIABLES
  stops,      \* goroutines of stopTun that have not taken the lock yet
  starting,   \* goroutines of startTUN before their handleStopTun
  opening,    \* goroutines of startTUN between their two locked sections
  runTime     \* runTime # nil

tunVars == <<stops, starting, opening, runTime>>

TunTypeOK ==
  /\ stops \in Nat /\ starting \in Nat /\ opening \in Nat
  /\ runTime \in BOOLEAN

TunInit == stops = 0 /\ starting = 0 /\ opening = 0 /\ runTime = FALSE

(***************************************************************************)
(* The exported calls: s calls of stopTun and n of startTUN made by one    *)
(* handler of the service.                                                 *)
(***************************************************************************)
Calls(s, n) ==
  /\ stops' = stops + s
  /\ starting' = starting + n
  /\ UNCHANGED <<opening, runTime>>

\* handleStopTun, called by stopTun's goroutine.
RunStop ==
  /\ stops > 0
  /\ stops' = stops - 1
  /\ runTime' = FALSE
  /\ UNCHANGED <<starting, opening>>

\* handleStartTun up to the first release of the lock.
StartClear ==
  /\ starting > 0
  /\ starting' = starting - 1
  /\ opening' = opening + 1
  /\ runTime' = FALSE
  /\ UNCHANGED stops

\* handleStartTun from the second lock on; a listener that another start
\* opened in between is no longer referred to by anything.
StartOpen ==
  /\ opening > 0
  /\ opening' = opening - 1
  /\ runTime' = TRUE
  /\ UNCHANGED <<stops, starting>>

TunStep == RunStop \/ StartClear \/ StartOpen

TunFairness ==
  /\ WF_tunVars(RunStop)
  /\ WF_tunVars(StartClear)
  /\ WF_tunVars(StartOpen)
=============================================================================
