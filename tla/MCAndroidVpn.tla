---------------------------- MODULE MCAndroidVpn ----------------------------
(***************************************************************************)
(* Small instance of AndroidVpn.  Besides the fresh process it starts from *)
(* two states that take more events to reach than the bound has, so that a *)
(* small bound leaves room for what happens to a running VPN: the VPN on   *)
(* with the app open, and the VPN on with the app closed and the tile just *)
(* clicked.                                                                *)
(***************************************************************************)
EXTENDS AndroidVpn

Running ==
  /\ stops = 0 /\ starting = 0 /\ opening = 0 /\ runTime = TRUE
  /\ desired = TRUE /\ permission = TRUE /\ alwaysOn = FALSE
  /\ started = TRUE /\ command = FALSE /\ exists = TRUE /\ sticky = FALSE
  /\ health = "connected"
  /\ service = TRUE /\ bound = "yes" /\ tunActive = TRUE
  /\ job = TRUE /\ failures = 0 /\ stage = 0 /\ beat = NoBeat
  /\ restart = FALSE /\ sync = "none" /\ posted = FALSE
  /\ appInit = "no" /\ engine = "ready" /\ off = FALSE
  /\ \/ activity = TRUE /\ runState = "START" /\ tileStop = "no" /\ events = 0
     \/ activity = FALSE /\ runState = "PENDING" /\ tileStop = "asked" /\ events = 1

MCSpec == (Init \/ Running) /\ [][Next]_vars /\ Fairness
=============================================================================
