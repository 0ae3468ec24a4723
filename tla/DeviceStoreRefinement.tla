----------------------- MODULE DeviceStoreRefinement ------------------------
(***************************************************************************)
(* The device store implements TokenContract: under the mapping Promise of *)
(* DeviceStore every step is a step of the contract, or changes nothing it *)
(* can see.  A sign-in that is let in is SignIn, a restart is Restart, and *)
(* everything else is End.                                                 *)
(***************************************************************************)
EXTENDS DeviceStoreProofs

Working == {s \in Sessions : UsableNow(s)}
Durable == {s \in Sessions : UsableAfterRestart(s)}

\* The contract's invariant is a consequence of the store's.
LEMMA KeptHolds == IInv => Promise!Kept
  <1> SUFFICES ASSUME IInv
               PROVE  /\ \A s \in granted : s \in Working => s \in Durable
                      /\ \A s \in ended : s \notin Working /\ s \notin Durable
    BY DEF Promise!Kept, Working, Durable
  <1>1. TypeOK /\ MemoryInv /\ DiskInv /\ GrantedOnDisk /\ EndOnRecord
    BY IInvParts
  <1>2. granted \subseteq Sessions /\ ended \subseteq Sessions /\ now \in Nat
    BY <1>1 DEF TypeOK
  <1>3. ASSUME NEW s \in granted, s \in Working PROVE s \in Durable
    <2>1. disk.sessions[s].status = "active" /\ now <= disk.sessions[s].expires
      BY <1>1, <1>3 DEF Working, UsableNow, Usable, GrantedOnDisk
    <2> QED BY <1>1, <1>2, <2>1
            DEF DiskInv, HasOwner, LiveHasSlot, Durable, UsableAfterRestart, Usable
  <1>4. ASSUME NEW s \in ended PROVE s \notin Working /\ s \notin Durable
    <2>1. sessions[s].expires \in Nat /\ disk.sessions[s].expires \in Nat
      BY <1>1, <1>2 DEF TypeOK, Snapshots, SessionRecords
    <2>2. Over(sessions, s) /\ Over(disk.sessions, s)
      BY <1>1 DEF EndOnRecord
    <2> QED BY <1>2, <2>1, <2>2
            DEF Over, Working, Durable, UsableNow, UsableAfterRestart, Usable
  <1> QED BY <1>3, <1>4

\* Time does not go back, and nobody takes back that a session ended.
LEMMA OnlyForward ==
  ASSUME [Next]_vars PROVE now' \in {now, now + 1} /\ ended \subseteq ended'
  BY DEF Next, vars, Login, RejectLogin, AdmitLogin, Authorize, AuthorizeQuietly,
         AuthorizeAndTouch, Expire, SaveExpiry, Request, Finish, UserRevoke,
         RewriteSubscription, Revoke, Maintenance, AdminRevoke, PatchLimit, Cleanup, Tick,
         CrashRestart

\* What a restart would load stays, or becomes what is in memory.
LEMMA DiskFollows ==
  ASSUME [Next]_vars
  PROVE  \/ disk' = disk
         \/ disk' = [users |-> users', devices |-> devices', sessions |-> sessions']
  BY DEF Next, vars, Login, RejectLogin, AdmitLogin, Authorize, AuthorizeQuietly,
         AuthorizeAndTouch, Expire, SaveExpiry, Request, Finish, UserRevoke,
         RewriteSubscription, Revoke, Maintenance, AdminRevoke, PatchLimit, Cleanup, Tick,
         CrashRestart, Persist

\* Nothing becomes durable but what works (saveLocked).
LEMMA SavesOnlyWhatWorks ==
  ASSUME IInv, IInv', [Next]_vars PROVE Durable' \subseteq Durable \cup Working'
  <1> SUFFICES ASSUME NEW s \in Sessions, UsableAfterRestart(s)'
               PROVE  UsableAfterRestart(s) \/ UsableNow(s)'
    BY DEF Durable, Working
  <1>1. CASE disk' = [users |-> users', devices |-> devices', sessions |-> sessions']
    BY <1>1 DEF UsableAfterRestart, UsableNow, Usable, Known
  <1>2. CASE disk' = disk
    <2>1. now \in Nat /\ disk.sessions[s].expires \in Nat
      BY IInvParts DEF TypeOK, Snapshots, SessionRecords
    <2>2. now <= now'
      BY <2>1, OnlyForward
    <2> QED BY <1>2, <2>1, <2>2, OnlyForward DEF UsableAfterRestart, Usable, Known
  <1> QED BY <1>1, <1>2, DiskFollows

\* A session that is created is created by a sign-in.
LEMMA OnlyLoginIssues ==
  ASSUME IInv, [Next]_vars, ~CrashRestart, NEW s \in Sessions,
         sessions[s].status = "unissued", sessions'[s].status = "active"
  PROVE  \E d \in Keys, lim \in SnapshotLimits, o \in SaveOutcomes :
           \E K \in SUBSET ActiveDevices(devices, d[1]) : AdmitLogin(d, lim, s, K, o)
  <1>1. sessions \in [Sessions -> SessionRecords]
    BY IInvParts DEF TypeOK
  <1>2. ASSUME NEW D, sessions'[s] = RevokeSessions(sessions, D)[s] PROVE FALSE
    BY <1>2 DEF RevokeSessions
  <1>3. CASE Login
    <2>1. ~(\E e \in Keys, lim \in SnapshotLimits : RejectLogin(e, lim))
      BY DEF RejectLogin
    <2>2. PICK d \in Keys, lim \in SnapshotLimits, t \in Sessions, o \in SaveOutcomes :
            \E K \in SUBSET ActiveDevices(devices, d[1]) : AdmitLogin(d, lim, t, K, o)
      BY <1>3, <2>1 DEF Login
    <2>3. PICK K \in SUBSET ActiveDevices(devices, d[1]) : AdmitLogin(d, lim, t, K, o)
      BY <2>2
    <2>4. CASE t = s
      BY <2>3, <2>4
    <2>5. CASE t # s
      <3>1. sessions'[s] = RevokeSessions(sessions, K \cup {d})[s]
        BY <2>3, <2>5 DEF AdmitLogin, RevokeSessions
      <3> QED BY <3>1, <1>2
    <2> QED BY <2>4, <2>5
  <1>4. CASE Authorize
    <2>1. ASSUME NEW t \in Sessions, sessions' = [sessions EXCEPT ![t].seen = now]
          PROVE  FALSE
      BY <2>1, <1>1 DEF SessionRecords
    <2>2. ASSUME NEW t \in Sessions, sessions' = [sessions EXCEPT ![t].status = "expired"]
          PROVE  FALSE
      BY <2>2, <1>1 DEF SessionRecords
    <2> QED BY <1>4, <2>1, <2>2
            DEF Authorize, AuthorizeQuietly, AuthorizeAndTouch, Expire, SaveExpiry, memory
  <1>5. ASSUME NEW d \in Keys, NEW o \in SaveOutcomes, Revoke(d, o) PROVE FALSE
    BY <1>5, <1>2 DEF Revoke
  <1>6. CASE Request
    BY <1>6, <1>5 DEF Request, Finish, UserRevoke, RewriteSubscription, memory
  <1>7. ASSUME NEW o \in SaveOutcomes, Cleanup(o) PROVE FALSE
    <2>1. sessions[s].dev \notin Purged
      BY <1>7, <1>1 DEF Cleanup
    <2>2. sessions'[s] = RevokeSessions(sessions, Offline)[s]
      BY <2>1, <1>7 DEF Cleanup
    <2> QED BY <2>2, <1>2
  <1>8. CASE Maintenance
    BY <1>8, <1>5, <1>7 DEF Maintenance, AdminRevoke, PatchLimit
  <1>9. CASE Tick \/ UNCHANGED vars
    BY <1>9 DEF Tick, vars, memory
  <1> QED BY <1>3, <1>4, <1>6, <1>8, <1>9 DEF Next

\* Without a restart, a session that works worked before, or is new.
LEMMA WorkingWanes ==
  ASSUME IInv, [Next]_vars, ~CrashRestart, NEW s \in Sessions, UsableNow(s)',
         sessions[s].status # "unissued"
  PROVE  UsableNow(s)
  <1>1. TypeOK /\ MemoryInv
    BY IInvParts
  <1>2. /\ sessions[s].status = "active"
        /\ now' <= sessions[s].expires
    BY SessionsOnlyWane DEF UsableNow, Usable
  <1>3. now <= sessions[s].expires
    BY <1>1, <1>2, OnlyForward DEF TypeOK, SessionRecords
  <1> QED BY <1>1, <1>2, <1>3 DEF MemoryInv, HasOwner, LiveHasSlot, UsableNow, Usable

LEMMA TypeAndMemory == IInv => TypeOK /\ MemoryInv
  BY IInvParts

\* A sign-in that is let in is the contract's.
LEMMA AdmitIsSignIn ==
  ASSUME IInv, IInv', NEW d \in Keys, NEW lim \in SnapshotLimits, NEW t \in Sessions,
         NEW o \in SaveOutcomes, NEW K \in SUBSET ActiveDevices(devices, d[1]),
         AdmitLogin(d, lim, t, K, o)
  PROVE  Promise!SignIn(t)
  <1>1. [Next]_vars
    BY DEF Next, Login
  <1>2. TypeOK' /\ MemoryInv'
    BY TypeAndMemory, PTL
  <1>3. /\ sessions'[t] = [status |-> "active", dev |-> d, expires |-> now + TTL, seen |-> now]
        /\ now \in Nat
    <2>1. sessions \in [Sessions -> SessionRecords] /\ now \in Nat
      BY IInvParts DEF TypeOK
    <2> QED BY <2>1 DEF AdmitLogin, RevokeSessions
  <1>4. t \in Working'
    <2>1. LiveHasSlot(devices', sessions') /\ HasOwner(users', devices', sessions')
      BY <1>2 DEF MemoryInv
    <2>2. devices'[sessions'[t].dev].status = "active" /\ Known(users', sessions'[t].dev[1])
      BY <1>3, <2>1 DEF LiveHasSlot, HasOwner
    <2>3. now' <= sessions'[t].expires
      <3>1. now' = now
        BY DEF AdmitLogin
      <3> QED BY <3>1, <1>3, StoreAssumption
    <2> QED BY <1>3, <2>2, <2>3 DEF Working, UsableNow, Usable
  <1>5. ASSUME NEW s \in Sessions, s # t, UsableNow(s)' PROVE UsableNow(s)
    <2>1. sessions'[s] = RevokeSessions(sessions, K \cup {d})[s]
      BY <1>5 DEF AdmitLogin, RevokeSessions
    <2>2. sessions'[s].status = "active"
      BY <1>5 DEF UsableNow, Usable
    <2>3. sessions'[s] = sessions[s]
      BY <2>1, <2>2 DEF RevokeSessions
    <2>4. MemoryInv
      BY IInvParts
    <2> QED BY <1>5, <2>2, <2>3, <2>4
            DEF AdmitLogin, UsableNow, Usable, MemoryInv, HasOwner, LiveHasSlot
  <1>6. Working' \subseteq Working \cup {t}
    BY <1>5 DEF Working
  <1>7. t \notin Working \cup granted \cup ended
    BY DEF AdmitLogin, Working, UsableNow, Usable
  <1>8. granted' \in {granted, granted \cup {t}}
    BY DEF AdmitLogin
  <1>9. Promise!Saves
    BY <1>1, SavesOnlyWhatWorks DEF Promise!Saves, Working, Durable
  <1>10. Promise!Kept'
    BY KeptHolds, PTL
  <1> QED BY <1>1, <1>4, <1>6, <1>7, <1>8, <1>9, <1>10, OnlyForward
          DEF Promise!SignIn, Working

\* Every step of the store is one of the contract.
LEMMA StepRefines ==
  ASSUME IInv, IInv', [Next]_vars PROVE [Promise!Next]_(Promise!vars)
  <1>1. CASE CrashRestart
    <2>1. Working' = Durable /\ Durable' = Durable
      BY <1>1 DEF CrashRestart, Working, Durable, UsableNow, UsableAfterRestart, Usable,
                  Known
    <2> QED BY <1>1, <2>1 DEF CrashRestart, Promise!Next, Promise!Restart, Working, Durable
  <1>2. CASE /\ ~CrashRestart
             /\ \E s \in Sessions : sessions[s].status = "unissued" /\ UsableNow(s)'
    <2>1. PICK s \in Sessions : sessions[s].status = "unissued" /\ UsableNow(s)'
      BY <1>2
    <2>2. PICK d \in Keys, lim \in SnapshotLimits, o \in SaveOutcomes :
            \E K \in SUBSET ActiveDevices(devices, d[1]) : AdmitLogin(d, lim, s, K, o)
      BY <1>2, <2>1, OnlyLoginIssues DEF UsableNow, Usable
    <2> QED BY <2>2, AdmitIsSignIn DEF Promise!Next
  <1>3. CASE /\ ~CrashRestart
             /\ \A s \in Sessions : UsableNow(s)' => sessions[s].status # "unissued"
    <2>1. Working' \subseteq Working
      BY <1>3, WorkingWanes DEF Working
    <2>2. CASE \E d \in Keys, lim \in SnapshotLimits, t \in Sessions, o \in SaveOutcomes :
                 \E K \in SUBSET ActiveDevices(devices, d[1]) : AdmitLogin(d, lim, t, K, o)
      BY <2>2, AdmitIsSignIn DEF Promise!Next
    <2>3. CASE ~\E d \in Keys, lim \in SnapshotLimits, t \in Sessions, o \in SaveOutcomes :
                 \E K \in SUBSET ActiveDevices(devices, d[1]) : AdmitLogin(d, lim, t, K, o)
      <3>1. granted' = granted
        BY <1>3, <2>3
           DEF Next, vars, Login, RejectLogin, Authorize, AuthorizeQuietly,
               AuthorizeAndTouch, Expire, SaveExpiry, Request, Finish, UserRevoke,
               RewriteSubscription, Maintenance, AdminRevoke, PatchLimit, Cleanup, Tick
      <3>2. Promise!Saves /\ Promise!Kept'
        BY SavesOnlyWhatWorks, KeptHolds, PTL DEF Promise!Saves, Working, Durable
      <3> QED BY <2>1, <3>1, <3>2, OnlyForward DEF Promise!Next, Promise!End, Working
    <2> QED BY <2>2, <2>3
  <1> QED BY <1>1, <1>2, <1>3

\* The store implements the contract of tokens: whatever the gateway does, fails
\* to save or loses in a crash, tokens do to their holders what was promised
\* (admitDevice, authorizeWithReload, the revocations, cleanupRevokedDevices).
THEOREM Refinement == Spec => KeepsPromise
  <1>1. Init => Promise!Init
    BY DEF Init, Promise!Init, UsableNow, UsableAfterRestart, Usable, NoSession
  <1>2. IInv /\ IInv' /\ [Next]_vars => [Promise!Next]_(Promise!vars)
    BY StepRefines
  <1> QED BY <1>1, <1>2, Invariance, PTL DEF Spec, KeepsPromise, Promise!Spec

=============================================================================
