------------------------- MODULE DeviceStoreProofs -------------------------
(***************************************************************************)
(* Proofs that the device store of a gateway keeps its invariants, for any *)
(* number of users, installations and sessions and any limits and delays.  *)
(*                                                                         *)
(* IInv is inductive.  Its memory part (MemoryInv) is preserved by every   *)
(* handler; its disk part follows, because a save either leaves the disk   *)
(* alone or copies the memory (PersistKeepsDisk).  What ties the two       *)
(* together is that outside a sign-in and a restart sessions only wane.    *)
(***************************************************************************)
EXTENDS DeviceStore, FiniteSetTheorems, TLAPS

MemoryTypes ==
  /\ users \in [Users -> UserRecords]
  /\ devices \in [Keys -> DeviceRecords]
  /\ sessions \in [Sessions -> SessionRecords]

MemoryInv ==
  /\ HasOwner(users, devices, sessions)
  /\ LiveHasSlot(devices, sessions)
  /\ OneLivePerSlot(sessions)
  /\ SeenTogether(devices, sessions)

DiskInv ==
  /\ HasOwner(disk.users, disk.devices, disk.sessions)
  /\ LiveHasSlot(disk.devices, disk.sessions)
  /\ OneLivePerSlot(disk.sessions)
  /\ SeenTogether(disk.devices, disk.sessions)

\* No session is created or extended by the step.
SessionsWane ==
  \A s \in Sessions : sessions'[s].status = "active" =>
    /\ sessions[s].status = "active"
    /\ sessions'[s].dev = sessions[s].dev
    /\ sessions'[s].expires = sessions[s].expires

\* IInv, in the parts the proofs treat one by one.
LEMMA IInvParts ==
  IInv <=> /\ TypeOK
           /\ MemoryInv
           /\ DiskInv
           /\ GrantedOnDisk
           /\ EndOnRecord
  BY DEF IInv, StoreConsistent, MemoryInv, DiskInv

----------------------------------------------------------------------------
(* What a save does *)

\* A save leaves the disk as consistent as the memory it may copy.
LEMMA PersistKeepsDisk ==
  ASSUME NEW o \in SaveOutcomes, Persist(o),
         disk \in Snapshots, DiskInv, MemoryTypes', MemoryInv'
  PROVE  disk' \in Snapshots /\ DiskInv'
  <1>1. CASE o = "failed"
    BY <1>1 DEF Persist, DiskInv, HasOwner, LiveHasSlot, OneLivePerSlot,
                SeenTogether, Known
  <1>2. CASE o # "failed"
    <2>1. disk' = [users |-> users', devices |-> devices', sessions |-> sessions']
      BY <1>2 DEF Persist
    <2>2. disk' \in Snapshots
      BY <2>1 DEF Snapshots, MemoryTypes
    <2>3. /\ disk'.users = users'
          /\ disk'.devices = devices'
          /\ disk'.sessions = sessions'
      BY <2>1
    <2>4. DiskInv'
      BY <2>3 DEF DiskInv, MemoryInv
    <2> QED BY <2>2, <2>4
  <1> QED BY <1>1, <1>2

\* A save keeps the granted sessions that are still live on disk.
LEMMA PersistKeepsGrants ==
  ASSUME NEW o \in SaveOutcomes, Persist(o), GrantedOnDisk,
         SessionsWane, granted' = granted, granted \subseteq Sessions
  PROVE  GrantedOnDisk'
  BY DEF Persist, GrantedOnDisk, SessionsWane

\* A save keeps what has ended ended, and lets a saved end be acknowledged.
LEMMA PersistKeepsEnds ==
  ASSUME NEW o \in SaveOutcomes, Persist(o), EndOnRecord,
         SessionsWane, now' = now, ended' \subseteq Sessions,
         \A s \in ended' \ ended : o = "saved" /\ sessions'[s].status # "active"
  PROVE  EndOnRecord'
  <1> SUFFICES ASSUME NEW s \in ended'
               PROVE  Over(sessions, s)' /\ Over(disk.sessions, s)'
    BY DEF EndOnRecord
  <1>1. CASE s \in ended
    BY <1>1 DEF EndOnRecord, Over, SessionsWane, Persist
  <1>2. CASE s \notin ended
    <2>1. o = "saved" /\ sessions'[s].status # "active"
      BY <1>2
    <2>2. disk' = [users |-> users', devices |-> devices', sessions |-> sessions']
      BY <2>1 DEF Persist
    <2> QED BY <2>1, <2>2 DEF Over
  <1> QED BY <1>1, <1>2

----------------------------------------------------------------------------
(* The records the handlers build *)

\* A user that is cached stays cached when a sign-in refreshes the limit.
LEMMA UpsertedType ==
  ASSUME users \in [Users -> UserRecords],
         NEW u \in Users, NEW lim \in SnapshotLimits
  PROVE  /\ Upserted(u, lim) \in [Users -> UserRecords]
         /\ Known(Upserted(u, lim), u)
         /\ \A v \in Users : Known(users, v) => Known(Upserted(u, lim), v)
  <1>1. lim \in Int \cup {None}
    BY StoreAssumption DEF SnapshotLimits
  <1>2. UpsertedLimit(u, lim) \in Int
    BY <1>1, StoreAssumption DEF UpsertedLimit, UserRecords
  <1> QED BY <1>2, StoreAssumption DEF Upserted, UserRecords, Known

\* revokeDeviceLocked and revokeDeviceSessionsLocked keep the types of the
\* records.
LEMMA RevokeTypes ==
  ASSUME devices \in [Keys -> DeviceRecords],
         sessions \in [Sessions -> SessionRecords], now \in Nat, NEW D
  PROVE  /\ RevokeDevices(devices, D) \in [Keys -> DeviceRecords]
         /\ RevokeSessions(sessions, D) \in [Sessions -> SessionRecords]
  BY DEF RevokeDevices, RevokeSessions, DeviceRecords, SessionRecords

----------------------------------------------------------------------------
(* Steps *)

\* Every step that saves and creates no session keeps the invariant when its
\* memory part does.
LEMMA SavingStep ==
  ASSUME IInv, NEW o \in SaveOutcomes, Persist(o),
         MemoryTypes', MemoryInv', SessionsWane,
         now' = now, granted' = granted,
         owed' \in SUBSET Sessions, open' \in SUBSET Sessions,
         ended' \in SUBSET Sessions,
         \A s \in ended' \ ended : o = "saved" /\ sessions'[s].status # "active"
  PROVE  IInv'
  <1>1. TypeOK /\ DiskInv /\ GrantedOnDisk /\ EndOnRecord
    BY IInvParts
  <1>2. disk \in Snapshots /\ granted \subseteq Sessions
    BY <1>1 DEF TypeOK
  <1>3. disk' \in Snapshots /\ DiskInv'
    BY <1>1, <1>2, PersistKeepsDisk
  <1>4. GrantedOnDisk'
    BY <1>1, <1>2, PersistKeepsGrants
  <1>5. EndOnRecord'
    BY <1>1, <1>2, PersistKeepsEnds
  <1>6. TypeOK'
    BY <1>1, <1>2, <1>3 DEF TypeOK, MemoryTypes
  <1>7. (TypeOK /\ MemoryInv /\ DiskInv /\ GrantedOnDisk /\ EndOnRecord)'
    BY <1>3, <1>4, <1>5, <1>6
  <1> QED BY <1>7, IInvParts, PTL

\* An empty store satisfies the invariant (LoadStore on an empty database).
LEMMA InitIInv == Init => IInv
  <1> SUFFICES ASSUME Init PROVE IInv
    OBVIOUS
  <1>1. /\ users \in [Users -> UserRecords]
        /\ devices \in [Keys -> DeviceRecords]
        /\ sessions \in [Sessions -> SessionRecords]
    BY StoreAssumption
    DEF Init, NoDevice, NoSession, UserRecords, DeviceRecords, SessionRecords
  <1>2. TypeOK
    BY <1>1 DEF Init, TypeOK, Snapshots
  <1>3. /\ \A s \in Sessions : sessions[s].status = "unissued"
        /\ \A s \in Sessions : disk.sessions[s].status = "unissued"
        /\ granted = {} /\ ended = {}
    BY DEF Init, NoSession
  <1>4. MemoryInv /\ DiskInv /\ GrantedOnDisk /\ EndOnRecord
    BY <1>3 DEF MemoryInv, DiskInv, HasOwner, LiveHasSlot, OneLivePerSlot,
                SeenTogether, GrantedOnDisk, EndOnRecord
  <1> QED BY <1>2, <1>4, IInvParts

\* The memory after devices D have lost their slots.
LEMMA RevokeKeepsMemory ==
  ASSUME IInv, NEW D, users' = users,
         devices' = RevokeDevices(devices, D),
         sessions' = RevokeSessions(sessions, D),
         \A d \in D : devices[d].status # "absent"
  PROVE  MemoryTypes' /\ MemoryInv' /\ SessionsWane
  <1>1. TypeOK /\ MemoryInv
    BY IInvParts
  <1>2. MemoryTypes'
    BY <1>1, RevokeTypes DEF TypeOK, MemoryTypes
  <1>3. \A s \in Sessions :
          /\ sessions'[s].dev = sessions[s].dev
          /\ sessions'[s].seen = sessions[s].seen
          /\ sessions[s].dev \in D => sessions'[s].status # "active"
          /\ \/ sessions'[s].status = sessions[s].status
             \/ sessions[s].status = "active" /\ sessions'[s].status = "revoked"
          /\ sessions'[s].status = "active" =>
               sessions'[s].expires = sessions[s].expires
    BY <1>1 DEF RevokeSessions, TypeOK, SessionRecords
  <1>4. \A d \in Keys :
          /\ devices'[d].status = "absent" => devices[d].status = "absent"
          /\ devices'[d].seen = devices[d].seen
          /\ d \notin D => devices'[d] = devices[d]
    BY <1>1 DEF RevokeDevices, TypeOK, DeviceRecords
  <1>5. SessionsWane
    BY <1>3 DEF SessionsWane
  <1>6. HasOwner(users', devices', sessions')
    BY <1>1, <1>3, <1>4 DEF MemoryInv, HasOwner, Known
  <1>7. LiveHasSlot(devices', sessions') /\ SeenTogether(devices', sessions')
    BY <1>1, <1>3, <1>4 DEF MemoryInv, LiveHasSlot, SeenTogether, HasOwner
  <1>8. OneLivePerSlot(sessions')
    BY <1>1, <1>3 DEF MemoryInv, OneLivePerSlot
  <1> QED BY <1>2, <1>5, <1>6, <1>7, <1>8 DEF MemoryInv

\* A sign-in that is let in.
LEMMA AdmitKeepsInv ==
  ASSUME IInv, NEW d \in Keys, NEW lim \in SnapshotLimits, NEW s \in Sessions,
         NEW o \in SaveOutcomes, NEW K \in SUBSET ActiveDevices(devices, d[1]),
         AdmitLogin(d, lim, s, K, o)
  PROVE  IInv'
  <1> DEFINE New == [status |-> "active", dev |-> d,
                     expires |-> now + TTL, seen |-> now]
             Slot == [status |-> "active", seen |-> now, revokedAt |-> 0]
             E == SessionsOf(K \cup {d})
  <1>1. TypeOK /\ MemoryInv /\ DiskInv /\ GrantedOnDisk /\ EndOnRecord
    BY IInvParts
  <1>2. /\ sessions[s].status = "unissued" /\ s \notin granted /\ s \notin ended
        /\ users' = Upserted(d[1], lim)
        /\ devices' = [RevokeDevices(devices, K) EXCEPT ![d] = Slot]
        /\ sessions' = [RevokeSessions(sessions, K \cup {d}) EXCEPT ![s] = New]
        /\ Persist(o)
        /\ granted' = IF o = "saved" THEN granted \cup {s} ELSE granted
        /\ ended' = IF o = "saved" THEN ended \cup E ELSE ended
        /\ now' = now /\ owed' = owed /\ open' = open
    BY DEF AdmitLogin
  <1>3. d[1] \in Users
    BY DEF Keys
  <1>4. /\ users' \in [Users -> UserRecords]
        /\ Known(users', d[1])
        /\ \A v \in Users : Known(users, v) => Known(users', v)
    BY <1>1, <1>2, <1>3, UpsertedType DEF TypeOK
  <1>5. /\ devices' \in [Keys -> DeviceRecords]
        /\ sessions' \in [Sessions -> SessionRecords]
    <2>1. New \in SessionRecords /\ Slot \in DeviceRecords
      BY <1>1, StoreAssumption DEF TypeOK, SessionRecords, DeviceRecords
    <2> QED BY <2>1, <1>1, <1>2, RevokeTypes DEF TypeOK
  <1>6. \A e \in Keys :
          /\ devices'[e].status = "absent" => devices[e].status = "absent"
          /\ e # d => devices'[e].seen = devices[e].seen
          /\ e # d /\ e \notin K => devices'[e] = devices[e]
    BY <1>1, <1>2 DEF RevokeDevices, TypeOK, DeviceRecords
  <1>7. devices'[d] = Slot
    BY <1>1, <1>2 DEF RevokeDevices
  <1>8. \A t \in Sessions \ {s} :
          /\ sessions'[t].dev = sessions[t].dev
          /\ sessions'[t].seen = sessions[t].seen
          /\ sessions[t].dev \in K \cup {d} => sessions'[t].status # "active"
          /\ \/ sessions'[t].status = sessions[t].status
             \/ sessions[t].status = "active" /\ sessions'[t].status = "revoked"
          /\ sessions'[t].status = "active" =>
               sessions'[t].expires = sessions[t].expires
    BY <1>1, <1>2 DEF RevokeSessions, TypeOK, SessionRecords
  <1>9. sessions'[s] = New
    BY <1>1, <1>2 DEF RevokeSessions
  <1>10. MemoryInv'
    <2>1. HasOwner(users', devices', sessions')
      <3> SUFFICES ASSUME NEW t \in Sessions,
                          sessions'[t].status \in {"active", "revoked", "expired"}
                   PROVE  /\ sessions'[t].dev \in Keys
                          /\ devices'[sessions'[t].dev].status # "absent"
                          /\ Known(users', sessions'[t].dev[1])
        BY DEF HasOwner
      <3>1. CASE t = s
        BY <3>1, <1>4, <1>7, <1>9
      <3>2. CASE t # s
        <4>1. /\ sessions[t].dev \in Keys
              /\ devices[sessions[t].dev].status # "absent"
              /\ Known(users, sessions[t].dev[1])
          BY <3>2, <1>1, <1>8 DEF MemoryInv, HasOwner
        <4>2. sessions[t].dev[1] \in Users
          BY <4>1 DEF Keys
        <4> QED BY <3>2, <4>1, <4>2, <1>4, <1>6, <1>8
      <3> QED BY <3>1, <3>2
    <2>2. \A t \in Sessions : sessions'[t].status = "active" /\ t # s =>
            /\ sessions[t].status = "active"
            /\ sessions[t].dev \in Keys
            /\ sessions[t].dev # d
            /\ devices'[sessions[t].dev] = devices[sessions[t].dev]
      BY <1>1, <1>6, <1>8 DEF MemoryInv, HasOwner
    <2>3. LiveHasSlot(devices', sessions') /\ SeenTogether(devices', sessions')
      BY <2>2, <1>1, <1>7, <1>8, <1>9 DEF MemoryInv, LiveHasSlot, SeenTogether
    <2>4. OneLivePerSlot(sessions')
      BY <2>2, <1>1, <1>8, <1>9 DEF MemoryInv, OneLivePerSlot
    <2> QED BY <2>1, <2>3, <2>4 DEF MemoryInv
  <1>11. MemoryTypes'
    BY <1>4, <1>5 DEF MemoryTypes
  <1>12. disk' \in Snapshots /\ DiskInv'
    BY <1>1, <1>2, <1>10, <1>11, PersistKeepsDisk DEF TypeOK
  <1>13. o # "failed" => disk'.sessions = sessions'
    BY <1>2 DEF Persist
  <1>14. o = "failed" => disk' = disk
    BY <1>2 DEF Persist
  <1>15. GrantedOnDisk'
    <2>1. CASE o # "failed"
      BY <2>1, <1>13 DEF GrantedOnDisk
    <2>2. CASE o = "failed"
      <3>1. disk' = disk /\ granted' = granted /\ s \notin granted
        BY <2>2, <1>2, <1>14
      <3>2. \A t \in granted : t \in Sessions \ {s}
        BY <3>1, <1>1 DEF TypeOK
      <3> QED BY <3>1, <3>2, <1>1, <1>8 DEF GrantedOnDisk
    <2> QED BY <2>1, <2>2
  <1>16. EndOnRecord'
    <2> SUFFICES ASSUME NEW t \in ended'
                 PROVE  Over(sessions, t)' /\ Over(disk.sessions, t)'
      BY DEF EndOnRecord
    <2>1. t \in Sessions /\ t # s
      BY <1>1, <1>2 DEF TypeOK, SessionsOf
    <2>2. Over(sessions, t)'
      <3>1. CASE t \in ended
        BY <3>1, <2>1, <1>1, <1>2, <1>8 DEF EndOnRecord, Over
      <3>2. CASE t \notin ended
        BY <3>2, <2>1, <1>2, <1>8 DEF SessionsOf, Over
      <3> QED BY <3>1, <3>2
    <2>3. Over(disk.sessions, t)'
      <3>1. CASE o = "failed"
        BY <3>1, <1>1, <1>2, <1>14 DEF EndOnRecord, Over
      <3>2. CASE o # "failed"
        BY <3>2, <2>2, <1>13 DEF Over
      <3> QED BY <3>1, <3>2
    <2> QED BY <2>2, <2>3
  <1>17. TypeOK'
    BY <1>1, <1>2, <1>4, <1>5, <1>12 DEF TypeOK, SessionsOf
  <1>18. (TypeOK /\ MemoryInv /\ DiskInv /\ GrantedOnDisk /\ EndOnRecord)'
    BY <1>10, <1>12, <1>15, <1>16, <1>17
  <1> QED BY <1>18, IInvParts, PTL

\* A sign-in that is turned away changes the cached user only.
LEMMA RejectKeepsInv ==
  ASSUME IInv, NEW d \in Keys, NEW lim \in SnapshotLimits, RejectLogin(d, lim)
  PROVE  IInv'
  <1>1. TypeOK /\ MemoryInv /\ DiskInv /\ GrantedOnDisk /\ EndOnRecord
    BY IInvParts
  <1>2. /\ users' = Upserted(d[1], lim)
        /\ UNCHANGED <<now, devices, sessions, disk, owed, open, granted, ended>>
    BY DEF RejectLogin
  <1>3. d[1] \in Users
    BY DEF Keys
  <1>4. /\ users' \in [Users -> UserRecords]
        /\ \A v \in Users : Known(users, v) => Known(users', v)
    BY <1>1, <1>2, <1>3, UpsertedType DEF TypeOK
  <1>5. HasOwner(users', devices', sessions')
    BY <1>1, <1>2, <1>4 DEF MemoryInv, HasOwner, Keys
  <1>6. TypeOK'
    BY <1>1, <1>2, <1>4 DEF TypeOK
  <1>7. MemoryInv' /\ DiskInv'
    BY <1>1, <1>2, <1>5 DEF MemoryInv, DiskInv
  <1>8. GrantedOnDisk' /\ EndOnRecord'
    BY <1>1, <1>2 DEF GrantedOnDisk, EndOnRecord, Over
  <1>9. (TypeOK /\ MemoryInv /\ DiskInv /\ GrantedOnDisk /\ EndOnRecord)'
    BY <1>6, <1>7, <1>8
  <1> QED BY <1>9, IInvParts, PTL

\* Authorisation, with its touch, its expiry and the save that follows.
LEMMA AuthorizeKeepsInv ==
  ASSUME IInv, NEW s \in Sessions, NEW o \in SaveOutcomes,
         \/ AuthorizeQuietly(s) \/ Expire(s)
         \/ AuthorizeAndTouch(s, o) \/ SaveExpiry(s, o)
  PROVE  IInv'
  <1>1. TypeOK /\ MemoryInv /\ DiskInv /\ GrantedOnDisk /\ EndOnRecord
    BY IInvParts
  <1>2. CASE AuthorizeQuietly(s)
    <2>1. /\ open' = open \cup {s}
          /\ UNCHANGED <<now, users, devices, sessions, disk, owed, granted, ended>>
      BY <1>2 DEF AuthorizeQuietly, memory
    <2>2. TypeOK'
      BY <2>1, <1>1 DEF TypeOK
    <2>3. MemoryInv' /\ DiskInv' /\ GrantedOnDisk' /\ EndOnRecord'
      BY <2>1, <1>1 DEF MemoryInv, DiskInv, GrantedOnDisk, EndOnRecord, Over
    <2>4. (TypeOK /\ MemoryInv /\ DiskInv /\ GrantedOnDisk /\ EndOnRecord)'
      BY <2>2, <2>3
    <2> QED BY <2>4, IInvParts, PTL
  <1>3. CASE Expire(s)
    <2>1. /\ s \in granted /\ sessions[s].status = "active"
          /\ now > sessions[s].expires
          /\ sessions' = [sessions EXCEPT ![s].status = "expired"]
          /\ owed' = owed \cup {s} /\ ended' = ended \cup {s}
          /\ UNCHANGED <<now, users, devices, disk, open, granted>>
      BY <1>3 DEF Expire
    <2>2. /\ sessions' \in [Sessions -> SessionRecords]
          /\ sessions'[s].status = "expired"
          /\ \A t \in Sessions : /\ sessions'[t].dev = sessions[t].dev
                                 /\ sessions'[t].seen = sessions[t].seen
                                 /\ sessions'[t].expires = sessions[t].expires
          /\ \A t \in Sessions \ {s} : sessions'[t] = sessions[t]
      BY <2>1, <1>1 DEF TypeOK, SessionRecords
    <2>3. TypeOK'
      BY <2>1, <2>2, <1>1 DEF TypeOK
    <2>4. MemoryInv' /\ DiskInv'
      BY <2>1, <2>2, <1>1
      DEF MemoryInv, DiskInv, HasOwner, LiveHasSlot, OneLivePerSlot, SeenTogether
    <2>5. GrantedOnDisk'
      BY <2>1, <2>2, <1>1 DEF GrantedOnDisk, TypeOK
    <2>6. Over(disk.sessions, s)
      BY <2>1, <1>1 DEF GrantedOnDisk, Over
    <2>7. EndOnRecord'
      BY <2>1, <2>2, <2>6, <1>1 DEF EndOnRecord, Over, TypeOK
    <2>8. (TypeOK /\ MemoryInv /\ DiskInv /\ GrantedOnDisk /\ EndOnRecord)'
      BY <2>3, <2>4, <2>5, <2>7
    <2> QED BY <2>8, IInvParts, PTL
  <1>4. CASE AuthorizeAndTouch(s, o)
    <2>1. /\ Usable(users, devices, sessions, s)
          /\ sessions' = [sessions EXCEPT ![s].seen = now]
          /\ devices' = [devices EXCEPT ![sessions[s].dev].seen = now]
          /\ users' = users /\ Persist(o)
          /\ open' = IF o = "saved" THEN open \cup {s} ELSE open
          /\ UNCHANGED <<now, owed, granted, ended>>
      BY <1>4 DEF AuthorizeAndTouch
    <2>2. sessions[s].status = "active" /\ sessions[s].dev \in Keys
      BY <2>1, <1>1 DEF Usable, MemoryInv, HasOwner
    <2>3. /\ sessions' \in [Sessions -> SessionRecords]
          /\ sessions'[s].seen = now
          /\ \A t \in Sessions : /\ sessions'[t].status = sessions[t].status
                                 /\ sessions'[t].dev = sessions[t].dev
                                 /\ sessions'[t].expires = sessions[t].expires
          /\ \A t \in Sessions \ {s} : sessions'[t] = sessions[t]
      BY <2>1, <1>1 DEF TypeOK, SessionRecords
    <2>4. /\ devices' \in [Keys -> DeviceRecords]
          /\ devices'[sessions[s].dev].seen = now
          /\ \A d \in Keys : devices'[d].status = devices[d].status
          /\ \A d \in Keys \ {sessions[s].dev} : devices'[d] = devices[d]
      BY <2>1, <2>2, <1>1 DEF TypeOK, DeviceRecords
    <2>5. MemoryTypes'
      BY <2>1, <2>3, <2>4, <1>1 DEF MemoryTypes, TypeOK
    <2>6. HasOwner(users', devices', sessions') /\ LiveHasSlot(devices', sessions')
          /\ OneLivePerSlot(sessions')
      BY <2>1, <2>3, <2>4, <1>1
      DEF MemoryInv, HasOwner, LiveHasSlot, OneLivePerSlot
    <2>7. SeenTogether(devices', sessions')
      BY <2>2, <2>3, <2>4, <1>1
      DEF MemoryInv, HasOwner, SeenTogether, OneLivePerSlot
    <2>8. SessionsWane
      BY <2>3 DEF SessionsWane
    <2>9. open' \in SUBSET Sessions /\ owed' \in SUBSET Sessions
      BY <2>1, <1>1 DEF TypeOK
    <2>10. MemoryInv'
      BY <2>6, <2>7 DEF MemoryInv
    <2>11. ended' \in SUBSET Sessions /\ ended' \ ended = {}
      BY <2>1, <1>1 DEF TypeOK
    <2> QED BY <2>1, <2>5, <2>8, <2>9, <2>10, <2>11, SavingStep
  <1>5. CASE SaveExpiry(s, o)
    <2>1. /\ owed' = owed \ {s} /\ Persist(o)
          /\ UNCHANGED <<now, users, devices, sessions, open, granted, ended>>
      BY <1>5 DEF SaveExpiry, memory
    <2>2. MemoryTypes' /\ MemoryInv' /\ SessionsWane
      BY <2>1, <1>1 DEF MemoryTypes, MemoryInv, SessionsWane, TypeOK
    <2>3. open' \in SUBSET Sessions /\ owed' \in SUBSET Sessions
      BY <2>1, <1>1 DEF TypeOK
    <2>4. ended' \in SUBSET Sessions /\ ended' \ ended = {}
      BY <2>1, <1>1 DEF TypeOK
    <2> QED BY <2>1, <2>2, <2>3, <2>4, SavingStep
  <1> QED BY <1>2, <1>3, <1>4, <1>5

\* A revocation, asked for by a user (c) or by an administrator.
LEMMA RevokeKeepsInv ==
  ASSUME IInv, NEW d \in Keys, NEW o \in SaveOutcomes,
         AdminRevoke(d, o) \/ (\E c \in Sessions : UserRevoke(c, d, o))
  PROVE  IInv'
  <1>1. TypeOK /\ MemoryInv
    BY IInvParts
  <1>2. Revoke(d, o) /\ UNCHANGED <<now, owed, granted>> /\ open' \subseteq open
    BY DEF AdminRevoke, UserRevoke
  <1>3. /\ devices' = RevokeDevices(devices, {d})
        /\ sessions' = RevokeSessions(sessions, {d})
        /\ users' = users /\ Persist(o)
        /\ \A e \in {d} : devices[e].status # "absent"
        /\ ended' = IF o = "saved" THEN ended \cup SessionsOf({d}) ELSE ended
    BY <1>2 DEF Revoke
  <1>4. MemoryTypes' /\ MemoryInv' /\ SessionsWane
    BY <1>3, RevokeKeepsMemory
  <1>5. /\ ended' \in SUBSET Sessions
        /\ \A s \in ended' \ ended : o = "saved" /\ s \in SessionsOf({d})
    BY <1>1, <1>3 DEF TypeOK, SessionsOf
  <1>6. \A s \in SessionsOf({d}) : sessions'[s].status # "active"
    BY <1>1, <1>3 DEF SessionsOf, RevokeSessions, TypeOK, SessionRecords
  <1>7. owed' \in SUBSET Sessions /\ open' \in SUBSET Sessions
    BY <1>1, <1>2 DEF TypeOK
  <1> QED BY <1>2, <1>3, <1>4, <1>5, <1>6, <1>7, SavingStep

\* Steps that write to the record of a user only.
LEMMA UserWriteKeepsInv ==
  ASSUME IInv, NEW o \in SaveOutcomes, Persist(o),
         users' \in [Users -> UserRecords],
         \A v \in Users : Known(users, v) => Known(users', v),
         UNCHANGED <<now, devices, sessions, owed, granted, ended>>,
         open' \subseteq open
  PROVE  IInv'
  <1>1. TypeOK /\ MemoryInv
    BY IInvParts
  <1>2. HasOwner(users', devices', sessions')
    BY <1>1 DEF MemoryInv, HasOwner, Keys
  <1>3. MemoryInv'
    BY <1>1, <1>2 DEF MemoryInv
  <1>4. MemoryTypes' /\ SessionsWane
    BY <1>1 DEF MemoryTypes, SessionsWane, TypeOK
  <1>5. /\ owed' \in SUBSET Sessions /\ open' \in SUBSET Sessions
        /\ ended' \in SUBSET Sessions /\ ended' \ ended = {}
    BY <1>1 DEF TypeOK
  <1> QED BY <1>3, <1>4, <1>5, SavingStep

\* The refresh of the cached limit (rewriteSubscriptionResponse) keeps the
\* invariant: the user stays known.
LEMMA RewriteKeepsInv ==
  ASSUME IInv, NEW c \in Sessions, NEW lim \in Limits \cup {None},
         NEW o \in SaveOutcomes, RewriteSubscription(c, lim, o)
  PROVE  IInv'
  <1> DEFINE u == sessions[c].dev[1]
  <1>1. users \in [Users -> UserRecords]
    BY IInvParts DEF TypeOK
  <1>2. /\ users' = [users EXCEPT ![u].limit = IF lim # None THEN lim ELSE @]
        /\ Known(users, u)
        /\ Persist(o)
        /\ UNCHANGED <<now, devices, sessions, owed, granted, ended>>
        /\ open' \subseteq open
    BY DEF RewriteSubscription
  <1>3. lim \in Int \cup {None}
    BY StoreAssumption
  <1>4. users' \in [Users -> UserRecords]
    BY <1>1, <1>2, <1>3 DEF UserRecords
  <1>5. \A v \in Users : Known(users, v) => Known(users', v)
    BY <1>1, <1>2, <1>3 DEF UserRecords, Known
  <1> QED BY <1>2, <1>4, <1>5, UserWriteKeepsInv

\* An administrator's limit (handleAdminPatchDeviceLimit) keeps the invariant.
LEMMA PatchKeepsInv ==
  ASSUME IInv, NEW u \in Users, NEW v \in Limits \cup {None},
         NEW o \in SaveOutcomes, PatchLimit(u, v, o)
  PROVE  IInv'
  <1>1. users \in [Users -> UserRecords]
    BY IInvParts DEF TypeOK
  <1>2. /\ users' = [users EXCEPT ![u].override = v]
        /\ Persist(o)
        /\ UNCHANGED <<now, devices, sessions, owed, granted, ended>>
        /\ open' \subseteq open
    BY DEF PatchLimit
  <1>3. v \in Nat \cup {None}
    BY StoreAssumption
  <1>4. users' \in [Users -> UserRecords]
    BY <1>1, <1>2, <1>3 DEF UserRecords
  <1>5. \A w \in Users : Known(users, w) => Known(users', w)
    BY <1>1, <1>2 DEF UserRecords, Known
  <1> QED BY <1>2, <1>4, <1>5, UserWriteKeepsInv

\* The cleanup.  A device it deletes was revoked, so none of its sessions was
\* live, and they are deleted with it.
LEMMA CleanupKeepsInv ==
  ASSUME IInv, NEW o \in SaveOutcomes, Cleanup(o)
  PROVE  IInv'
  <1>1. TypeOK /\ MemoryInv
    BY IInvParts
  <1>2. /\ devices' = [d \in Keys |-> IF d \in Purged THEN NoDevice
                                     ELSE RevokeDevices(devices, Offline)[d]]
        /\ sessions' = [s \in Sessions |->
                          IF sessions[s].dev \in Purged
                          THEN [sessions[s] EXCEPT !.status = "deleted"]
                          ELSE RevokeSessions(sessions, Offline)[s]]
        /\ users' = users /\ Persist(o)
        /\ UNCHANGED <<now, owed, open, granted, ended>>
    BY DEF Cleanup
  <1>3. /\ \A d \in Purged : devices[d].status = "revoked"
        /\ \A d \in Offline : devices[d].status = "active"
    BY DEF Purged, Offline
  <1>4. /\ RevokeDevices(devices, Offline) \in [Keys -> DeviceRecords]
        /\ RevokeSessions(sessions, Offline) \in [Sessions -> SessionRecords]
    BY <1>1, RevokeTypes DEF TypeOK
  <1>5. MemoryTypes'
    <2>1. devices' \in [Keys -> DeviceRecords]
      BY <1>2, <1>4 DEF NoDevice, DeviceRecords
    <2>2. sessions' \in [Sessions -> SessionRecords]
      BY <1>1, <1>2, <1>4 DEF SessionRecords, TypeOK
    <2> QED BY <2>1, <2>2, <1>1, <1>2 DEF MemoryTypes, TypeOK
  <1>6. \A s \in Sessions :
          /\ sessions'[s].dev = sessions[s].dev
          /\ sessions'[s].seen = sessions[s].seen
          /\ sessions[s].dev \in Purged => sessions'[s].status = "deleted"
          /\ sessions[s].dev \in Offline => sessions'[s].status # "active"
          /\ \/ sessions'[s].status = sessions[s].status
             \/ sessions'[s].status = "deleted"
             \/ sessions[s].status = "active" /\ sessions'[s].status = "revoked"
          /\ sessions'[s].status = "active" =>
               sessions'[s].expires = sessions[s].expires
    BY <1>1, <1>2 DEF RevokeSessions, TypeOK, SessionRecords
  <1>7. \A d \in Keys \ Purged :
          /\ devices'[d].status = "absent" => devices[d].status = "absent"
          /\ devices'[d].seen = devices[d].seen
          /\ d \notin Offline => devices'[d] = devices[d]
    BY <1>1, <1>2 DEF RevokeDevices, TypeOK, DeviceRecords
  <1>8. HasOwner(users', devices', sessions')
    BY <1>1, <1>2, <1>6, <1>7 DEF MemoryInv, HasOwner
  <1>9. \A s \in Sessions : sessions'[s].status = "active" =>
          /\ sessions[s].status = "active"
          /\ sessions[s].dev \in Keys
          /\ devices'[sessions[s].dev] = devices[sessions[s].dev]
    BY <1>1, <1>6, <1>7 DEF MemoryInv, HasOwner
  <1>10. MemoryInv'
    BY <1>1, <1>6, <1>8, <1>9
    DEF MemoryInv, LiveHasSlot, SeenTogether, OneLivePerSlot
  <1>11. SessionsWane
    BY <1>6, <1>9 DEF SessionsWane
  <1>12. /\ owed' \in SUBSET Sessions /\ open' \in SUBSET Sessions
         /\ ended' \in SUBSET Sessions /\ ended' \ ended = {}
    BY <1>1, <1>2 DEF TypeOK
  <1> QED BY <1>2, <1>5, <1>10, <1>11, <1>12, SavingStep

\* Steps that write to no record: the clock, and a request that ends.
LEMMA IdleKeepsInv ==
  ASSUME IInv, UNCHANGED <<users, devices, sessions, disk, owed, granted, ended>>,
         now' \in {now, now + 1}, open' \subseteq open
  PROVE  IInv'
  <1>1. TypeOK /\ MemoryInv /\ DiskInv /\ GrantedOnDisk /\ EndOnRecord
    BY IInvParts
  <1>2. TypeOK'
    BY <1>1 DEF TypeOK
  <1>3. MemoryInv' /\ DiskInv' /\ GrantedOnDisk'
    BY <1>1 DEF MemoryInv, DiskInv, GrantedOnDisk
  <1>4. EndOnRecord'
    <2>1. \A s \in Sessions : sessions[s].expires \in Nat
      BY <1>1 DEF TypeOK, SessionRecords
    <2>2. \A s \in Sessions : disk.sessions[s].expires \in Nat
      BY <1>1 DEF TypeOK, Snapshots, SessionRecords
    <2>3. now \in Nat /\ ended \subseteq Sessions
      BY <1>1 DEF TypeOK
    <2> QED BY <1>1, <2>1, <2>2, <2>3 DEF EndOnRecord, Over
  <1>5. (TypeOK /\ MemoryInv /\ DiskInv /\ GrantedOnDisk /\ EndOnRecord)'
    BY <1>2, <1>3, <1>4
  <1> QED BY <1>5, IInvParts, PTL

\* A restart puts the memory where the disk is.
LEMMA RestartKeepsInv ==
  ASSUME IInv, CrashRestart
  PROVE  IInv'
  <1>1. TypeOK /\ DiskInv /\ EndOnRecord
    BY IInvParts
  <1>2. /\ users' = disk.users /\ devices' = disk.devices
        /\ sessions' = disk.sessions /\ owed' = {} /\ open' = {}
        /\ UNCHANGED <<now, disk, granted, ended>>
    BY DEF CrashRestart
  <1>3. TypeOK'
    BY <1>1, <1>2 DEF TypeOK, Snapshots
  <1>4. MemoryInv' /\ DiskInv'
    BY <1>1, <1>2 DEF MemoryInv, DiskInv
  <1>5. GrantedOnDisk'
    BY <1>1, <1>2 DEF GrantedOnDisk
  <1>6. EndOnRecord'
    BY <1>1, <1>2 DEF EndOnRecord, Over
  <1>7. (TypeOK /\ MemoryInv /\ DiskInv /\ GrantedOnDisk /\ EndOnRecord)'
    BY <1>3, <1>4, <1>5, <1>6
  <1> QED BY <1>7, IInvParts, PTL

\* Every handler, save, crash and restart keeps the invariant.
LEMMA StepIInv == IInv /\ [Next]_vars => IInv'
  <1> SUFFICES ASSUME IInv, [Next]_vars PROVE IInv'
    OBVIOUS
  <1>1. CASE Login
    BY <1>1, AdmitKeepsInv, RejectKeepsInv DEF Login
  <1>2. CASE Authorize
    BY <1>2, AuthorizeKeepsInv DEF Authorize, SaveOutcomes
  <1>3. CASE Request
    <2>1. CASE \E c \in Sessions : Finish(c)
      BY <2>1, IdleKeepsInv DEF Finish, memory
    <2>2. CASE \E c \in Sessions, o \in SaveOutcomes, d \in Keys : UserRevoke(c, d, o)
      BY <2>2, RevokeKeepsInv
    <2>3. CASE \E c \in Sessions, o \in SaveOutcomes, lim \in Limits \cup {None} :
                 RewriteSubscription(c, lim, o)
      BY <2>3, RewriteKeepsInv
    <2> QED BY <1>3, <2>1, <2>2, <2>3 DEF Request
  <1>4. CASE Maintenance
    BY <1>4, RevokeKeepsInv, PatchKeepsInv, CleanupKeepsInv DEF Maintenance
  <1>5. CASE Tick
    BY <1>5, IdleKeepsInv DEF Tick, memory
  <1>6. CASE CrashRestart
    BY <1>6, RestartKeepsInv
  <1>7. CASE UNCHANGED vars
    BY <1>7, IdleKeepsInv DEF vars
  <1> QED BY <1>1, <1>2, <1>3, <1>4, <1>5, <1>6, <1>7 DEF Next

\* The inductive invariant of the store holds: the records agree, in memory
\* and on disk, granted sessions are on disk and ended ones are over
\* (admitDevice, authorizeWithReload, the revocations, cleanupRevokedDevices).
THEOREM Invariance == Spec => []IInv
  BY InitIInv, StepIInv, PTL DEF Spec

----------------------------------------------------------------------------
(* The invariants of the runs *)

\* Every record has its type, whatever the handlers do (main.go:148-205).
THEOREM TypeCorrect == Spec => []TypeOK
  <1>1. IInv => TypeOK
    BY DEF IInv
  <1> QED BY <1>1, Invariance, PTL

\* Users, devices and sessions agree in memory and on disk: every handler that
\* frees a slot ends its sessions in the same critical section and save.
THEOREM Consistency == Spec => []StoreConsistent
  <1>1. IInv => StoreConsistent
    BY DEF IInv
  <1> QED BY <1>1, Invariance, PTL

\* A token that admitDevice returned and that works survives a crash.
THEOREM GrantedDurable == Spec => []GrantedSurvivesRestart
  <1>1. ASSUME IInv, NEW s \in granted, UsableNow(s)
        PROVE  UsableAfterRestart(s)
    <2>1. TypeOK /\ MemoryInv /\ DiskInv /\ GrantedOnDisk
      BY <1>1, IInvParts
    <2>2. s \in Sessions
      BY <1>1, <2>1 DEF TypeOK
    <2>3. /\ disk.sessions[s].status = "active"
          /\ now <= disk.sessions[s].expires
      BY <1>1, <2>1 DEF UsableNow, Usable, GrantedOnDisk
    <2> QED BY <2>1, <2>2, <2>3
            DEF DiskInv, HasOwner, LiveHasSlot, UsableAfterRestart, Usable
  <1>2. IInv => GrantedSurvivesRestart
    BY <1>1 DEF GrantedSurvivesRestart
  <1> QED BY <1>2, Invariance, PTL

\* A session whose end was acknowledged is accepted neither now nor after a
\* crash (the revocations, admitDevice, the expiry in authorize).
THEOREM EndsAreFinal == Spec => []EndedStaysEnded
  <1>1. ASSUME IInv, NEW s \in ended
        PROVE  ~UsableNow(s) /\ ~UsableAfterRestart(s)
    <2>1. TypeOK /\ EndOnRecord
      BY <1>1, IInvParts
    <2>2. /\ s \in Sessions /\ now \in Nat
          /\ sessions[s].expires \in Nat
          /\ disk.sessions[s].expires \in Nat
      BY <1>1, <2>1 DEF TypeOK, Snapshots, SessionRecords
    <2>3. Over(sessions, s) /\ Over(disk.sessions, s)
      BY <1>1, <2>1 DEF EndOnRecord
    <2> QED BY <2>2, <2>3 DEF Over, UsableNow, UsableAfterRestart, Usable
  <1>2. IInv => EndedStaysEnded
    BY <1>1 DEF EndedStaysEnded
  <1> QED BY <1>2, Invariance, PTL

----------------------------------------------------------------------------
(* What a step may do *)

\* Only a sign-in, for a session it creates, and a restart make a session live.
LEMMA SessionsOnlyWane ==
  ASSUME IInv, [Next]_vars, ~CrashRestart, NEW s \in Sessions,
         sessions'[s].status = "active", sessions[s].status # "unissued"
  PROVE  /\ sessions[s].status = "active"
         /\ sessions'[s].dev = sessions[s].dev
         /\ sessions'[s].expires = sessions[s].expires
  <1> DEFINE Same == /\ sessions[s].status = "active"
                     /\ sessions'[s].dev = sessions[s].dev
                     /\ sessions'[s].expires = sessions[s].expires
  <1>1. sessions \in [Sessions -> SessionRecords]
    BY IInvParts DEF TypeOK
  <1>2. ASSUME NEW D, sessions'[s] = RevokeSessions(sessions, D)[s]
        PROVE  Same
    BY <1>1, <1>2 DEF RevokeSessions, SessionRecords
  <1>3. CASE Login
    <2>1. CASE \E d \in Keys, lim \in SnapshotLimits : RejectLogin(d, lim)
      BY <2>1 DEF RejectLogin
    <2>2. ASSUME NEW d \in Keys, NEW lim \in SnapshotLimits, NEW t \in Sessions,
                 NEW o \in SaveOutcomes,
                 NEW K \in SUBSET ActiveDevices(devices, d[1]),
                 AdmitLogin(d, lim, t, K, o)
          PROVE  Same
      <3>1. /\ s # t
            /\ sessions' = [RevokeSessions(sessions, K \cup {d}) EXCEPT
                             ![t] = [status |-> "active", dev |-> d,
                                     expires |-> now + TTL, seen |-> now]]
        BY <2>2 DEF AdmitLogin
      <3>2. sessions'[s] = RevokeSessions(sessions, K \cup {d})[s]
        BY <3>1 DEF RevokeSessions
      <3> QED BY <3>2, <1>2
    <2> QED BY <1>3, <2>1, <2>2 DEF Login
  <1>4. CASE Authorize
    <2>1. ASSUME NEW t \in Sessions,
                 sessions' = [sessions EXCEPT ![t].seen = now]
          PROVE  Same
      BY <2>1, <1>1 DEF SessionRecords
    <2>2. ASSUME NEW t \in Sessions,
                 sessions' = [sessions EXCEPT ![t].status = "expired"]
          PROVE  Same
      BY <2>2, <1>1 DEF SessionRecords
    <2> QED BY <1>4, <2>1, <2>2
            DEF Authorize, AuthorizeQuietly, AuthorizeAndTouch, Expire, SaveExpiry,
                memory
  <1>5. ASSUME NEW d \in Keys, NEW o \in SaveOutcomes, Revoke(d, o)
        PROVE  Same
    BY <1>5, <1>2 DEF Revoke
  <1>6. CASE Request
    BY <1>6, <1>5 DEF Request, Finish, UserRevoke, RewriteSubscription, memory
  <1>7. ASSUME NEW o \in SaveOutcomes, Cleanup(o)
        PROVE  Same
    <2>1. sessions[s].dev \notin Purged
      BY <1>7, <1>1 DEF Cleanup
    <2>2. sessions'[s] = RevokeSessions(sessions, Offline)[s]
      BY <2>1, <1>7 DEF Cleanup
    <2> QED BY <2>2, <1>2
  <1>8. CASE Maintenance
    BY <1>8, <1>5, <1>7 DEF Maintenance, AdminRevoke, PatchLimit
  <1>9. CASE Tick \/ UNCHANGED vars
    BY <1>9 DEF Tick, vars, memory
  <1> QED BY <1>3, <1>4, <1>6, <1>8, <1>9 DEF Next

\* A session that stopped being accepted is not accepted again: no handler
\* writes back a record it read before a revocation.
THEOREM SessionsDie == Spec => SessionsDieOnce
  <1> DEFINE P == \A s \in Sessions :
               UsableNow(s)' => UsableNow(s) \/ sessions[s].status = "unissued"
                                            \/ CrashRestart
  <1>1. ASSUME IInv, [Next]_vars, NEW s \in Sessions, UsableNow(s)',
               sessions[s].status # "unissued", ~CrashRestart
        PROVE  UsableNow(s)
    <2>1. TypeOK /\ MemoryInv
      BY <1>1, IInvParts
    <2>2. /\ sessions[s].status = "active"
          /\ now' <= sessions[s].expires
      BY <1>1, SessionsOnlyWane DEF UsableNow, Usable
    <2>3. now' \in {now, now + 1}
      BY <1>1 DEF Next, vars, Login, RejectLogin, AdmitLogin, Authorize,
         AuthorizeQuietly, AuthorizeAndTouch, Expire, SaveExpiry, Request, Finish,
         UserRevoke, RewriteSubscription, Maintenance, AdminRevoke, PatchLimit,
         Cleanup, Tick
    <2>4. now <= sessions[s].expires
      BY <2>1, <2>2, <2>3 DEF TypeOK, SessionRecords
    <2> QED BY <2>1, <2>2, <2>4
            DEF MemoryInv, HasOwner, LiveHasSlot, UsableNow, Usable
  <1>2. IInv /\ [Next]_vars => [P]_vars
    BY <1>1
  <1> QED BY <1>2, Invariance, PTL DEF Spec, SessionsDieOnce

\* Only a sign-in and a restart activate a device, and a sign-in its own.
LEMMA OnlyLoginActivates ==
  ASSUME IInv, [Next]_vars, ~CrashRestart, NEW d \in Keys, Activated(d)
  PROVE  \E lim \in SnapshotLimits, s \in Sessions, o \in SaveOutcomes :
           \E K \in SUBSET ActiveDevices(devices, d[1]) :
             AdmitLogin(d, lim, s, K, o)
  <1>1. devices \in [Keys -> DeviceRecords]
    BY IInvParts DEF TypeOK
  <1>2. devices[d].status # "active" /\ devices'[d].status = "active"
    BY DEF Activated
  <1>3. ASSUME NEW D, devices'[d] = RevokeDevices(devices, D)[d]
        PROVE  FALSE
    BY <1>1, <1>2, <1>3 DEF RevokeDevices, DeviceRecords
  <1>4. CASE Login
    <2>1. ~(\E e \in Keys, lim \in SnapshotLimits : RejectLogin(e, lim))
      BY <1>2 DEF RejectLogin
    <2>2. PICK e \in Keys, lim \in SnapshotLimits, s \in Sessions, o \in SaveOutcomes :
            \E K \in SUBSET ActiveDevices(devices, e[1]) : AdmitLogin(e, lim, s, K, o)
      BY <1>4, <2>1 DEF Login
    <2>3. PICK K \in SUBSET ActiveDevices(devices, e[1]) : AdmitLogin(e, lim, s, K, o)
      BY <2>2
    <2>4. CASE d = e
      BY <2>3, <2>4
    <2>5. CASE d # e
      <3>1. devices'[d] = RevokeDevices(devices, K)[d]
        BY <2>3, <2>5 DEF AdmitLogin, RevokeDevices
      <3> QED BY <3>1, <1>3
    <2> QED BY <2>4, <2>5
  <1>5. CASE Authorize
    <2>1. ASSUME NEW e, devices' = [devices EXCEPT ![e].seen = now]
          PROVE  FALSE
      BY <2>1, <1>1, <1>2 DEF DeviceRecords
    <2> QED BY <1>2, <1>5, <2>1
            DEF Authorize, AuthorizeQuietly, AuthorizeAndTouch, Expire, SaveExpiry,
                memory
  <1>6. ASSUME NEW e \in Keys, NEW o \in SaveOutcomes, Revoke(e, o)
        PROVE  FALSE
    BY <1>6, <1>3 DEF Revoke
  <1>7. CASE Request
    BY <1>2, <1>6, <1>7 DEF Request, Finish, UserRevoke, RewriteSubscription, memory
  <1>8. ASSUME NEW o \in SaveOutcomes, Cleanup(o)
        PROVE  FALSE
    <2>1. d \notin Purged
      BY <1>2, <1>8 DEF Cleanup, NoDevice
    <2>2. devices'[d] = RevokeDevices(devices, Offline)[d]
      BY <2>1, <1>8 DEF Cleanup
    <2> QED BY <2>2, <1>3
  <1>9. CASE Maintenance
    BY <1>2, <1>6, <1>8, <1>9 DEF Maintenance, AdminRevoke, PatchLimit
  <1>10. CASE Tick \/ UNCHANGED vars
    BY <1>2, <1>10 DEF Tick, vars, memory
  <1> QED BY <1>4, <1>5, <1>7, <1>9, <1>10 DEF Next

\* The active devices of a user can be counted (activeDevicesLocked).
LEMMA FiniteActive ==
  ASSUME NEW ds, NEW u
  PROVE  IsFiniteSet(ActiveDevices(ds, u))
  <1>1. IsFiniteSet(Keys)
    BY StoreAssumption, FS_Product DEF Keys
  <1>2. ActiveDevices(ds, u) \in SUBSET Keys
    BY DEF ActiveDevices
  <1> QED BY <1>1, <1>2, FS_Subset

\* The slots in use after a sign-in that activates device d.
LEMMA SlotsAfterAdmission ==
  ASSUME IInv, NEW d \in Keys, NEW lim \in SnapshotLimits, NEW s \in Sessions,
         NEW o \in SaveOutcomes, NEW K \in SUBSET ActiveDevices(devices, d[1]),
         AdmitLogin(d, lim, s, K, o), Activated(d)
  PROVE  LET n == Cardinality(ActiveDevices(devices', d[1]))
             L == EffectiveLimit(users', d[1])
         IN  /\ L > 0 => n <= L
             /\ K # {} => n = L
  <1> DEFINE A == ActiveDevices(devices, d[1])
             L == EffectiveLimit(users', d[1])
  <1>1. devices \in [Keys -> DeviceRecords] /\ users \in [Users -> UserRecords]
    BY IInvParts DEF TypeOK
  <1>2. users' \in [Users -> UserRecords] /\ d[1] \in Users
    BY <1>1, UpsertedType DEF AdmitLogin, Keys
  <1>3. L \in Int
    BY <1>2, StoreAssumption DEF EffectiveLimit, UserRecords
  <1>4. IsNew(d) /\ d \notin A
    BY DEF Activated, IsNew, ActiveDevices
  <1>5. ActiveDevices(devices', d[1]) = (A \ K) \cup {d}
    <2>1. devices' = [RevokeDevices(devices, K) EXCEPT
                        ![d] = [status |-> "active", seen |-> now, revokedAt |-> 0]]
      BY DEF AdmitLogin
    <2>2. devices'[d].status = "active"
      BY <2>1 DEF RevokeDevices
    <2>3. \A e \in Keys \ {d} :
            devices'[e].status = "active" <=> devices[e].status = "active" /\ e \notin K
      BY <2>1, <1>1 DEF RevokeDevices, DeviceRecords
    <2> QED BY <2>2, <2>3 DEF ActiveDevices
  <1>6. IsFiniteSet(A) /\ Cardinality(A) \in Nat
    BY FiniteActive, FS_CardinalityType
  <1>7. IsFiniteSet(K) /\ Cardinality(K) \in Nat
    BY <1>6, FS_Subset, FS_CardinalityType
  <1>8. /\ IsFiniteSet(A \ K)
        /\ Cardinality(A \ K) = Cardinality(A) - Cardinality(K)
    <2>1. /\ IsFiniteSet(A \ K)
          /\ Cardinality(A \ K) = Cardinality(A) - Cardinality(A \cap K)
      BY <1>6, <1>7, FS_Difference
    <2>2. A \cap K = K
      OBVIOUS
    <2> QED BY <2>1, <2>2
  <1>9. Cardinality((A \ K) \cup {d}) = Cardinality(A) - Cardinality(K) + 1
    BY <1>4, <1>6, <1>7, <1>8, FS_AddElement
  <1>10. CASE Full(users', d)
    <2>1. Cardinality(K) = Cardinality(A) - L + 1
      BY <1>4, <1>10 DEF AdmitLogin, Evictions
    <2> QED BY <2>1, <1>3, <1>5, <1>6, <1>9
  <1>11. CASE ~Full(users', d)
    <2>1. K = {}
      BY <1>11 DEF AdmitLogin
    <2>2. Cardinality(K) = 0
      BY <2>1, FS_EmptySet
    <2>3. L > 0 => Cardinality(A) < L
      BY <1>3, <1>6, <1>11 DEF Full
    <2> QED BY <2>1, <2>2, <2>3, <1>3, <1>5, <1>6, <1>9
  <1> QED BY <1>10, <1>11

\* No step but a restart gives out a slot beyond the limit then in force,
\* under either policy (admitDevice).
THEOREM SlotsWithinLimit == Spec => AdmissionWithinLimit
  <1> DEFINE P == \A d \in Keys : Activated(d) => CrashRestart \/ WithinLimit(d[1])'
  <1>1. ASSUME IInv, [Next]_vars, NEW d \in Keys, Activated(d), ~CrashRestart
        PROVE  WithinLimit(d[1])'
    <2>1. PICK lim \in SnapshotLimits, s \in Sessions, o \in SaveOutcomes :
            \E K \in SUBSET ActiveDevices(devices, d[1]) : AdmitLogin(d, lim, s, K, o)
      BY <1>1, OnlyLoginActivates
    <2> QED BY <2>1, <1>1, SlotsAfterAdmission DEF WithinLimit
  <1>2. IInv /\ [Next]_vars => [P]_vars
    BY <1>1
  <1> QED BY <1>2, Invariance, PTL DEF Spec, AdmissionWithinLimit

\* When a sign-in evicts devices, exactly the limit is in use afterwards (the
\* loop of admitDevice).
THEOREM MinimalEviction == Spec => EvictionIsMinimal
  <1> DEFINE P == \A d, e \in Keys :
               d[1] = e[1] /\ Activated(d) /\ Deactivated(e) =>
                 \/ CrashRestart
                 \/ Cardinality(ActiveDevices(devices', d[1])) = EffectiveLimit(users', d[1])
  <1>1. ASSUME IInv, [Next]_vars, NEW d \in Keys, NEW e \in Keys,
               Activated(d), Deactivated(e), ~CrashRestart
        PROVE  Cardinality(ActiveDevices(devices', d[1])) = EffectiveLimit(users', d[1])
    <2>1. PICK lim \in SnapshotLimits, s \in Sessions, o \in SaveOutcomes :
            \E K \in SUBSET ActiveDevices(devices, d[1]) : AdmitLogin(d, lim, s, K, o)
      BY <1>1, OnlyLoginActivates
    <2>2. PICK K \in SUBSET ActiveDevices(devices, d[1]) : AdmitLogin(d, lim, s, K, o)
      BY <2>1
    <2>3. e # d
      BY <1>1 DEF Activated, Deactivated
    <2>4. devices'[e] = RevokeDevices(devices, K)[e]
      BY <2>2, <2>3 DEF AdmitLogin, RevokeDevices
    <2>5. K # {}
      BY <1>1, <2>4 DEF Deactivated, RevokeDevices
    <2> QED BY <1>1, <2>2, <2>5, SlotsAfterAdmission
  <1>2. IInv /\ [Next]_vars => [P]_vars
    BY <1>1
  <1> QED BY <1>2, Invariance, PTL DEF Spec, EvictionIsMinimal

\* Whenever a request is authorised its device is on record as seen within the
\* last TouchAfter: the test of authorize looks at the session, the cleanup at
\* the device, and the two are always touched together.
THEOREM UseIsRecorded == Spec => UseKeepsDeviceSeen
  <1> DEFINE P == \A s \in open' \ open :
               devices'[sessions'[s].dev].seen >= now - TouchAfter
  <1>1. ASSUME IInv, [Next]_vars, NEW s \in open' \ open
        PROVE  devices'[sessions'[s].dev].seen >= now - TouchAfter
    <2>1. TypeOK /\ MemoryInv /\ now \in Nat /\ TouchAfter \in Nat
      BY <1>1, IInvParts, StoreAssumption DEF TypeOK
    <2>2. \/ AuthorizeQuietly(s)
          \/ \E o \in SaveOutcomes : AuthorizeAndTouch(s, o)
      BY <1>1 DEF Next, vars, Login, RejectLogin, AdmitLogin, Authorize,
         AuthorizeQuietly, AuthorizeAndTouch, Expire, SaveExpiry, Request, Finish,
         UserRevoke, RewriteSubscription, Maintenance, AdminRevoke, PatchLimit,
         Cleanup, Tick, CrashRestart
    <2>3. /\ s \in Sessions /\ sessions[s].status = "active"
          /\ sessions[s].dev \in Keys /\ sessions[s].seen \in Nat
          /\ devices[sessions[s].dev].seen = sessions[s].seen
      BY <2>1, <2>2
      DEF AuthorizeQuietly, AuthorizeAndTouch, Usable, TypeOK, MemoryInv, HasOwner,
          SeenTogether, SessionRecords
    <2>4. CASE AuthorizeQuietly(s)
      BY <2>1, <2>3, <2>4 DEF AuthorizeQuietly, memory
    <2>5. ASSUME NEW o \in SaveOutcomes, AuthorizeAndTouch(s, o)
          PROVE  devices'[sessions'[s].dev].seen = now
      BY <2>1, <2>3, <2>5 DEF AuthorizeAndTouch, TypeOK, DeviceRecords, SessionRecords
    <2> QED BY <2>1, <2>2, <2>4, <2>5
  <1>2. IInv /\ [Next]_vars => [P]_vars
    BY <1>1
  <1> QED BY <1>2, Invariance, PTL DEF Spec, UseKeepsDeviceSeen

============================================================================
