---------------------------- MODULE DeviceStore ----------------------------
(***************************************************************************)
(* The device and session store of one gateway process                     *)
(* (device_gateway/main.go).  A user signs in from installations; each     *)
(* installation that is let in holds one of the user's device slots and    *)
(* one live session.  Slots are freed by the user, by an administrator, by *)
(* the eviction of the oldest device, and by the hourly cleanup.           *)
(*                                                                         *)
(* Every handler changes the memory of the process in one critical section *)
(* of store.mu and saves it before it unlocks; a save that fails leaves    *)
(* the memory changed.  One process that saves successfully writes all of  *)
(* its memory: the JSON file is rewritten whole, and PostgreSQL receives   *)
(* every record that was marked since the last successful save.            *)
(*                                                                         *)
(* A session stands for both of its tokens: the gateway token and the      *)
(* subscription token are created, looked up and checked the same way.     *)
(***************************************************************************)
EXTENDS Integers, FiniteSets

CONSTANTS
  Users,          \* accounts of the business system
  Installs,       \* values of device_id: installations of the client
  Sessions,       \* session identities (randomHex never repeats one)
  None,           \* an absent device limit (a nil *int)
  KickOldest,     \* DG_DEVICE_POLICY is kick_oldest, not strict
  DefaultLimit,   \* DG_DEFAULT_DEVICE_LIMIT
  Limits,         \* limits a plan or an administrator may set (0: unlimited)
  TTL,            \* DG_SESSION_TTL_HOURS
  TouchAfter,     \* the minute during which a session is not touched again
  OfflineAfter,   \* 30 days: an active device not seen for longer is revoked
  PurgeAfter,     \* 90 days: a device revoked for longer is deleted
  MaxTime         \* bound of the clock in a run

ASSUME StoreAssumption ==
  /\ IsFiniteSet(Users) /\ IsFiniteSet(Installs)
  /\ KickOldest \in BOOLEAN
  /\ DefaultLimit \in Int
  /\ Limits \subseteq Nat
  /\ None \notin Int
  /\ TTL \in Nat /\ TouchAfter \in Nat
  /\ OfflineAfter \in Nat /\ PurgeAfter \in Nat
  /\ MaxTime \in Nat

VARIABLES
  now,        \* the clock
  users,      \* cached limit and override of each user
  devices,    \* device records, by user and installation
  sessions,   \* session records
  disk,       \* what a restart loads: the last state that was persisted
  owed,       \* sessions whose expiry is marked but not yet passed to Save
  open,       \* sessions of the requests authorised and still being handled
  granted,    \* sessions whose token was returned to a client
  ended       \* sessions whose end was acknowledged to someone

memory == <<users, devices, sessions>>
vars == <<now, users, devices, sessions, disk, owed, open, granted, ended>>

----------------------------------------------------------------------------
(* Records *)

Keys == Users \X Installs

UserRecords == [limit : Int \cup {None}, override : Nat \cup {None}]
DeviceRecords ==
  [status : {"absent", "active", "revoked"}, seen : Nat, revokedAt : Nat]
SessionRecords ==
  [status : {"unissued", "active", "revoked", "expired", "deleted"},
   dev : Keys \cup {None}, expires : Nat, seen : Nat]
Snapshots == [users : [Users -> UserRecords],
              devices : [Keys -> DeviceRecords],
              sessions : [Sessions -> SessionRecords]]

NoDevice == [status |-> "absent", seen |-> 0, revokedAt |-> 0]
NoSession == [status |-> "unissued", dev |-> None, expires |-> 0, seen |-> 0]

\* A record of a user always carries a limit: upsertUserLocked sets one.
Known(us, u) == us[u].limit # None

ActiveDevices(ds, u) == {d \in Keys : d[1] = u /\ ds[d].status = "active"}

EffectiveLimit(us, u) ==
  IF us[u].override # None THEN us[u].override
  ELSE IF us[u].limit # None THEN us[u].limit
  ELSE DefaultLimit

\* What authorize and authorizeSubscribeToken require of a session.
Usable(us, ds, ss, s) ==
  /\ ss[s].status = "active"
  /\ now <= ss[s].expires
  /\ ds[ss[s].dev].status = "active"
  /\ Known(us, ss[s].dev[1])

----------------------------------------------------------------------------
(* Helpers of the handlers *)

\* The limit a snapshot leaves cached: its own if it has one, else what was
\* cached, else the default.
UpsertedLimit(u, lim) ==
  IF lim # None THEN lim
  ELSE IF users[u].limit # None THEN users[u].limit
  ELSE DefaultLimit

Upserted(u, lim) == [users EXCEPT ![u].limit = UpsertedLimit(u, lim)]

\* revokeDeviceLocked for every device of D.
RevokeDevices(ds, D) ==
  [d \in Keys |-> IF d \in D
                  THEN [ds[d] EXCEPT !.status = "revoked", !.revokedAt = now]
                  ELSE ds[d]]

\* Faulty variants of RevokeSessions: the sessions are left alone; they are
\* given an end in the past.
RevokeSessionsForgotten(ss, D) == ss
RevokeSessionsInThePast(ss, D) ==
  [s \in Sessions |->
     IF ss[s].dev \in D /\ ss[s].status = "active"
     THEN [ss[s] EXCEPT !.status = "revoked", !.expires = now - 1]
     ELSE ss[s]]

\* revokeDeviceSessionsLocked for every device of D.
RevokeSessions(ss, D) ==
  [s \in Sessions |->
     IF ss[s].dev \in D /\ ss[s].status = "active"
     THEN [ss[s] EXCEPT !.status = "revoked", !.expires = now]
     ELSE ss[s]]

SessionsOf(D) ==
  {s \in Sessions : sessions[s].status # "unissued" /\ sessions[s].dev \in D}

\* Faulty variant of Persist: changed sessions are not marked for the save.
PersistWithoutSessions(o) ==
  disk' = IF o = "failed" THEN disk
          ELSE [users |-> users', devices |-> devices', sessions |-> disk.sessions]

\* saveLocked succeeds, fails before anything is written, or fails although
\* the transaction was committed (its context timed out).
SaveOutcomes == {"saved", "failed", "unsure"}
Persist(o) ==
  disk' = IF o = "failed" THEN disk
          ELSE [users |-> users', devices |-> devices', sessions |-> sessions']

----------------------------------------------------------------------------
(* Sign-in: admitDevice, called by handleLogin and handleQRApprove *)

\* The limits a sign-in can bring: that of the plan, none, or the default
\* that handleLogin falls back to when the subscription cannot be fetched,
\* normalised like one of a plan.
SnapshotLimits ==
  Limits \cup {None, IF DefaultLimit > 0 THEN DefaultLimit ELSE 0}

IsNew(d) == devices[d].status # "active"

\* Faulty variant of Full: one device too many is let in.
FullBeyondLimit(us, d) ==
  LET lim == EffectiveLimit(us, d[1])
  IN  lim > 0 /\ Cardinality(ActiveDevices(devices, d[1])) > lim

Full(us, d) ==
  LET lim == EffectiveLimit(us, d[1])
  IN  lim > 0 /\ Cardinality(ActiveDevices(devices, d[1])) >= lim

\* Faulty variant of Evictions: the loop runs while a slot is free.
EvictionsOneMore(us, d) ==
  LET act  == ActiveDevices(devices, d[1])
      need == Cardinality(act) - EffectiveLimit(us, d[1]) + 2
  IN  {K \in SUBSET act : Cardinality(K) = need \/ K = act}

\* The devices the eviction loop removes: the least recently seen ones, just
\* enough of them to free one slot.  Ties fall in map order, which is random.
Evictions(us, d) ==
  LET act  == ActiveDevices(devices, d[1])
      need == Cardinality(act) - EffectiveLimit(us, d[1]) + 1
  IN  {K \in SUBSET act :
         /\ Cardinality(K) = need
         /\ \A x \in K, y \in act \ K : devices[x].seen <= devices[y].seen}

\* A strict gateway turns the device away.  The user record is already
\* updated, and is not saved.
RejectLogin(d, lim) ==
  /\ ~KickOldest
  /\ users' = Upserted(d[1], lim)
  /\ IsNew(d) /\ Full(users', d)
  /\ UNCHANGED <<now, devices, sessions, disk, owed, open, granted, ended>>

\* The device is let in, after the evictions K: its record is (re)activated,
\* its previous sessions are revoked and session s is created.
AdmitLogin(d, lim, s, K, o) ==
  /\ sessions[s].status = "unissued"
  /\ s \notin granted \cup ended
  /\ users' = Upserted(d[1], lim)
  /\ IF IsNew(d) /\ Full(users', d)
     THEN KickOldest /\ K \in Evictions(users', d)
     ELSE K = {}
  /\ devices' = [RevokeDevices(devices, K) EXCEPT
                   ![d] = [status |-> "active", seen |-> now, revokedAt |-> 0]]
  /\ sessions' = [RevokeSessions(sessions, K \cup {d}) EXCEPT
                    ![s] = [status |-> "active", dev |-> d,
                            expires |-> now + TTL, seen |-> now]]
  /\ Persist(o)
  /\ granted' = IF o = "saved" THEN granted \cup {s} ELSE granted
  /\ ended' = IF o = "saved" THEN ended \cup SessionsOf(K \cup {d}) ELSE ended
  /\ UNCHANGED <<now, owed, open>>

Login ==
  \E d \in Keys, lim \in SnapshotLimits :
    \/ RejectLogin(d, lim)
    \/ \E s \in Sessions, o \in SaveOutcomes :
         \E K \in SUBSET ActiveDevices(devices, d[1]) :
           AdmitLogin(d, lim, s, K, o)

----------------------------------------------------------------------------
(* Authorisation: authorize, authorizeSubscribeToken *)

\* The session was touched less than TouchAfter ago: nothing is written.
AuthorizeQuietly(s) ==
  /\ s \in granted
  /\ Usable(users, devices, sessions, s)
  /\ now - sessions[s].seen <= TouchAfter
  /\ open' = open \cup {s}
  /\ UNCHANGED <<now, memory, disk, owed, granted, ended>>

\* Faulty variant of AuthorizeAndTouch: only the session is touched.
TouchSessionOnly(s, o) ==
  /\ s \in granted
  /\ Usable(users, devices, sessions, s)
  /\ now - sessions[s].seen > TouchAfter
  /\ sessions' = [sessions EXCEPT ![s].seen = now]
  /\ UNCHANGED <<users, devices>>
  /\ Persist(o)
  /\ open' = IF o = "saved" THEN open \cup {s} ELSE open
  /\ UNCHANGED <<now, owed, granted, ended>>

\* The session and its device are touched and saved; when the save fails the
\* request is refused, and the records stay touched.
AuthorizeAndTouch(s, o) ==
  /\ s \in granted
  /\ Usable(users, devices, sessions, s)
  /\ now - sessions[s].seen > TouchAfter
  /\ sessions' = [sessions EXCEPT ![s].seen = now]
  /\ devices' = [devices EXCEPT ![sessions[s].dev].seen = now]
  /\ users' = users
  /\ Persist(o)
  /\ open' = IF o = "saved" THEN open \cup {s} ELSE open
  /\ UNCHANGED <<now, owed, granted, ended>>

\* An active session past its time is marked expired and refused.  The lock
\* is released before Save is called: see SaveExpiry.
Expire(s) ==
  /\ s \in granted
  /\ sessions[s].status = "active"
  /\ now > sessions[s].expires
  /\ sessions' = [sessions EXCEPT ![s].status = "expired"]
  /\ owed' = owed \cup {s}
  /\ ended' = ended \cup {s}
  /\ UNCHANGED <<now, users, devices, disk, open, granted>>

\* The Save that follows, whose error is ignored.
SaveExpiry(s, o) ==
  /\ s \in owed
  /\ owed' = owed \ {s}
  /\ UNCHANGED memory
  /\ Persist(o)
  /\ UNCHANGED <<now, open, granted, ended>>

Authorize ==
  \E s \in Sessions :
    \/ AuthorizeQuietly(s)
    \/ Expire(s)
    \/ \E o \in SaveOutcomes : AuthorizeAndTouch(s, o) \/ SaveExpiry(s, o)

----------------------------------------------------------------------------
(* Requests that were authorised.  They hold copies of the records; none of *)
(* them checks again that the session is still active.                      *)

\* The revocation of one device, whoever asks for it.  The record is not
\* required to be active.
Revoke(d, o) ==
  /\ devices[d].status # "absent"
  /\ devices' = RevokeDevices(devices, {d})
  /\ sessions' = RevokeSessions(sessions, {d})
  /\ users' = users
  /\ Persist(o)
  /\ ended' = IF o = "saved" THEN ended \cup SessionsOf({d}) ELSE ended

\* DELETE /user/devices/{id}: any device of the same user.
UserRevoke(c, d, o) ==
  /\ c \in open
  /\ d[1] = sessions[c].dev[1]
  /\ Revoke(d, o)
  /\ open' = open \ {c}
  /\ UNCHANGED <<now, owed, granted>>

\* Faulty variant of RewriteSubscription: the copy of the session that the
\* request was authorised with is written back.
RewriteStaleSession(c, lim, o) ==
  /\ c \in open
  /\ Known(users, sessions[c].dev[1])
  /\ sessions' = [sessions EXCEPT ![c].status = "active"]
  /\ UNCHANGED <<users, devices>>
  /\ Persist(o)
  /\ open' = open \ {c}
  /\ UNCHANGED <<now, owed, granted, ended>>

\* GET /user/getSubscribe: the answer of the backend refreshes the cached
\* limit, and the store is saved whether or not anything changed.  The write
\* to the session only replaces its subscription URL.
RewriteSubscription(c, lim, o) ==
  /\ c \in open
  /\ Known(users, sessions[c].dev[1])
  /\ users' = [users EXCEPT ![sessions[c].dev[1]].limit =
                  IF lim # None THEN lim ELSE @]
  /\ UNCHANGED <<devices, sessions>>
  /\ Persist(o)
  /\ open' = open \ {c}
  /\ UNCHANGED <<now, owed, granted, ended>>

\* Every other request ends without writing to the store.
Finish(c) ==
  /\ c \in open
  /\ open' = open \ {c}
  /\ UNCHANGED <<now, memory, disk, owed, granted, ended>>

Request ==
  \E c \in Sessions :
    \/ Finish(c)
    \/ \E o \in SaveOutcomes :
         \/ \E d \in Keys : UserRevoke(c, d, o)
         \/ \E lim \in Limits \cup {None} : RewriteSubscription(c, lim, o)

----------------------------------------------------------------------------
(* Administration, cleanup, time and restarts *)

AdminRevoke(d, o) ==
  /\ Revoke(d, o)
  /\ UNCHANGED <<now, owed, open, granted>>

\* PATCH of the override: devices beyond the new limit keep their slots.
PatchLimit(u, v, o) ==
  /\ Known(users, u)
  /\ users' = [users EXCEPT ![u].override = v]
  /\ UNCHANGED <<devices, sessions>>
  /\ Persist(o)
  /\ UNCHANGED <<now, owed, open, granted, ended>>

Offline == {d \in Keys : /\ devices[d].status = "active"
                         /\ devices[d].seen < now - OfflineAfter}
Purged == {d \in Keys : /\ devices[d].status = "revoked"
                        /\ devices[d].revokedAt < now - PurgeAfter}

\* cleanupRevokedDevices: devices not seen for long are revoked, devices
\* revoked for long are deleted with their sessions.  The error of the save
\* is ignored.
Cleanup(o) ==
  /\ Offline \cup Purged # {}
  /\ devices' = [d \in Keys |-> IF d \in Purged THEN NoDevice
                                ELSE RevokeDevices(devices, Offline)[d]]
  /\ sessions' = [s \in Sessions |->
                    IF sessions[s].dev \in Purged
                    THEN [sessions[s] EXCEPT !.status = "deleted"]
                    ELSE RevokeSessions(sessions, Offline)[s]]
  /\ users' = users
  /\ Persist(o)
  /\ UNCHANGED <<now, owed, open, granted, ended>>

Maintenance ==
  \E o \in SaveOutcomes :
    \/ \E d \in Keys : AdminRevoke(d, o)
    \/ \E u \in Users, v \in Limits \cup {None} : PatchLimit(u, v, o)
    \/ Cleanup(o)

Tick ==
  /\ now < MaxTime
  /\ now' = now + 1
  /\ UNCHANGED <<memory, disk, owed, open, granted, ended>>

\* The process dies and LoadStore reads what was persisted.  Dying inside a
\* critical section leaves the disk as a save that failed or was committed
\* unseen, and the memory is lost.
CrashRestart ==
  /\ users' = disk.users
  /\ devices' = disk.devices
  /\ sessions' = disk.sessions
  /\ owed' = {}
  /\ open' = {}
  /\ UNCHANGED <<now, disk, granted, ended>>

----------------------------------------------------------------------------
Init ==
  /\ now = 0
  /\ users = [u \in Users |-> [limit |-> None, override |-> None]]
  /\ devices = [d \in Keys |-> NoDevice]
  /\ sessions = [s \in Sessions |-> NoSession]
  /\ disk = [users |-> users, devices |-> devices, sessions |-> sessions]
  /\ owed = {}
  /\ open = {}
  /\ granted = {}
  /\ ended = {}

Next == Login \/ Authorize \/ Request \/ Maintenance \/ Tick \/ CrashRestart

Spec == Init /\ [][Next]_vars

----------------------------------------------------------------------------
(* Type and invariants *)

\* Every variable has its type: the records of main.go:148-205.
TypeOK ==
  /\ now \in Nat
  /\ users \in [Users -> UserRecords]
  /\ devices \in [Keys -> DeviceRecords]
  /\ sessions \in [Sessions -> SessionRecords]
  /\ disk \in Snapshots
  /\ owed \in SUBSET Sessions
  /\ open \in SUBSET Sessions
  /\ granted \in SUBSET Sessions
  /\ ended \in SUBSET Sessions

\* A session record has a device record and a user record (authorize looks
\* both up and refuses the client when one is missing) ...
HasOwner(us, ds, ss) ==
  \A s \in Sessions : ss[s].status \in {"active", "revoked", "expired"} =>
    /\ ss[s].dev \in Keys
    /\ ds[ss[s].dev].status # "absent"
    /\ Known(us, ss[s].dev[1])
\* ... a live session holds a live slot ...
LiveHasSlot(ds, ss) ==
  \A s \in Sessions :
    ss[s].status = "active" => ds[ss[s].dev].status = "active"
\* ... and a slot has one live session.
OneLivePerSlot(ss) ==
  \A s, t \in Sessions :
    /\ ss[s].status = "active" /\ ss[t].status = "active"
    /\ ss[s].dev = ss[t].dev
    => s = t

\* The three records agree, in memory and in what a restart would load:
\* whoever revokes a device revokes its sessions in the same critical
\* section and the same save (admitDevice, the revocations, the cleanup).
StoreConsistent ==
  /\ HasOwner(users, devices, sessions)
  /\ LiveHasSlot(devices, sessions)
  /\ OneLivePerSlot(sessions)
  /\ HasOwner(disk.users, disk.devices, disk.sessions)
  /\ LiveHasSlot(disk.devices, disk.sessions)
  /\ OneLivePerSlot(disk.sessions)

UsableNow(s) == Usable(users, devices, sessions, s)
UsableAfterRestart(s) == Usable(disk.users, disk.devices, disk.sessions, s)

\* A token handed to a client that works now still works after a crash:
\* admitDevice answers with it only once saveLocked succeeded, and no later
\* save loses it.
GrantedSurvivesRestart ==
  \A s \in granted : UsableNow(s) => UsableAfterRestart(s)

\* A session whose end was acknowledged (200 to a revocation, the answer to
\* the sign-in that replaced or evicted it, DEVICE_SESSION_EXPIRED) is not
\* accepted again, not even after a crash.
EndedStaysEnded ==
  \A s \in ended : ~UsableNow(s) /\ ~UsableAfterRestart(s)

----------------------------------------------------------------------------
(* What a step may do *)

Activated(d) == devices[d].status # "active" /\ devices'[d].status = "active"
Deactivated(d) == devices[d].status = "active" /\ devices'[d].status # "active"

WithinLimit(u) ==
  EffectiveLimit(users, u) > 0 =>
    Cardinality(ActiveDevices(devices, u)) <= EffectiveLimit(users, u)

\* A step that gives a device a slot leaves its user within the limit in
\* force after the step, under both policies; only a restart, which goes
\* back to a persisted state, is exempt (admitDevice).
AdmissionWithinLimit ==
  [][\A d \in Keys : Activated(d) => CrashRestart \/ WithinLimit(d[1])']_vars

\* Devices are evicted for a sign-in only as far as needed: afterwards every
\* slot of the limit is in use (the loop of admitDevice).
EvictionIsMinimal ==
  [][\A d, e \in Keys :
       d[1] = e[1] /\ Activated(d) /\ Deactivated(e) =>
         \/ CrashRestart
         \/ Cardinality(ActiveDevices(devices', d[1])) = EffectiveLimit(users', d[1])]_vars

\* A session that stopped being accepted never is again: no handler writes
\* back the copy of a record it read before the record was revoked.
SessionsDieOnce ==
  [][\A s \in Sessions :
       UsableNow(s)' => UsableNow(s) \/ sessions[s].status = "unissued" \/ CrashRestart]_vars

\* Whenever a request is authorised its device is on record as seen within
\* the last TouchAfter, so the cleanup cannot take the slot of a device in
\* use: session and device are touched together, and the test looks at the
\* session only.
UseKeepsDeviceSeen ==
  [][\A s \in open' \ open :
       devices'[sessions'[s].dev].seen >= now - TouchAfter]_vars

----------------------------------------------------------------------------
(* What it all amounts to for a client *)

Promise == INSTANCE TokenContract WITH
  Tokens <- Sessions,
  working <- {s \in Sessions : UsableNow(s)},
  durable <- {s \in Sessions : UsableAfterRestart(s)},
  issued <- granted,
  over <- ended

\* The store keeps the contract of tokens: every handler, the clock, the
\* cleanup, failed saves and restarts included, does to the tokens that work
\* what the contract lets it (admitDevice, authorize, the revocations).
KeepsPromise == Promise!Spec

----------------------------------------------------------------------------
(* The inductive strengthening used by DeviceStoreProofs *)

\* Session and device are touched together.
SeenTogether(ds, ss) ==
  \A s \in Sessions :
    ss[s].status = "active" => ds[ss[s].dev].seen = ss[s].seen

\* A granted session that is live in memory is on disk as it is in memory.
GrantedOnDisk ==
  \A s \in granted : sessions[s].status = "active" =>
    /\ disk.sessions[s].status = "active"
    /\ disk.sessions[s].dev = sessions[s].dev
    /\ disk.sessions[s].expires = sessions[s].expires

Over(ss, s) == ss[s].status # "active" \/ now > ss[s].expires

\* An acknowledged end is visible in the session record itself, in memory and
\* on disk.
EndOnRecord ==
  \A s \in ended : Over(sessions, s) /\ Over(disk.sessions, s)

IInv ==
  /\ TypeOK
  /\ StoreConsistent
  /\ SeenTogether(devices, sessions)
  /\ SeenTogether(disk.devices, disk.sessions)
  /\ GrantedOnDisk
  /\ EndOnRecord

============================================================================
