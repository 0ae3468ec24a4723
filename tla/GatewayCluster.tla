--------------------------- MODULE GatewayCluster ---------------------------
(***************************************************************************)
(* Several gateways over one PostgreSQL database (device_gateway/main.go   *)
(* 1908-2019, 3407-3595, 4314-4355; store_postgres.go 138-302).  Each one  *)
(* decides on its own copy of the store, writes the rows it marked dirty,  *)
(* whole, and replaces its copy by a load of the database: periodically,   *)
(* and when it is shown a token it does not know.                          *)
(*                                                                         *)
(* Left to DeviceStore: the clock, expiry, purging, limits that change and *)
(* the kick_oldest policy.  Here the policy is "strict" with one limit,    *)
(* and there is one user.                                                  *)
(***************************************************************************)
EXTENDS Naturals, FiniteSets

CONSTANTS
  Gateways,
  Installs,    \* installations: device_id_hash
  Devices,     \* device records: "dev_" and random digits
  Sessions,    \* session records and their tokens
  Loaders,     \* the goroutines of a gateway that load the database
  Periodic,    \* the one of syncPostgresLoop, which also loads at start
  None,
  Limit,       \* the effective limit of the user
  SaveOutcomes \* how a save may end: "saved", or "failed", or "unanswered"

ASSUME ClusterAssumption ==
  /\ Periodic \in Loaders
  /\ None \notin Gateways \cup Installs \cup Devices
  /\ Limit \in Nat \ {0}
  /\ SaveOutcomes \subseteq {"saved", "failed", "unanswered"}

VARIABLES
  db,        \* the contents of the database
  mem,       \* the contents of each gateway's store
  dirty,     \* what each gateway marked and has not saved
  load,      \* the load in flight of each loader
  serving,   \* the gateways that have started
  granted    \* ghost: the gateway that handed out a session, until it is ended

vars == <<db, mem, dirty, load, serving, granted>>

NoDevice == [install |-> None, status |-> "absent"]
NoSession == [device |-> None, status |-> "absent"]
Empty == [devices |-> [d \in Devices |-> NoDevice],
          sessions |-> [s \in Sessions |-> NoSession]]
Clean == [user |-> FALSE, devices |-> {}, sessions |-> {}]
NoLoad == [pc |-> "idle", moved |-> FALSE, fresh |-> Empty]

ActiveDevices(m) == {d \in Devices : m.devices[d].status = "active"}

Copies == {db} \cup {mem[g] : g \in Gateways}

\* Random ids occur nowhere before.
UnusedDevice(d) == \A m \in Copies : m.devices[d] = NoDevice
UnusedSession(s) == \A m \in Copies : m.sessions[s] = NoSession

----------------------------------------------------------------------------
(* Marking and saving *)

\* mark...Locked: the rows are dirty and the revision moves.
Marked(g, user, devices, sessions) ==
  [user |-> dirty[g].user \/ user,
   devices |-> dirty[g].devices \cup devices,
   sessions |-> dirty[g].sessions \cup sessions]

\* Every load of g in flight will find the revision moved and install nothing;
\* what it reads no longer matters and is dropped.
NoticedLoads(g) ==
  [load EXCEPT ![g] = [l \in Loaders |->
     [pc |-> load[g][l].pc, moved |-> load[g][l].pc # "idle", fresh |-> Empty]]]

\* SaveChanges: the dirty rows of m over those of the database, whoever wrote
\* them last, in one transaction.
Upserted(m, marks) ==
  [devices |-> [d \in Devices |->
     IF d \in marks.devices THEN m.devices[d] ELSE db.devices[d]],
   sessions |-> [s \in Sessions |->
     IF s \in marks.sessions THEN m.sessions[s] ELSE db.sessions[s]]]

\* saveLocked, after the store of g became m and marks were added.  A save that
\* fails, or is not answered in time although it was committed, leaves the
\* store as it is and keeps the marks.
Save(g, m, marks, outcome) ==
  /\ mem' = [mem EXCEPT ![g] = m]
  /\ db' = IF outcome = "failed" THEN db ELSE Upserted(m, marks)
  /\ dirty' = [dirty EXCEPT ![g] = IF outcome = "saved" THEN Clean ELSE marks]

----------------------------------------------------------------------------
(* Requests *)

\* Faulty variant of LiveSessions: the sessions are not looked at.
AnySessions(m, d) == Sessions

\* The sessions of m that are of device d and active: revokeDeviceSessionsLocked
\* ends them, and no others.
LiveSessions(m, d) ==
  {s \in Sessions : m.sessions[s].device = d /\ m.sessions[s].status = "active"}

EndSessions(m, ended) ==
  [s \in Sessions |-> IF s \in ended
                      THEN [m.sessions[s] EXCEPT !.status = "revoked"]
                      ELSE m.sessions[s]]

\* The grants of device d are over.
Ungranted(d) ==
  [s \in Sessions |-> IF \E m \in Copies : m.sessions[s].device = d
                      THEN None ELSE granted[s]]

\* Gateway h revoked device d and has that row yet to save: its next save, of
\* whatever, will write it.
RevocationUnsaved(h, d) ==
  d \in dirty[h].devices /\ mem[h].devices[d].status = "revoked"

\* A sign-in grants its session when it was saved, and when no other gateway
\* has a revocation of the device still to save.
GrantedBy(g, d, outcome) ==
  IF outcome = "saved" /\ \A h \in Gateways \ {g} : ~RevocationUnsaved(h, d)
  THEN g ELSE None

AtLimit(g) == Cardinality(ActiveDevices(mem[g])) >= Limit

KnownDevices(g, i) == {d \in Devices : mem[g].devices[d].install = i}

\* The record of installation i: one that g knows, else a new one.
RecordsFor(g, i) ==
  IF KnownDevices(g, i) # {} THEN KnownDevices(g, i)
  ELSE {d \in Devices : UnusedDevice(d)}

\* Faulty variant of Login: the new session is not marked.
LoginUnmarked(g, i, d, s) ==
  LET m == mem[g]
      ended == LiveSessions(m, d)
      after == [devices |-> [m.devices EXCEPT
                               ![d] = [install |-> i, status |-> "active"]],
                sessions |-> [EndSessions(m, ended) EXCEPT
                                ![s] = [device |-> d, status |-> "active"]]]
  IN  /\ g \in serving
      /\ d \in RecordsFor(g, i) /\ UnusedSession(s)
      /\ m.devices[d].status = "active" \/ ~AtLimit(g)
      /\ \E outcome \in SaveOutcomes :
           /\ Save(g, after, Marked(g, TRUE, {d}, ended), outcome)
           /\ granted' = [Ungranted(d) EXCEPT ![s] = GrantedBy(g, d, outcome)]
      /\ load' = NoticedLoads(g)
      /\ UNCHANGED serving

\* admitDevice, admitted: the slots and the sessions counted and ended are
\* those g knows of.
Login(g, i, d, s) ==
  LET m == mem[g]
      ended == LiveSessions(m, d)
      after == [devices |-> [m.devices EXCEPT
                               ![d] = [install |-> i, status |-> "active"]],
                sessions |-> [EndSessions(m, ended) EXCEPT
                                ![s] = [device |-> d, status |-> "active"]]]
  IN  /\ g \in serving
      /\ d \in RecordsFor(g, i) /\ UnusedSession(s)
      /\ m.devices[d].status = "active" \/ ~AtLimit(g)
      /\ \E outcome \in SaveOutcomes :
           /\ Save(g, after, Marked(g, TRUE, {d}, ended \cup {s}), outcome)
           /\ granted' = [Ungranted(d) EXCEPT ![s] = GrantedBy(g, d, outcome)]
      /\ load' = NoticedLoads(g)
      /\ UNCHANGED serving

\* admitDevice, refused at the limit: the user was updated and marked before,
\* and nothing is saved.
RejectLogin(g, i) ==
  /\ g \in serving
  /\ AtLimit(g)
  /\ KnownDevices(g, i) \cap ActiveDevices(mem[g]) = {}
  /\ dirty' = [dirty EXCEPT ![g].user = TRUE]
  /\ load' = NoticedLoads(g)
  /\ UNCHANGED <<db, mem, serving, granted>>

\* The device of a session that g takes for active, or None.
UsableDevice(g, s) ==
  LET d == mem[g].sessions[s].device
  IN  IF /\ mem[g].sessions[s].status = "active"
         /\ mem[g].devices[d].status = "active"
      THEN d ELSE None

\* authorizeWithReload, after a minute: the session and the device are marked
\* seen, and their rows saved.  (Sooner it changes nothing.)
Touch(g, s) ==
  /\ g \in serving
  /\ UsableDevice(g, s) # None
  /\ \E outcome \in SaveOutcomes :
       Save(g, mem[g], Marked(g, FALSE, {UsableDevice(g, s)}, {s}), outcome)
  /\ load' = NoticedLoads(g)
  /\ UNCHANGED <<serving, granted>>

\* rewriteSubscriptionResponse and businessSubscribeURL, in a request with that
\* session: the session gets its business URL, and its row is saved alone.
RewriteSubscription(g, s) ==
  /\ g \in serving
  /\ UsableDevice(g, s) # None
  /\ \E outcome \in SaveOutcomes :
       Save(g, mem[g], Marked(g, TRUE, {}, {s}), outcome)
  /\ load' = NoticedLoads(g)
  /\ UNCHANGED <<serving, granted>>

\* handleUserDeviceByID, handleAdminRevokeDevice: the device must be known to g.
Revoke(g, d) ==
  LET m == mem[g]
      ended == LiveSessions(m, d)
      after == [devices |-> [m.devices EXCEPT ![d].status = "revoked"],
                sessions |-> EndSessions(m, ended)]
  IN  /\ g \in serving
      /\ m.devices[d].status # "absent"
      /\ \E outcome \in SaveOutcomes :
           Save(g, after, Marked(g, FALSE, {d}, ended), outcome)
      /\ granted' = Ungranted(d)
      /\ load' = NoticedLoads(g)
      /\ UNCHANGED serving

----------------------------------------------------------------------------
(* Loads: syncPostgresLoop, reloadFromPostgresOnMiss and LoadStore *)

\* With nothing unsaved; LoadAll then reads the tables one query at a time,
\* the devices first.  Any unknown token makes a request start a load.
LoadStart(g, l) ==
  /\ load[g][l].pc = "idle"
  /\ g \in serving \/ l = Periodic
  /\ dirty[g] = Clean
  /\ load' = [load EXCEPT ![g][l] = [pc |-> "sessions", moved |-> FALSE,
                                     fresh |-> [Empty EXCEPT !.devices = db.devices]]]
  /\ UNCHANGED <<db, mem, dirty, serving, granted>>

LoadSessions(g, l) ==
  /\ load[g][l].pc = "sessions"
  /\ LET ld == load[g][l]
         fresh == IF ld.moved THEN Empty
                  ELSE [devices |-> ld.fresh.devices, sessions |-> db.sessions]
     IN  load' = [load EXCEPT ![g][l] = [pc |-> "install", moved |-> ld.moved,
                                         fresh |-> fresh]]
  /\ UNCHANGED <<db, mem, dirty, serving, granted>>

\* Faulty variants of Install: the revision is not compared; it is compared
\* the wrong way round.
InstallAnyway(g, l) ==
  /\ load[g][l].pc = "install"
  /\ mem' = [mem EXCEPT ![g] = load[g][l].fresh]
  /\ load' = [load EXCEPT ![g][l] = NoLoad]
  /\ serving' = serving \cup {g}
  /\ UNCHANGED <<db, dirty, granted>>
InstallIfMoved(g, l) ==
  /\ load[g][l].pc = "install"
  /\ mem' = [mem EXCEPT ![g] = IF load[g][l].moved THEN load[g][l].fresh ELSE @]
  /\ load' = [load EXCEPT ![g][l] = NoLoad]
  /\ serving' = serving \cup {g}
  /\ UNCHANGED <<db, dirty, granted>>

\* The copy is replaced, unless the revision moved since the load began.
Install(g, l) ==
  /\ load[g][l].pc = "install"
  /\ mem' = [mem EXCEPT ![g] = IF load[g][l].moved THEN @ ELSE load[g][l].fresh]
  /\ load' = [load EXCEPT ![g][l] = NoLoad]
  /\ serving' = serving \cup {g}
  /\ UNCHANGED <<db, dirty, granted>>

LoadFail(g, l) ==
  /\ load[g][l].pc = "sessions"
  /\ load' = [load EXCEPT ![g][l] = NoLoad]
  /\ UNCHANGED <<db, mem, dirty, serving, granted>>

\* The process dies; it starts again by loading.
Crash(g) ==
  /\ g \in serving
  /\ serving' = serving \ {g}
  /\ mem' = [mem EXCEPT ![g] = Empty]
  /\ dirty' = [dirty EXCEPT ![g] = Clean]
  /\ load' = [load EXCEPT ![g] = [l \in Loaders |-> NoLoad]]
  /\ UNCHANGED <<db, granted>>

----------------------------------------------------------------------------
Init ==
  /\ db = Empty
  /\ mem = [g \in Gateways |-> Empty]
  /\ dirty = [g \in Gateways |-> Clean]
  /\ load = [g \in Gateways |-> [l \in Loaders |-> NoLoad]]
  /\ serving = Gateways
  /\ granted = [s \in Sessions |-> None]

Request(g) ==
  \/ \E i \in Installs, d \in Devices, s \in Sessions : Login(g, i, d, s)
  \/ \E i \in Installs : RejectLogin(g, i)
  \/ \E s \in Sessions : Touch(g, s) \/ RewriteSubscription(g, s)
  \/ \E d \in Devices : Revoke(g, d)

Load(g, l) == LoadStart(g, l) \/ LoadSessions(g, l) \/ Install(g, l) \/ LoadFail(g, l)

Next == \E g \in Gateways : Request(g) \/ Crash(g) \/ \E l \in Loaders : Load(g, l)

Spec == Init /\ [][Next]_vars

\* The ticker of syncPostgresLoop starts a load every interval; a load ends, at
\* its timeout if not before; a database asked again and again answers again
\* and again.
Fairness ==
  \A g \in Gateways :
    /\ WF_vars(LoadStart(g, Periodic))
    /\ SF_vars(LoadSessions(g, Periodic))
    /\ \A l \in Loaders : /\ WF_vars(LoadSessions(g, l) \/ LoadFail(g, l))
                          /\ WF_vars(Install(g, l))

FairSpec == Spec /\ Fairness

----------------------------------------------------------------------------
(* Type and properties *)

DeviceRecords == {NoDevice} \cup [install : Installs, status : {"active", "revoked"}]
SessionRecords == {NoSession} \cup [device : Devices, status : {"active", "revoked"}]
Contents == [devices : [Devices -> DeviceRecords],
             sessions : [Sessions -> SessionRecords]]
Marks == [user : BOOLEAN, devices : SUBSET Devices, sessions : SUBSET Sessions]
LoadRecords == [pc : {"idle", "sessions", "install"}, moved : BOOLEAN,
                fresh : Contents]

\* Every variable has its type (main.go:128-146, 161-205).
TypeOK ==
  /\ db \in Contents
  /\ mem \in [Gateways -> Contents]
  /\ dirty \in [Gateways -> Marks]
  /\ load \in [Gateways -> [Loaders -> LoadRecords]]
  /\ serving \in SUBSET Gateways
  /\ granted \in [Sessions -> Gateways \cup {None}]

Active(m, s) == /\ m.sessions[s].status = "active"
                /\ m.devices[m.sessions[s].device].status = "active"

\* A session that was handed out and ended by nobody, not by a revocation that
\* is still to be saved either, is in the database, with its device, whatever
\* the other gateways save over it, from copies however old, and whichever
\* saves and loads fail or gateways crash (SaveChanges, saveLocked).
GrantedDurable == \A s \in Sessions : granted[s] # None => Active(db, s)

\* ... and the gateway that handed it out accepts it, while it serves: no load
\* begun before, torn or overtaken takes it away (syncPostgresLoop,
\* reloadFromPostgresOnMiss).
GrantedAccepted ==
  \A s \in Sessions :
    granted[s] \in serving => UsableDevice(granted[s], s) # None

\* Once the gateways serve, save what they mark and nobody writes, each comes to
\* hold what the database holds (syncPostgresLoop).
CopiesConverge ==
  (/\ <>[](serving = Gateways /\ \A g \in Gateways : dirty[g] = Clean)
   /\ <>[][FALSE]_<<db>>
   /\ <>[](\A g \in Gateways : ~load[g][Periodic].moved))
  => <>[](\A g \in Gateways : mem[g] = db)

\* "other instances' writes become visible to this process" (main.go:4314): a
\* copy that takes a device for active after the database has it revoked is
\* put right, on a gateway that keeps running.
WritesBecomeVisible ==
  \A g \in Gateways, d \in Devices :
    (mem[g].devices[d].status = "active" /\ db.devices[d].status = "revoked")
    ~> (mem[g].devices[d].status = "revoked" \/ db.devices[d].status = "active")

\* A device whose revocation was saved comes back by a new sign-in and not
\* otherwise: "revoking a device also blocks future subscription refreshes"
\* (device_gateway/README.md:73-75).
RevocationHolds ==
  [][\A d \in Devices :
       db.devices[d].status = "revoked" /\ db'.devices[d].status = "active"
       => \E s \in Sessions : /\ db.sessions[s] = NoSession
                              /\ db'.sessions[s] = [device |-> d, status |-> "active"]]_vars

============================================================================
