------------------------ MODULE GatewayClusterProofs ------------------------
(***************************************************************************)
(* Proofs about the gateways of a cluster, for any number of gateways,     *)
(* loaders, devices and sessions, any limit, and however saves end.  That  *)
(* a session stays valid once it was handed out is the subject of the      *)
(* invariant Agreement.                                                    *)
(***************************************************************************)
EXTENDS GatewayCluster, TLAPS

----------------------------------------------------------------------------
(* Types *)

\* The empty store, the empty marks and the idle load have their types.
LEMMA ConstantTypes ==
  Empty \in Contents /\ Clean \in Marks /\ NoLoad \in LoadRecords
  BY DEF Empty, Contents, DeviceRecords, SessionRecords, Clean, Marks, NoLoad,
         LoadRecords

\* A save keeps the types of what it writes.
LEMMA SaveTypes ==
  ASSUME TypeOK, NEW g \in Gateways, NEW m \in Contents, NEW marks \in Marks,
         NEW outcome, Save(g, m, marks, outcome)
  PROVE  /\ db' \in Contents
         /\ mem' \in [Gateways -> Contents]
         /\ dirty' \in [Gateways -> Marks]
  <1>1. Upserted(m, marks) \in Contents
    BY DEF Upserted, Contents, TypeOK
  <1> QED
    BY <1>1, ConstantTypes DEF Save, TypeOK

\* Marks and loads keep their types when rows are marked.
LEMMA MarkTypes ==
  ASSUME TypeOK, NEW g \in Gateways, NEW user \in BOOLEAN,
         NEW ds \in SUBSET Devices, NEW ss \in SUBSET Sessions
  PROVE  /\ Marked(g, user, ds, ss) \in Marks
         /\ NoticedLoads(g) \in [Gateways -> [Loaders -> LoadRecords]]
  <1>1. Marked(g, user, ds, ss) \in Marks
    BY DEF Marked, TypeOK, Marks
  <1>2. \A l \in Loaders :
          [pc |-> load[g][l].pc, moved |-> load[g][l].pc # "idle", fresh |-> Empty]
            \in LoadRecords
    BY ConstantTypes DEF TypeOK, LoadRecords
  <1> QED
    BY <1>1, <1>2 DEF NoticedLoads, TypeOK

\* Ending sessions of a device leaves a store of sessions.
LEMMA EndTypes ==
  ASSUME NEW m \in Contents, NEW d \in Devices
  PROVE  /\ LiveSessions(m, d) \subseteq Sessions
         /\ EndSessions(m, LiveSessions(m, d)) \in [Sessions -> SessionRecords]
  <1>1. LiveSessions(m, d) \subseteq Sessions
    BY DEF LiveSessions
  <1>2. ASSUME NEW s \in LiveSessions(m, d)
        PROVE  [m.sessions[s] EXCEPT !.status = "revoked"] \in SessionRecords
    BY <1>1, <1>2 DEF LiveSessions, Contents, SessionRecords, NoSession
  <1> QED
    BY <1>1, <1>2 DEF EndSessions, Contents

\* Every request keeps the types.
LEMMA RequestTypes ==
  ASSUME TypeOK, NEW g \in Gateways, Request(g)
  PROVE  TypeOK'
  <1>1. ASSUME NEW i \in Installs, NEW d \in Devices, NEW s \in Sessions,
               Login(g, i, d, s)
        PROVE  TypeOK'
    <2> DEFINE m == mem[g]
               ended == LiveSessions(m, d)
               after == [devices |-> [m.devices EXCEPT
                                        ![d] = [install |-> i, status |-> "active"]],
                         sessions |-> [EndSessions(m, ended) EXCEPT
                                         ![s] = [device |-> d, status |-> "active"]]]
               marks == Marked(g, TRUE, {d}, ended \cup {s})
    <2>1. m \in Contents
      BY DEF TypeOK
    <2>2. /\ ended \subseteq Sessions
          /\ EndSessions(m, ended) \in [Sessions -> SessionRecords]
      BY <2>1, EndTypes
    <2>3. after \in Contents
      BY <2>1, <2>2 DEF Contents, DeviceRecords, SessionRecords
    <2>4. /\ marks \in Marks
          /\ NoticedLoads(g) \in [Gateways -> [Loaders -> LoadRecords]]
      BY <2>2, MarkTypes
    <2>5. PICK outcome \in SaveOutcomes :
            /\ Save(g, after, marks, outcome)
            /\ granted' = [Ungranted(d) EXCEPT
                             ![s] = GrantedBy(g, d, outcome)]
      BY <1>1 DEF Login
    <2>6. /\ db' \in Contents /\ mem' \in [Gateways -> Contents]
          /\ dirty' \in [Gateways -> Marks]
      BY <2>3, <2>4, <2>5, SaveTypes
    <2>7. granted' \in [Sessions -> Gateways \cup {None}]
      BY <2>5 DEF Ungranted, GrantedBy, TypeOK
    <2> QED
      BY <1>1, <2>4, <2>6, <2>7 DEF Login, TypeOK
  <1>2. ASSUME NEW i \in Installs, RejectLogin(g, i)
        PROVE  TypeOK'
    <2>1. NoticedLoads(g) \in [Gateways -> [Loaders -> LoadRecords]]
      BY MarkTypes
    <2> QED
      BY <1>2, <2>1 DEF RejectLogin, TypeOK, Marks
  <1>3. ASSUME NEW s \in Sessions, Touch(g, s)
        PROVE  TypeOK'
    <2>1. mem[g] \in Contents
      BY DEF TypeOK
    <2>2. UsableDevice(g, s) \in Devices
      BY <1>3, <2>1 DEF Touch, UsableDevice, Contents, SessionRecords, NoSession
    <2>3. /\ Marked(g, FALSE, {UsableDevice(g, s)}, {s}) \in Marks
          /\ NoticedLoads(g) \in [Gateways -> [Loaders -> LoadRecords]]
      BY <2>2, MarkTypes
    <2>4. /\ db' \in Contents /\ mem' \in [Gateways -> Contents]
          /\ dirty' \in [Gateways -> Marks]
      BY <1>3, <2>1, <2>3, SaveTypes DEF Touch
    <2> QED
      BY <1>3, <2>3, <2>4 DEF Touch, TypeOK
  <1>4. ASSUME NEW d \in Devices, Revoke(g, d)
        PROVE  TypeOK'
    <2> DEFINE m == mem[g]
               ended == LiveSessions(m, d)
               after == [devices |-> [m.devices EXCEPT ![d].status = "revoked"],
                         sessions |-> EndSessions(m, ended)]
               marks == Marked(g, FALSE, {d}, ended)
    <2>1. m \in Contents
      BY DEF TypeOK
    <2>2. /\ ended \subseteq Sessions
          /\ EndSessions(m, ended) \in [Sessions -> SessionRecords]
      BY <2>1, EndTypes
    <2>3. after \in Contents
      <3>1. m.devices[d] \in [install : Installs, status : {"active", "revoked"}]
        BY <1>4, <2>1 DEF Revoke, Contents, DeviceRecords, NoDevice
      <3> QED
        BY <2>1, <2>2, <3>1 DEF Contents, DeviceRecords
    <2>4. /\ marks \in Marks
          /\ NoticedLoads(g) \in [Gateways -> [Loaders -> LoadRecords]]
      BY <2>2, MarkTypes
    <2>5. /\ db' \in Contents /\ mem' \in [Gateways -> Contents]
          /\ dirty' \in [Gateways -> Marks]
      BY <1>4, <2>3, <2>4, SaveTypes DEF Revoke
    <2>6. granted' \in [Sessions -> Gateways \cup {None}]
      BY <1>4 DEF Revoke, Ungranted, TypeOK
    <2> QED
      BY <1>4, <2>4, <2>5, <2>6 DEF Revoke, TypeOK
  <1>5. ASSUME NEW s \in Sessions, RewriteSubscription(g, s)
        PROVE  TypeOK'
    <2>1. mem[g] \in Contents
      BY DEF TypeOK
    <2>2. /\ Marked(g, TRUE, {}, {s}) \in Marks
          /\ NoticedLoads(g) \in [Gateways -> [Loaders -> LoadRecords]]
      BY MarkTypes
    <2>3. /\ db' \in Contents /\ mem' \in [Gateways -> Contents]
          /\ dirty' \in [Gateways -> Marks]
      BY <1>5, <2>1, <2>2, SaveTypes DEF RewriteSubscription
    <2> QED
      BY <1>5, <2>2, <2>3 DEF RewriteSubscription, TypeOK
  <1> QED
    BY <1>1, <1>2, <1>3, <1>4, <1>5 DEF Request

\* Every step of a load, and a crash, keep the types.
LEMMA LoadTypes ==
  ASSUME TypeOK, NEW g \in Gateways,
         Crash(g) \/ \E l \in Loaders : Load(g, l)
  PROVE  TypeOK'
  <1> USE ConstantTypes
  <1>1. CASE Crash(g)
    BY <1>1 DEF Crash, TypeOK
  <1>2. ASSUME NEW l \in Loaders, LoadStart(g, l)
        PROVE  TypeOK'
    <2>1. [Empty EXCEPT !.devices = db.devices] \in Contents
      BY DEF TypeOK, Contents
    <2> QED
      BY <1>2, <2>1 DEF LoadStart, TypeOK, LoadRecords
  <1>3. ASSUME NEW l \in Loaders, LoadSessions(g, l)
        PROVE  TypeOK'
    <2> DEFINE ld == load[g][l]
               fresh == IF ld.moved THEN Empty
                        ELSE [devices |-> ld.fresh.devices, sessions |-> db.sessions]
    <2>1. ld \in LoadRecords
      BY DEF TypeOK
    <2>2. fresh \in Contents
      BY <2>1 DEF TypeOK, LoadRecords, Contents
    <2>3. [pc |-> "install", moved |-> ld.moved, fresh |-> fresh] \in LoadRecords
      BY <2>1, <2>2 DEF LoadRecords
    <2>4. load' = [load EXCEPT ![g][l] = [pc |-> "install", moved |-> ld.moved, fresh |-> fresh]]
      BY <1>3 DEF LoadSessions
    <2> QED
      BY <1>3, <2>3, <2>4 DEF LoadSessions, TypeOK
  <1>4. ASSUME NEW l \in Loaders, Install(g, l)
        PROVE  TypeOK'
    BY <1>4 DEF Install, TypeOK, LoadRecords
  <1>5. ASSUME NEW l \in Loaders, LoadFail(g, l)
        PROVE  TypeOK'
    BY <1>5 DEF LoadFail, TypeOK
  <1> QED
    BY <1>1, <1>2, <1>3, <1>4, <1>5 DEF Load

\* Every variable of the cluster always has its type, however saves end.
THEOREM TypeCorrect == Spec => []TypeOK
  <1>1. Init => TypeOK
    BY ConstantTypes DEF Init, TypeOK
  <1>2. TypeOK /\ [Next]_vars => TypeOK'
    <2> SUFFICES ASSUME TypeOK, [Next]_vars PROVE TypeOK'
      OBVIOUS
    <2>1. CASE UNCHANGED vars
      BY <2>1 DEF vars, TypeOK
    <2>2. CASE Next
      BY <2>2, RequestTypes, LoadTypes DEF Next
    <2> QED
      BY <2>1, <2>2
  <1> QED
    BY <1>1, <1>2, PTL DEF Spec


----------------------------------------------------------------------------
(* Agreement on what was granted *)

\* What makes GrantedDurable and GrantedAccepted inductive: the rows that wait
\* to be saved exist, and none is a revocation of the device of a session that
\* is granted; no copy, loaded or loading, has another row for such a session;
\* what the granting gateway is loading has it already; a load that was not
\* overtaken has no marks to lose; and rows never leave the database.
MarkedRowsExist ==
  \A g \in Gateways :
    /\ \A s \in dirty[g].sessions : mem[g].sessions[s] # NoSession
    /\ \A d \in dirty[g].devices : mem[g].devices[d] # NoDevice

SameRow(row, s) == row \in {NoSession, db.sessions[s]}

GrantAgreed(s) ==
  /\ Active(db, s)
  /\ granted[s] \in serving => /\ mem[granted[s]].sessions[s] = db.sessions[s]
                               /\ UsableDevice(granted[s], s) # None
  /\ \A g \in Gateways :
       /\ SameRow(mem[g].sessions[s], s)
       /\ \A l \in Loaders : SameRow(load[g][l].fresh.sessions[s], s)
       /\ ~RevocationUnsaved(g, db.sessions[s].device)

GrantLoads(s, ld) ==
  ld.pc # "idle" /\ ~ld.moved =>
    /\ ld.fresh.devices[db.sessions[s].device].status = "active"
    /\ ld.pc = "install" => ld.fresh.sessions[s] = db.sessions[s]

LoadsFromDatabase ==
  \A g \in Gateways, l \in Loaders :
    /\ load[g][l].pc = "idle" \/ load[g][l].moved =>
         load[g][l].fresh.sessions = Empty.sessions
    /\ \A s \in Sessions : load[g][l].fresh.sessions[s] # NoSession =>
                             db.sessions[s] # NoSession
    /\ load[g][l].moved => g \in serving
    /\ load[g][l].pc # "idle" /\ ~load[g][l].moved =>
         dirty[g].sessions = {} /\ dirty[g].devices = {}

Agreement ==
  /\ MarkedRowsExist
  /\ LoadsFromDatabase
  /\ \A s \in Sessions : granted[s] # None =>
       /\ GrantAgreed(s)
       /\ \A l \in Loaders : GrantLoads(s, load[granted[s]][l])

\* A write by a gateway, which leaves the row of a granted session and the
\* activity of its device alone, keeps the agreement on that session.
LEMMA WriteAgrees ==
  ASSUME TypeOK, Agreement,
         NEW g \in Gateways, NEW m \in Contents, NEW marks \in Marks, NEW outcome,
         Save(g, m, marks, outcome), load' = NoticedLoads(g), UNCHANGED serving,
         NEW s \in Sessions, granted[s] # None, granted'[s] = granted[s],
         m.sessions[s] = mem[g].sessions[s],
         s \in marks.sessions => m.sessions[s] # NoSession,
         LET d == db.sessions[s].device
         IN  /\ mem[g].devices[d].status = "active" => m.devices[d].status = "active"
             /\ d \in marks.devices => m.devices[d].status = "active"
  PROVE  /\ GrantAgreed(s)'
         /\ \A l \in Loaders : GrantLoads(s, load[granted[s]][l])'
  <1> DEFINE h == granted[s]
             d == db.sessions[s].device
  <1>1. /\ GrantAgreed(s)
        /\ \A l \in Loaders : GrantLoads(s, load[h][l])
    BY DEF Agreement
  <1>2. h \in Gateways
    BY DEF TypeOK
  <1>3. db.sessions[s] # NoSession /\ d \in Devices
    BY <1>1 DEF GrantAgreed, Active, TypeOK, Contents, SessionRecords, NoSession
  <1>4. /\ db' = db \/ db' = Upserted(m, marks)
        /\ mem' = [mem EXCEPT ![g] = m]
        /\ dirty' = [dirty EXCEPT ![g] = marks] \/ dirty' = [dirty EXCEPT ![g] = Clean]
    BY DEF Save
  <1>5. db'.sessions[s] = db.sessions[s]
    BY <1>1, <1>4 DEF Upserted, GrantAgreed, SameRow
  <1>6. db'.devices[d].status = "active"
    BY <1>1, <1>3, <1>4 DEF Upserted, GrantAgreed, Active
  <1>7. Active(db', s)
    BY <1>1, <1>5, <1>6 DEF Active, GrantAgreed
  <1>8. h \in serving => /\ mem'[h].sessions[s] = db'.sessions[s]
                         /\ UsableDevice(h, s)' # None
    <2> SUFFICES ASSUME h \in serving
                 PROVE  /\ mem'[h].sessions[s] = db'.sessions[s]
                        /\ UsableDevice(h, s)' # None
      OBVIOUS
    <2>1. /\ mem[h].sessions[s] = db.sessions[s]
          /\ db.sessions[s].status = "active"
          /\ mem[h].devices[d].status = "active"
      BY <1>1 DEF GrantAgreed, UsableDevice, Active
    <2>2. /\ mem'[h].sessions[s] = db.sessions[s]
          /\ mem'[h].devices[d].status = "active"
      BY <2>1, <1>2, <1>4 DEF TypeOK
    <2>3. d # None
      BY <1>3, ClusterAssumption
    <2> QED
      BY <2>1, <2>2, <2>3, <1>5 DEF UsableDevice
  <1>9. ASSUME NEW k \in Gateways
        PROVE  /\ SameRow(mem[k].sessions[s], s)'
               /\ \A l \in Loaders : SameRow(load[k][l].fresh.sessions[s], s)'
               /\ ~RevocationUnsaved(k, db.sessions[s].device)'
    <2>1. SameRow(mem[k].sessions[s], s)'
      BY <1>1, <1>4, <1>5 DEF GrantAgreed, SameRow, TypeOK
    <2>3. ~RevocationUnsaved(k, db.sessions[s].device)'
      <3>1. CASE k = g
        BY <3>1, <1>4, <1>5 DEF RevocationUnsaved, Clean, TypeOK
      <3>2. CASE k # g
        BY <3>2, <1>1, <1>4, <1>5 DEF RevocationUnsaved, GrantAgreed, TypeOK
      <3> QED
        BY <3>1, <3>2
    <2>2. \A l \in Loaders : load'[k][l].fresh.sessions[s]
                              \in {load[k][l].fresh.sessions[s], NoSession}
      BY DEF NoticedLoads, Empty, TypeOK
    <2> QED
      BY <1>1, <1>5, <2>1, <2>2, <2>3 DEF GrantAgreed, SameRow
  <1>10. ASSUME NEW l \in Loaders
         PROVE  GrantLoads(s, load[h][l])'
    <2>1. CASE h = g
      BY <2>1, <1>2 DEF NoticedLoads, GrantLoads, TypeOK
    <2>2. CASE h # g
      <3>1. load'[h][l] = load[h][l]
        BY <2>2, <1>2 DEF NoticedLoads, TypeOK
      <3> QED
        BY <3>1, <1>1, <1>5 DEF GrantLoads
    <2> QED
      BY <2>1, <2>2
  <1> QED
    BY <1>7, <1>8, <1>9, <1>10 DEF GrantAgreed

\* A write by a serving gateway that writes no absent row keeps the rest.
LEMMA WriteKeeps ==
  ASSUME TypeOK, Agreement,
         NEW g \in Gateways, g \in serving, NEW m \in Contents, NEW marks \in Marks,
         NEW outcome, Save(g, m, marks, outcome),
         load' = NoticedLoads(g), UNCHANGED serving,
         \A s \in marks.sessions : m.sessions[s] # NoSession,
         \A d \in marks.devices : m.devices[d] # NoDevice
  PROVE  MarkedRowsExist' /\ LoadsFromDatabase'
  <1>4. /\ mem'[g] = m /\ dirty'[g] \in {marks, Clean}
        /\ \A k \in Gateways : k # g => mem'[k] = mem[k] /\ dirty'[k] = dirty[k]
    BY DEF Save, TypeOK
  <1>1. MarkedRowsExist'
    BY <1>4 DEF MarkedRowsExist, Clean, Agreement
  <1>2. \A s \in Sessions : db.sessions[s] # NoSession => db'.sessions[s] # NoSession
    BY DEF Save, Upserted
  <1>3. ASSUME NEW k \in Gateways, NEW l \in Loaders
        PROVE  \/ k # g /\ load'[k][l] = load[k][l]
               \/ /\ k = g /\ load'[k][l].fresh = Empty
                  /\ load'[k][l].pc = "idle" \/ load'[k][l].moved
    BY DEF NoticedLoads, TypeOK
  <1> QED
    BY <1>1, <1>2, <1>3, <1>4 DEF LoadsFromDatabase, Agreement, Empty

\* Only sessions of other devices stay granted, everywhere.
LEMMA UngrantedFacts ==
  ASSUME NEW d \in Devices, NEW s \in Sessions, Ungranted(d)[s] # None
  PROVE  /\ Ungranted(d)[s] = granted[s]
         /\ db.sessions[s].device # d
         /\ \A g \in Gateways : mem[g].sessions[s].device # d
  BY DEF Ungranted, Copies

\* The device of a granted session is one.
LEMMA GrantedDevice ==
  ASSUME TypeOK, Agreement, NEW s \in Sessions, granted[s] # None
  PROVE  db.sessions[s].device \in Devices
  BY DEF Agreement, GrantAgreed, Active, TypeOK, Contents, SessionRecords, NoSession

\* A gateway that has the device of a granted session to save has it active.
LEMMA UnsavedIsActive ==
  ASSUME TypeOK, Agreement, NEW g \in Gateways, NEW s \in Sessions,
         granted[s] # None, db.sessions[s].device \in dirty[g].devices
  PROVE  mem[g].devices[db.sessions[s].device].status = "active"
  <1> DEFINE d == db.sessions[s].device
  <1>1. d \in Devices /\ mem[g].devices[d] \in DeviceRecords
    BY GrantedDevice DEF TypeOK, Contents
  <1>2. mem[g].devices[d] # NoDevice /\ mem[g].devices[d].status # "revoked"
    BY DEF Agreement, MarkedRowsExist, GrantAgreed, RevocationUnsaved
  <1> HIDE DEF d
  <1>3. \A row \in DeviceRecords : row = NoDevice \/ row.status \in {"active", "revoked"}
    BY DEF DeviceRecords
  <1> QED
    BY <1>1, <1>2, <1>3 DEF d

\* Live sessions have records.
LEMMA LiveExist ==
  ASSUME NEW m, NEW d
  PROVE  \A x \in LiveSessions(m, d) : x \in Sessions /\ m.sessions[x] # NoSession
  BY DEF LiveSessions, NoSession

\* A session that is ended keeps its record.
LEMMA EndedExist ==
  ASSUME NEW m \in Contents, NEW d \in Devices, NEW x \in Sessions,
         m.sessions[x] # NoSession
  PROVE  EndSessions(m, LiveSessions(m, d))[x] # NoSession
  <1>1. CASE x \in LiveSessions(m, d)
    <2>1. m.sessions[x] \in [device : Devices, status : {"active", "revoked"}]
      BY DEF Contents, SessionRecords
    <2>2. EndSessions(m, LiveSessions(m, d))[x].status = "revoked"
      BY <1>1, <2>1 DEF EndSessions
    <2> QED
      BY <2>2 DEF NoSession
  <1>2. CASE x \notin LiveSessions(m, d)
    BY <1>2 DEF EndSessions
  <1> QED
    BY <1>1, <1>2

\* The rows a gateway has to save exist, and its marks are rows.
LEMMA MarkFacts ==
  ASSUME TypeOK, Agreement, NEW g \in Gateways
  PROVE  /\ dirty[g].sessions \subseteq Sessions /\ dirty[g].devices \subseteq Devices
         /\ \A s \in dirty[g].sessions : mem[g].sessions[s] # NoSession
         /\ \A d \in dirty[g].devices : mem[g].devices[d] # NoDevice
  BY DEF TypeOK, Marks, Agreement, MarkedRowsExist

\* A sign-in ends the grants of its device and agrees on the new one.
LEMMA LoginAgrees ==
  ASSUME TypeOK, Agreement,
         NEW g \in Gateways, NEW i \in Installs, NEW d \in Devices,
         NEW s \in Sessions, Login(g, i, d, s)
  PROVE  Agreement'
  <1> DEFINE m == mem[g]
             ended == LiveSessions(m, d)
             after == [devices |-> [m.devices EXCEPT
                                      ![d] = [install |-> i, status |-> "active"]],
                       sessions |-> [EndSessions(m, ended) EXCEPT
                                       ![s] = [device |-> d, status |-> "active"]]]
             marks == Marked(g, TRUE, {d}, ended \cup {s})
  <1>1. m \in Contents /\ g \in serving
    BY DEF TypeOK, Login
  <1>2. /\ ended \subseteq Sessions
        /\ EndSessions(m, ended) \in [Sessions -> SessionRecords]
    BY <1>1, EndTypes
  <1>3. after \in Contents
    BY <1>1, <1>2 DEF Contents, DeviceRecords, SessionRecords
  <1>4. /\ marks \in Marks
        /\ marks.devices = dirty[g].devices \cup {d}
        /\ marks.sessions = dirty[g].sessions \cup ended \cup {s}
    BY <1>2, MarkTypes DEF Marked
  <1>5. PICK outcome \in SaveOutcomes :
          /\ Save(g, after, marks, outcome)
          /\ granted' = [Ungranted(d) EXCEPT ![s] = GrantedBy(g, d, outcome)]
          /\ load' = NoticedLoads(g) /\ UNCHANGED serving
    BY DEF Login
  <1>6. /\ db.sessions[s] = NoSession
        /\ \A k \in Gateways : mem[k].sessions[s] = NoSession
    BY DEF Login, UnusedSession, Copies
  <1>7. /\ \A x \in marks.sessions : after.sessions[x] # NoSession
        /\ \A e \in marks.devices : after.devices[e] # NoDevice
    <2>1. /\ \A x \in dirty[g].sessions : m.sessions[x] # NoSession
          /\ \A e \in dirty[g].devices : m.devices[e] # NoDevice
          /\ dirty[g].sessions \subseteq Sessions /\ dirty[g].devices \subseteq Devices
      BY MarkFacts
    <2>2. ASSUME NEW e \in marks.devices PROVE after.devices[e] # NoDevice
      BY <1>1, <1>4, <2>1, <2>2 DEF NoDevice, Contents
    <2>3. ASSUME NEW x \in marks.sessions PROVE after.sessions[x] # NoSession
      <3>1. CASE x = s
        BY <1>2, <3>1 DEF NoSession
      <3>2. CASE x # s
        <4>1. x \in Sessions /\ m.sessions[x] # NoSession
          BY <1>4, <2>1, <2>3, <3>2, LiveExist
        <4>2. after.sessions[x] = EndSessions(m, ended)[x]
          BY <1>2, <3>2
        <4> QED
          BY <1>1, <4>1, <4>2, EndedExist
      <3> QED
        BY <3>1, <3>2
    <2> QED
      BY <2>2, <2>3
  <1>8. MarkedRowsExist' /\ LoadsFromDatabase'
    <2> HIDE DEF m, after, marks
    <2> QED
      BY <1>1, <1>3, <1>4, <1>5, <1>7, WriteKeeps
  <1>9. ASSUME NEW x \in Sessions, x # s, granted'[x] # None
        PROVE  /\ GrantAgreed(x)'
               /\ \A l \in Loaders : GrantLoads(x, load[granted[x]][l])'
    <2>1. granted'[x] = Ungranted(d)[x]
      BY <1>5, <1>9 DEF Ungranted
    <2>2. /\ granted'[x] = granted[x] /\ granted[x] # None
          /\ db.sessions[x].device # d /\ m.sessions[x].device # d
      BY <2>1, <1>9, UngrantedFacts
    <2>3. /\ after.sessions[x] = m.sessions[x]
          /\ x \in marks.sessions => after.sessions[x] # NoSession
      BY <2>2, <1>2, <1>7, <1>9 DEF EndSessions, LiveSessions
    <2>4. LET e == db.sessions[x].device
          IN  /\ m.devices[e].status = "active" => after.devices[e].status = "active"
              /\ e \in marks.devices => after.devices[e].status = "active"
      BY <2>2, <1>1, <1>4, GrantedDevice, UnsavedIsActive DEF Contents
    <2> HIDE DEF m, after, marks
    <2> QED
      BY <1>1, <1>3, <1>4, <1>5, <2>2, <2>3, <2>4, WriteAgrees DEF m
  <1>10. ASSUME granted'[s] # None
         PROVE  /\ GrantAgreed(s)'
                /\ \A l \in Loaders : GrantLoads(s, load[granted[s]][l])'
    <2>1. /\ granted'[s] = g /\ outcome = "saved"
          /\ \A k \in Gateways : k # g => ~RevocationUnsaved(k, d)
      BY <1>5, <1>10 DEF Ungranted, GrantedBy
    <2>2. /\ after.sessions[s] = [device |-> d, status |-> "active"]
          /\ after.devices[d].status = "active"
      BY <1>1, <1>2 DEF Contents
    <2>3. /\ db'.sessions[s] = [device |-> d, status |-> "active"]
          /\ db'.devices[d].status = "active"
      BY <2>1, <2>2, <1>4, <1>5 DEF Save, Upserted
    <2>4. /\ mem'[g] = after /\ dirty'[g] = Clean
          /\ \A k \in Gateways : k # g => mem'[k] = mem[k] /\ dirty'[k] = dirty[k]
      BY <2>1, <1>5 DEF Save, TypeOK
    <2>8. \A k \in Gateways : ~RevocationUnsaved(k, db.sessions[s].device)'
      BY <2>1, <2>3, <2>4 DEF RevocationUnsaved, Clean
    <2>5. UsableDevice(g, s)' # None
      BY <2>2, <2>4, ClusterAssumption DEF UsableDevice
    <2>6. ASSUME NEW k \in Gateways
          PROVE  /\ SameRow(mem[k].sessions[s], s)'
                 /\ \A l \in Loaders : SameRow(load[k][l].fresh.sessions[s], s)'
      <3>1. \A l \in Loaders : load[k][l].fresh.sessions[s] = NoSession
        BY <1>6 DEF Agreement, LoadsFromDatabase
      <3>2. \A l \in Loaders : load'[k][l].fresh.sessions[s] = NoSession
        BY <3>1, <1>5 DEF NoticedLoads, Empty, TypeOK
      <3>3. SameRow(mem[k].sessions[s], s)'
        BY <1>6, <2>2, <2>3, <2>4 DEF SameRow
      <3> QED
        BY <3>2, <3>3 DEF SameRow
    <2>7. \A l \in Loaders : GrantLoads(s, load[g][l])'
      BY <1>5 DEF GrantLoads, NoticedLoads, TypeOK
    <2> QED
      BY <2>1, <2>2, <2>3, <2>4, <2>5, <2>6, <2>7, <2>8
         DEF GrantAgreed, Active
  <1> QED
    BY <1>8, <1>9, <1>10 DEF Agreement

\* A revocation ends the grants of its device.
LEMMA RevokeAgrees ==
  ASSUME TypeOK, Agreement,
         NEW g \in Gateways, NEW d \in Devices, Revoke(g, d)
  PROVE  Agreement'
  <1> DEFINE m == mem[g]
             ended == LiveSessions(m, d)
             after == [devices |-> [m.devices EXCEPT ![d].status = "revoked"],
                       sessions |-> EndSessions(m, ended)]
             marks == Marked(g, FALSE, {d}, ended)
  <1>1. m \in Contents /\ g \in serving
    BY DEF TypeOK, Revoke
  <1>2. /\ ended \subseteq Sessions
        /\ EndSessions(m, ended) \in [Sessions -> SessionRecords]
    BY <1>1, EndTypes
  <1>3. after \in Contents
    <2>1. m.devices[d] \in [install : Installs, status : {"active", "revoked"}]
      BY <1>1 DEF Revoke, Contents, DeviceRecords, NoDevice
    <2> QED
      BY <1>1, <1>2, <2>1 DEF Contents, DeviceRecords
  <1>4. /\ marks \in Marks
        /\ marks.devices = dirty[g].devices \cup {d}
        /\ marks.sessions = dirty[g].sessions \cup ended
    BY <1>2, MarkTypes DEF Marked
  <1>5. PICK outcome \in SaveOutcomes :
          /\ Save(g, after, marks, outcome) /\ granted' = Ungranted(d)
          /\ load' = NoticedLoads(g) /\ UNCHANGED serving
    BY DEF Revoke
  <1>6. /\ \A x \in marks.sessions : after.sessions[x] # NoSession
        /\ \A e \in marks.devices : after.devices[e] # NoDevice
    <2>1. /\ \A x \in dirty[g].sessions : m.sessions[x] # NoSession
          /\ \A e \in dirty[g].devices : m.devices[e] # NoDevice
          /\ dirty[g].sessions \subseteq Sessions /\ dirty[g].devices \subseteq Devices
      BY MarkFacts
    <2>2. ASSUME NEW e \in marks.devices PROVE after.devices[e] # NoDevice
      <3>1. m.devices[d] \in [install : Installs, status : {"active", "revoked"}]
        BY <1>1 DEF Revoke, Contents, DeviceRecords, NoDevice
      <3>2. CASE e = d
        <4>1. after.devices[e].status = "revoked"
          BY <1>1, <3>1, <3>2 DEF Contents
        <4> QED
          BY <4>1 DEF NoDevice
      <3>3. CASE e # d
        BY <1>1, <1>4, <2>1, <2>2, <3>3 DEF Contents
      <3> QED
        BY <3>2, <3>3
    <2>3. ASSUME NEW x \in marks.sessions PROVE after.sessions[x] # NoSession
      <3>1. x \in Sessions /\ m.sessions[x] # NoSession
        BY <1>4, <2>1, <2>3, LiveExist
      <3> QED
        BY <1>1, <3>1, EndedExist
    <2> QED
      BY <2>2, <2>3
  <1>7. MarkedRowsExist' /\ LoadsFromDatabase'
    <2> HIDE DEF m, after, marks
    <2> QED
      BY <1>1, <1>3, <1>4, <1>5, <1>6, WriteKeeps
  <1>8. ASSUME NEW x \in Sessions, granted'[x] # None
        PROVE  /\ GrantAgreed(x)'
               /\ \A l \in Loaders : GrantLoads(x, load[granted[x]][l])'
    <2>1. /\ granted'[x] = granted[x] /\ granted[x] # None
          /\ db.sessions[x].device # d /\ m.sessions[x].device # d
      BY <1>5, <1>8, UngrantedFacts
    <2>2. /\ after.sessions[x] = m.sessions[x]
          /\ x \in marks.sessions => after.sessions[x] # NoSession
      BY <2>1, <1>6 DEF EndSessions, LiveSessions
    <2>3. LET e == db.sessions[x].device
          IN  /\ m.devices[e].status = "active" => after.devices[e].status = "active"
              /\ e \in marks.devices => after.devices[e].status = "active"
      BY <2>1, <1>1, <1>4, GrantedDevice, UnsavedIsActive DEF Contents
    <2> HIDE DEF m, after, marks
    <2> QED
      BY <1>1, <1>3, <1>4, <1>5, <2>1, <2>2, <2>3, WriteAgrees DEF m
  <1> QED
    BY <1>7, <1>8 DEF Agreement

\* A use of a session writes rows that are active already.
LEMMA TouchAgrees ==
  ASSUME TypeOK, Agreement,
         NEW g \in Gateways, NEW s \in Sessions, Touch(g, s)
  PROVE  Agreement'
  <1> DEFINE m == mem[g]
             d == UsableDevice(g, s)
             marks == Marked(g, FALSE, {d}, {s})
  <1>1. m \in Contents /\ g \in serving
    BY DEF TypeOK, Touch
  <1>2. d \in Devices /\ m.devices[d].status = "active" /\ m.sessions[s] # NoSession
    <2>1. d # None
      BY DEF Touch
    <2>2. m.sessions[s].status = "active" /\ d = m.sessions[s].device
          /\ m.devices[d].status = "active"
      BY <2>1 DEF UsableDevice
    <2> QED
      BY <1>1, <2>2 DEF Contents, SessionRecords, NoSession
  <1>3. /\ marks \in Marks
        /\ marks.devices = dirty[g].devices \cup {d}
        /\ marks.sessions = dirty[g].sessions \cup {s}
    BY <1>2, MarkTypes DEF Marked
  <1>4. PICK outcome \in SaveOutcomes :
          /\ Save(g, m, marks, outcome) /\ UNCHANGED <<serving, granted>>
          /\ load' = NoticedLoads(g)
    BY DEF Touch
  <1>7. /\ \A x \in marks.sessions : m.sessions[x] # NoSession
        /\ \A e \in marks.devices : m.devices[e] # NoDevice
    <2>1. m.devices[d] # NoDevice
      BY <1>2 DEF NoDevice
    <2>2. /\ \A x \in dirty[g].sessions : m.sessions[x] # NoSession
          /\ \A e \in dirty[g].devices : m.devices[e] # NoDevice
      BY MarkFacts
    <2> QED
      BY <1>2, <1>3, <2>1, <2>2
  <1>8. ASSUME NEW x \in Sessions, granted[x] # None,
               db.sessions[x].device \in marks.devices
        PROVE  m.devices[db.sessions[x].device].status = "active"
    BY <1>2, <1>3, <1>8, UnsavedIsActive
  <1> HIDE DEF m, d, marks
  <1>5. MarkedRowsExist' /\ LoadsFromDatabase'
    BY <1>1, <1>3, <1>4, <1>7, WriteKeeps
  <1>6. ASSUME NEW x \in Sessions, granted'[x] # None
        PROVE  /\ GrantAgreed(x)'
               /\ \A l \in Loaders : GrantLoads(x, load[granted[x]][l])'
    BY <1>1, <1>3, <1>4, <1>6, <1>7, <1>8, WriteAgrees DEF m
  <1> QED
    BY <1>5, <1>6 DEF Agreement

\* A rewritten subscription writes the row of a session that is active already.
LEMMA RewriteAgrees ==
  ASSUME TypeOK, Agreement,
         NEW g \in Gateways, NEW s \in Sessions, RewriteSubscription(g, s)
  PROVE  Agreement'
  <1> DEFINE m == mem[g]
             marks == Marked(g, TRUE, {}, {s})
  <1>1. m \in Contents /\ g \in serving
    BY DEF TypeOK, RewriteSubscription
  <1>2. m.sessions[s] # NoSession
    BY DEF RewriteSubscription, UsableDevice, NoSession
  <1>3. /\ marks \in Marks
        /\ marks.devices = dirty[g].devices
        /\ marks.sessions = dirty[g].sessions \cup {s}
    BY MarkTypes DEF Marked
  <1>4. PICK outcome \in SaveOutcomes :
          /\ Save(g, m, marks, outcome) /\ UNCHANGED <<serving, granted>>
          /\ load' = NoticedLoads(g)
    BY DEF RewriteSubscription
  <1>7. /\ \A x \in marks.sessions : m.sessions[x] # NoSession
        /\ \A e \in marks.devices : m.devices[e] # NoDevice
    BY <1>2, <1>3, MarkFacts
  <1>8. ASSUME NEW x \in Sessions, granted[x] # None,
               db.sessions[x].device \in marks.devices
        PROVE  m.devices[db.sessions[x].device].status = "active"
    BY <1>3, <1>8, UnsavedIsActive
  <1> HIDE DEF m, marks
  <1>5. MarkedRowsExist' /\ LoadsFromDatabase'
    BY <1>1, <1>3, <1>4, <1>7, WriteKeeps
  <1>6. ASSUME NEW x \in Sessions, granted'[x] # None
        PROVE  /\ GrantAgreed(x)'
               /\ \A l \in Loaders : GrantLoads(x, load[granted[x]][l])'
    BY <1>1, <1>3, <1>4, <1>6, <1>7, <1>8, WriteAgrees DEF m
  <1> QED
    BY <1>5, <1>6 DEF Agreement

\* A refused sign-in marks the user and changes no row.
LEMMA RejectAgrees ==
  ASSUME TypeOK, Agreement, NEW g \in Gateways, NEW i \in Installs,
         RejectLogin(g, i)
  PROVE  Agreement'
  <1>1. /\ g \in serving /\ UNCHANGED <<db, mem, serving, granted>>
        /\ load' = NoticedLoads(g)
    BY DEF RejectLogin
  <1>6. \A k \in Gateways : /\ dirty'[k].sessions = dirty[k].sessions
                               /\ dirty'[k].devices = dirty[k].devices
    BY DEF RejectLogin, TypeOK, Marks
  <1>2. MarkedRowsExist'
    BY <1>1, <1>6 DEF MarkedRowsExist, Agreement
  <1>3. ASSUME NEW k \in Gateways, NEW l \in Loaders
        PROVE  \/ load'[k][l] = load[k][l]
               \/ /\ k = g /\ load'[k][l].fresh = Empty
                  /\ load'[k][l].pc = "idle" \/ load'[k][l].moved
    BY <1>1 DEF NoticedLoads, TypeOK
  <1>4. LoadsFromDatabase'
    BY <1>1, <1>3, <1>6 DEF LoadsFromDatabase, Agreement, Empty
  <1>5. ASSUME NEW x \in Sessions, granted'[x] # None
        PROVE  /\ GrantAgreed(x)'
               /\ \A l \in Loaders : GrantLoads(x, load[granted[x]][l])'
    <2>1. granted[x] \in Gateways /\ granted[x] # None
      BY <1>1, <1>5 DEF TypeOK
    <2>2. GrantAgreed(x)'
      BY <1>1, <1>3, <1>6, <2>1
         DEF Agreement, GrantAgreed, SameRow, Active, UsableDevice, Empty,
             RevocationUnsaved
    <2>3. ASSUME NEW l \in Loaders
          PROVE  GrantLoads(x, load[granted[x]][l])'
      <3>1. \/ load'[granted[x]][l] = load[granted[x]][l]
            \/ load'[granted[x]][l].pc = "idle" \/ load'[granted[x]][l].moved
        BY <1>3, <2>1
      <3>2. GrantLoads(x, load[granted[x]][l])
        BY <2>1 DEF Agreement
      <3> QED
        BY <1>1, <3>1, <3>2 DEF GrantLoads
    <2> QED
      BY <2>2, <2>3
  <1> QED
    BY <1>2, <1>4, <1>5 DEF Agreement

\* Starting a load, going on with it, and losing it keep the agreement: what it
\* reads is what the database has.
LEMMA LoadingAgrees ==
  ASSUME TypeOK, Agreement, NEW g \in Gateways, NEW l \in Loaders,
         LoadStart(g, l) \/ LoadSessions(g, l) \/ LoadFail(g, l)
  PROVE  Agreement'
  <1>1. /\ UNCHANGED <<db, mem, dirty, serving, granted>>
        /\ \A h \in Gateways, k \in Loaders :
             h # g \/ k # l => load'[h][k] = load[h][k]
    BY DEF LoadStart, LoadSessions, LoadFail, TypeOK
  <1> DEFINE ld == load[g][l]
             new == load'[g][l]
  <1>2. \/ new = NoLoad
        \/ new = [pc |-> "sessions", moved |-> FALSE,
                  fresh |-> [Empty EXCEPT !.devices = db.devices]]
        \/ /\ new.pc = "install" /\ ld.pc = "sessions"
           /\ ld.moved /\ new.moved /\ new.fresh = Empty
        \/ /\ new.pc = "install" /\ ld.pc = "sessions"
           /\ ~ld.moved /\ ~new.moved
           /\ new.fresh = [devices |-> ld.fresh.devices, sessions |-> db.sessions]
    <2>2. ld \in LoadRecords /\ db \in Contents
      BY DEF TypeOK
    <2>3. CASE LoadStart(g, l)
      BY <2>3 DEF LoadStart, TypeOK
    <2>4. CASE LoadSessions(g, l)
      <3>1. new = [pc |-> "install", moved |-> ld.moved,
                   fresh |-> IF ld.moved THEN Empty
                             ELSE [devices |-> ld.fresh.devices,
                                   sessions |-> db.sessions]]
        BY <2>4 DEF LoadSessions, TypeOK
      <3> QED
        BY <2>4, <2>2, <3>1 DEF LoadSessions, LoadRecords
    <2>5. CASE LoadFail(g, l)
      BY <2>5 DEF LoadFail, TypeOK
    <2> QED
      BY <2>3, <2>4, <2>5
  <1>3. MarkedRowsExist'
    BY <1>1 DEF MarkedRowsExist, Agreement
  <1>4. /\ new.pc = "idle" \/ new.moved => new.fresh.sessions = Empty.sessions
        /\ \A s \in Sessions : \/ new.fresh.sessions[s] = NoSession
                               \/ new.fresh.sessions[s] = db.sessions[s]
        /\ new.moved => ld.moved
        /\ new.pc # "idle" /\ ~new.moved =>
             dirty[g].sessions = {} /\ dirty[g].devices = {}
    <2>1. /\ new.moved => ld.moved
          /\ new.pc = "idle" \/ new.moved => new.fresh.sessions = Empty.sessions
          /\ \A s \in Sessions : \/ new.fresh.sessions[s] = NoSession
                                 \/ new.fresh.sessions[s] = db.sessions[s]
      BY <1>2 DEF NoLoad, Empty
    <2>2. CASE LoadStart(g, l)
      BY <2>1, <2>2 DEF LoadStart, Clean
    <2>3. CASE ~LoadStart(g, l)
      BY <2>1, <2>3, <1>2 DEF LoadStart, LoadSessions, LoadFail, NoLoad, Agreement,
                              LoadsFromDatabase, TypeOK
    <2> QED
      BY <2>2, <2>3
  <1>5. LoadsFromDatabase'
    BY <1>1, <1>4 DEF LoadsFromDatabase, Agreement
  <1>6. ASSUME NEW s \in Sessions, granted'[s] # None
        PROVE  /\ GrantAgreed(s)'
               /\ \A k \in Loaders : GrantLoads(s, load[granted[s]][k])'
    <2>1. /\ granted[s] # None /\ granted[s] \in Gateways
          /\ GrantAgreed(s)
          /\ \A k \in Loaders : GrantLoads(s, load[granted[s]][k])
      BY <1>1, <1>6 DEF Agreement, TypeOK
    <2>2. GrantAgreed(s)'
      BY <1>1, <1>4, <2>1 DEF GrantAgreed, SameRow, Active, UsableDevice,
                              RevocationUnsaved
    <2>3. ASSUME granted[s] = g PROVE GrantLoads(s, load[g][l])'
      <3>1. db.devices[db.sessions[s].device].status = "active"
        BY <2>1 DEF GrantAgreed, Active
      <3>2. ld.pc = "sessions" /\ ~ld.moved =>
              ld.fresh.devices[db.sessions[s].device].status = "active"
        BY <2>1, <2>3 DEF GrantLoads
      <3> QED
        BY <1>1, <1>2, <3>1, <3>2 DEF GrantLoads, NoLoad, Empty
    <2>4. ASSUME NEW k \in Loaders PROVE GrantLoads(s, load[granted[s]][k])'
      <3>1. CASE granted[s] = g /\ k = l
        BY <1>1, <2>3, <3>1
      <3>2. CASE ~(granted[s] = g /\ k = l)
        <4>1. load'[granted[s]][k] = load[granted[s]][k]
          BY <1>1, <2>1, <3>2
        <4> QED
          BY <1>1, <2>1, <4>1 DEF GrantLoads
      <3> QED
        BY <3>1, <3>2
    <2> QED
      BY <2>2, <2>4
  <1> QED
    BY <1>3, <1>5, <1>6 DEF Agreement

\* Installing a load keeps the agreement: a load that was not overtaken has
\* whatever its gateway granted, and one that was installs nothing.
LEMMA InstallAgrees ==
  ASSUME TypeOK, Agreement, NEW g \in Gateways, NEW l \in Loaders, Install(g, l)
  PROVE  Agreement'
  <1> DEFINE ld == load[g][l]
  <1>1. /\ UNCHANGED <<db, dirty, granted>> /\ serving' = serving \cup {g}
        /\ ld.pc = "install"
        /\ mem'[g] = IF ld.moved THEN mem[g] ELSE ld.fresh
        /\ \A h \in Gateways : h # g => mem'[h] = mem[h]
        /\ \A h \in Gateways, k \in Loaders :
             load'[h][k] = IF h = g /\ k = l THEN NoLoad ELSE load[h][k]
    BY DEF Install, TypeOK
  <1>5. ~ld.moved => dirty[g].sessions = {} /\ dirty[g].devices = {}
    BY <1>1 DEF Agreement, LoadsFromDatabase
  <1>2. MarkedRowsExist'
    BY <1>1, <1>5 DEF MarkedRowsExist, Agreement
  <1>3. LoadsFromDatabase'
    BY <1>1 DEF LoadsFromDatabase, Agreement, NoLoad, Empty
  <1>4. ASSUME NEW s \in Sessions, granted'[s] # None
        PROVE  /\ GrantAgreed(s)'
               /\ \A k \in Loaders : GrantLoads(s, load[granted[s]][k])'
    <2> DEFINE h == granted[s]
    <2>1. /\ h # None /\ h \in Gateways
          /\ GrantAgreed(s)
          /\ \A k \in Loaders : GrantLoads(s, load[h][k])
      BY <1>1, <1>4 DEF Agreement, TypeOK
    <2>2. Active(db', s)
      BY <1>1, <2>1 DEF GrantAgreed
    <2>3. \A k \in Gateways :
            /\ SameRow(mem[k].sessions[s], s)'
            /\ \A j \in Loaders : SameRow(load[k][j].fresh.sessions[s], s)'
            /\ ~RevocationUnsaved(k, db.sessions[s].device)'
      BY <1>1, <1>5, <2>1 DEF GrantAgreed, SameRow, NoLoad, Empty, RevocationUnsaved
    <2>4. ASSUME h \in serving'
          PROVE  mem'[h].sessions[s] = db'.sessions[s] /\ UsableDevice(h, s)' # None
      <3>1. CASE h # g
        BY <1>1, <2>1, <2>4, <3>1 DEF GrantAgreed, UsableDevice
      <3>2. CASE h = g /\ ld.moved
        <4>1. h \in serving
          BY <3>2, <2>1 DEF Agreement, LoadsFromDatabase
        <4> QED
          BY <4>1, <3>2, <1>1, <2>1 DEF GrantAgreed, UsableDevice
      <3>3. CASE h = g /\ ~ld.moved
        <4>1. /\ ld.fresh.devices[db.sessions[s].device].status = "active"
              /\ ld.fresh.sessions[s] = db.sessions[s]
          BY <3>3, <1>1, <2>1 DEF GrantLoads
        <4>2. mem'[h] = ld.fresh /\ db' = db
          BY <3>3, <1>1
        <4>3. db.sessions[s].device \in Devices /\ db.sessions[s].status = "active"
          BY <2>1, GrantedDevice DEF GrantAgreed, Active
        <4>4. db.sessions[s].device # None
          BY <4>3, ClusterAssumption
        <4>5. mem'[h].sessions[s] = db.sessions[s]
          BY <4>1, <4>2
        <4>6. mem'[h].devices[db.sessions[s].device].status = "active"
          BY <4>1, <4>2
        <4> QED
          BY <1>1, <4>2, <4>3, <4>4, <4>5, <4>6 DEF UsableDevice
      <3> QED
        BY <3>1, <3>2, <3>3
    <2>5. ASSUME NEW k \in Loaders PROVE GrantLoads(s, load[granted[s]][k])'
      <3>1. granted' = granted /\ db' = db
        BY <1>1
      <3>2. CASE load'[h][k] = NoLoad
        BY <3>1, <3>2 DEF GrantLoads, NoLoad
      <3>3. CASE load'[h][k] = load[h][k]
        BY <2>1, <3>1, <3>3 DEF GrantLoads
      <3> QED
        BY <1>1, <2>1, <3>2, <3>3
    <2> QED
      BY <1>1, <2>2, <2>3, <2>4, <2>5 DEF GrantAgreed
  <1> QED
    BY <1>2, <1>3, <1>4 DEF Agreement

\* A crash forgets what no granted session needs of the gateway.
LEMMA CrashAgrees ==
  ASSUME TypeOK, Agreement, NEW g \in Gateways, Crash(g)
  PROVE  Agreement'
  <1>1. /\ UNCHANGED <<db, granted>> /\ serving' = serving \ {g}
        /\ mem'[g] = Empty /\ dirty'[g] = Clean
        /\ \A h \in Gateways : h # g => /\ mem'[h] = mem[h]
                                        /\ dirty'[h] = dirty[h]
        /\ \A h \in Gateways, k \in Loaders :
             load'[h][k] = IF h = g THEN NoLoad ELSE load[h][k]
    BY DEF Crash, TypeOK
  <1>2. MarkedRowsExist'
    BY <1>1 DEF MarkedRowsExist, Agreement, Clean
  <1>3. LoadsFromDatabase'
    BY <1>1 DEF LoadsFromDatabase, Agreement, NoLoad, Empty
  <1>4. ASSUME NEW s \in Sessions, granted'[s] # None
        PROVE  /\ GrantAgreed(s)'
               /\ \A k \in Loaders : GrantLoads(s, load[granted[s]][k])'
    <2>1. /\ granted[s] # None /\ granted[s] \in Gateways
          /\ GrantAgreed(s)
          /\ \A k \in Loaders : GrantLoads(s, load[granted[s]][k])
      BY <1>1, <1>4 DEF Agreement, TypeOK
    <2>2. GrantAgreed(s)'
      BY <1>1, <2>1 DEF GrantAgreed, SameRow, Active, UsableDevice, NoLoad, Empty,
                        RevocationUnsaved, Clean
    <2>3. ASSUME NEW k \in Loaders PROVE GrantLoads(s, load[granted[s]][k])'
      <3>1. granted' = granted /\ db' = db
        BY <1>1
      <3>2. CASE load'[granted[s]][k] = NoLoad
        BY <3>1, <3>2 DEF GrantLoads, NoLoad
      <3>3. CASE load'[granted[s]][k] = load[granted[s]][k]
        BY <2>1, <3>1, <3>3 DEF GrantLoads
      <3> QED
        BY <1>1, <2>1, <3>2, <3>3
    <2> QED
      BY <2>2, <2>3
  <1> QED
    BY <1>2, <1>3, <1>4 DEF Agreement

\* The agreement holds at the start, and every step keeps it.
LEMMA Agreed == Spec => []Agreement
  <1>1. Init => Agreement
    BY DEF Init, Agreement, MarkedRowsExist, LoadsFromDatabase, Clean, NoLoad, Empty
  <1>2. TypeOK /\ Agreement /\ [Next]_vars => Agreement'
    <2> SUFFICES ASSUME TypeOK, Agreement, [Next]_vars PROVE Agreement'
      OBVIOUS
    <2>1. CASE UNCHANGED vars
      <3>1. MarkedRowsExist' /\ LoadsFromDatabase'
        BY <2>1 DEF vars, Agreement, MarkedRowsExist, LoadsFromDatabase
      <3>2. ASSUME NEW s \in Sessions, granted'[s] # None
            PROVE  /\ GrantAgreed(s)'
                   /\ \A l \in Loaders : GrantLoads(s, load[granted[s]][l])'
        <4>1. /\ GrantAgreed(s)
              /\ \A l \in Loaders : GrantLoads(s, load[granted[s]][l])
          BY <2>1, <3>2 DEF vars, Agreement
        <4>2. GrantAgreed(s)'
          BY <2>1, <4>1 DEF vars, GrantAgreed, SameRow, Active, UsableDevice,
                            RevocationUnsaved
        <4> QED
          BY <2>1, <4>1, <4>2 DEF vars, GrantLoads
      <3> QED
        BY <3>1, <3>2 DEF Agreement
    <2>2. ASSUME NEW g \in Gateways, Request(g) PROVE Agreement'
      BY <2>2, LoginAgrees, RejectAgrees, TouchAgrees, RewriteAgrees,
         RevokeAgrees DEF Request
    <2>3. ASSUME NEW g \in Gateways, NEW l \in Loaders, Load(g, l) PROVE Agreement'
      BY <2>3, LoadingAgrees, InstallAgrees DEF Load
    <2>4. ASSUME NEW g \in Gateways, Crash(g) PROVE Agreement'
      BY <2>4, CrashAgrees
    <2> QED
      BY <2>1, <2>2, <2>3, <2>4 DEF Next
  <1> QED
    BY <1>1, <1>2, TypeCorrect, PTL DEF Spec

\* A session that was handed out and ended by nobody, nor by a revocation still
\* to be saved, is in the database with its device, whatever the gateways save
\* from copies that are stale, and however saves end (saveLocked, SaveChanges).
THEOREM Durability == Spec => []GrantedDurable
  <1>1. Agreement => GrantedDurable
    BY DEF Agreement, GrantAgreed, GrantedDurable
  <1> QED
    BY <1>1, Agreed, PTL

\* ... and the gateway that handed it out accepts it while it serves, whatever
\* its loads read and whenever they end (syncPostgresLoop,
\* reloadFromPostgresOnMiss).
THEOREM Acceptance == Spec => []GrantedAccepted
  <1>1. TypeOK /\ Agreement => GrantedAccepted
    <2> SUFFICES ASSUME TypeOK, Agreement, NEW s \in Sessions,
                        granted[s] \in serving
                 PROVE  UsableDevice(granted[s], s) # None
      BY DEF GrantedAccepted
    <2>1. granted[s] # None
      BY ClusterAssumption DEF TypeOK
    <2> QED
      BY <2>1 DEF Agreement, GrantAgreed
  <1> QED
    BY <1>1, Agreed, TypeCorrect, PTL

============================================================================
