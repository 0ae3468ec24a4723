----------------------- MODULE BusinessFailoverProofs -----------------------
(***************************************************************************)
(* Proofs about the choice of the business backend, for any backends,      *)
(* routes, number of requests and settings.  The circuits are kept by      *)
(* every mark, whichever backend it is for; a request goes on only when it *)
(* is safe; and the lists that requests and the recovery checker work off  *)
(* are never empty while they are worked off.                              *)
(***************************************************************************)
EXTENDS BusinessFailover, ListProofs, TLAPS

----------------------------------------------------------------------------
(* The circuits *)

Circuits == states \in [Backends -> StateRecords] /\ ActiveInRotation

\* A success keeps the circuits: the backend it makes active has a closed one.
LEMMA SuccessKeepsCircuits ==
  ASSUME Circuits, NEW b, MarkSuccess(b)
  PROVE  Circuits'
  <1>1. Fresh \in StateRecords /\ Fresh.cool = 0 /\ Fresh.fails < Threshold
    BY FailoverAssumption DEF Fresh, StateRecords
  <1>2. states' \in [Backends -> StateRecords]
    BY <1>1 DEF MarkSuccess, Circuits
  <1>3. b \in Backends => states'[b] = Fresh
    BY DEF MarkSuccess, Circuits
  <1> QED
    BY <1>1, <1>2, <1>3 DEF MarkSuccess, Circuits, ActiveInRotation

\* A failure keeps the circuits: the circuit it opens is not the active one's.
LEMMA FailureKeepsCircuits ==
  ASSUME Circuits, NEW b, MarkFailure(b)
  PROVE  Circuits'
  <1> DEFINE fails == Lower(states[b].fails, Threshold)
             after == [fails |-> fails, votes |-> 0,
                       cool |-> IF fails = Threshold THEN Cooldown ELSE states[b].cool]
  <1>1. CASE b \in Backends
    <2>1. /\ states[b] \in StateRecords
          /\ Threshold \in Nat \ {0} /\ Cooldown \in Nat \ {0} /\ RecoveryVotes \in Nat \ {0}
      BY <1>1, FailoverAssumption DEF Circuits
    <2>2. fails \in 0..Threshold
      BY <2>1 DEF Lower, StateRecords
    <2>3. after \in StateRecords
      BY <2>1, <2>2 DEF StateRecords
    <2>4. states' = [states EXCEPT ![b] = after]
      BY DEF MarkFailure
    <2>5. states' \in [Backends -> StateRecords]
      BY <2>3, <2>4 DEF Circuits
    <2>6. ActiveInRotation'
      <3> SUFFICES ASSUME active' \in Backends
                   PROVE  states'[active'].cool = 0 /\ states'[active'].fails < Threshold
        BY DEF ActiveInRotation
      <3>1. active' = active
        BY FailoverAssumption DEF MarkFailure
      <3>2. states[active].cool = 0 /\ states[active].fails < Threshold
        BY <3>1 DEF Circuits, ActiveInRotation
      <3>3. CASE active = b
        <4>1. fails # Threshold
          BY <3>1, <3>3, <1>1, FailoverAssumption DEF MarkFailure
        <4>2. after.cool = 0 /\ after.fails < Threshold
          BY <2>1, <2>2, <3>2, <3>3, <4>1
        <4>3. states'[active'] = after
          BY <1>1, <2>4, <3>1, <3>3 DEF Circuits
        <4> QED
          BY <4>2, <4>3
      <3>4. CASE active # b
        BY <2>4, <3>1, <3>2, <3>4 DEF Circuits
      <3> QED
        BY <3>3, <3>4
    <2> QED
      BY <2>5, <2>6 DEF Circuits
  <1>2. CASE b \notin Backends
    <2>1. states' = states
      BY <1>2 DEF MarkFailure, Circuits
    <2> QED
      BY <2>1, FailoverAssumption DEF MarkFailure, Circuits, ActiveInRotation
  <1> QED
    BY <1>1, <1>2

\* Votes, the refresh of the list and time keep the circuits.
LEMMA OthersKeepCircuits ==
  ASSUME Circuits, CheckReject \/ CheckVote \/ RefreshSync \/ Tick
  PROVE  Circuits'
  <1> USE FailoverAssumption
  <1>1. CASE CheckReject
    <2> DEFINE c == Head(check.todo)
    <2>1. states' = [states EXCEPT ![c].votes = 0] /\ active' = active
      BY <1>1 DEF CheckReject
    <2>2. 0 \in 0..RecoveryVotes
      OBVIOUS
    <2> HIDE DEF c
    <2> QED
      BY <2>1, <2>2 DEF Circuits, ActiveInRotation, StateRecords
  <1>2. CASE CheckVote
    <2> DEFINE c == Head(check.todo)
               votes == Lower(states[c].votes, RecoveryVotes)
    <2>1. states' = [states EXCEPT ![c].votes = votes] /\ active' = active
      BY <1>2 DEF CheckVote
    <2>2. c \in Backends => votes \in 0..RecoveryVotes
      BY DEF Lower, Circuits, StateRecords
    <2> HIDE DEF votes
    <2> QED
      BY <2>1, <2>2 DEF Circuits, ActiveInRotation, StateRecords
  <1>3. CASE RefreshSync
    BY <1>3 DEF RefreshSync, Circuits, ActiveInRotation, StateRecords, Fresh
  <1>4. CASE Tick
    <2> DEFINE cooler(s) == [s EXCEPT !.cool = IF @ > 0 THEN @ - 1 ELSE 0]
    <2>1. \A b \in Backends : states'[b] = cooler(states[b]) /\ states[b] \in StateRecords
      BY <1>4 DEF Tick, Circuits
    <2>3. ASSUME NEW s \in StateRecords
          PROVE  /\ cooler(s) \in StateRecords
                 /\ cooler(s).fails = s.fails
                 /\ s.cool = 0 => cooler(s).cool = 0
      <3>1. s.cool \in 0..Cooldown /\ Cooldown \in Nat
        BY DEF StateRecords
      <3>2. (IF s.cool > 0 THEN s.cool - 1 ELSE 0) \in 0..Cooldown
        BY <3>1
      <3> QED
        BY <3>1, <3>2 DEF StateRecords
    <2> HIDE DEF cooler
    <2>2. \A b \in Backends :
            /\ states'[b] \in StateRecords
            /\ states'[b].fails = states[b].fails
            /\ states[b].cool = 0 => states'[b].cool = 0
      BY <2>1, <2>3
    <2>4. states' \in [Backends -> StateRecords]
      BY <1>4, <2>2 DEF Tick
    <2> QED
      BY <1>4, <2>2, <2>4 DEF Tick, Circuits, ActiveInRotation
  <1> QED
    BY <1>1, <1>2, <1>3, <1>4

\* The circuits are kept, always.
LEMMA CircuitsHold == Spec => []Circuits
  <1>1. Init => Circuits
    BY FailoverAssumption DEF Init, Circuits, ActiveInRotation, Fresh, StateRecords
  <1>2. Circuits /\ [Next]_vars => Circuits'
    <2> SUFFICES ASSUME Circuits, [Next]_vars PROVE Circuits'
      OBVIOUS
    <2>1. CASE UNCHANGED <<states, active>>
      BY <2>1 DEF Circuits, ActiveInRotation
    <2>2. ASSUME NEW r \in Requests, Succeed(r) PROVE Circuits'
      BY <2>2, SuccessKeepsCircuits DEF Succeed
    <2>3. ASSUME NEW r \in Requests, Fail(r) PROVE Circuits'
      BY <2>3, FailureKeepsCircuits DEF Fail
    <2>4. CASE CheckPromote
      BY <2>4, SuccessKeepsCircuits DEF CheckPromote
    <2> QED
      BY <2>1, <2>2, <2>3, <2>4, OthersKeepCircuits
         DEF vars, Next, Request, CheckStep, Environment, Start, Serve, Abort,
             CheckStart, CheckScan, CheckProbe, RefreshWrite, Change
  <1> QED
    BY <1>1, <1>2, PTL DEF Spec

\* The active backend is in rotation, whatever late answers, stale verdicts and
\* refreshes are applied (markBusinessSuccess, markBusinessFailure,
\* syncBusinessBackends).
THEOREM ActiveServes == Spec => []ActiveInRotation
  <1>1. Circuits => ActiveInRotation
    BY DEF Circuits
  <1> QED
    BY <1>1, CircuitsHold, PTL

----------------------------------------------------------------------------
(* The requests *)

\* The fields of a request; its list may hold anything.
Fields(q) == DOMAIN q = {"pc", "urls", "safe", "aborted", "sent"}

SentOnce(q) == Fields(q) /\ q.sent \in Nat /\ (~q.safe => q.sent <= 1)

Sendings == DOMAIN reqs = Requests /\ \A r \in Requests : SentOnce(reqs[r])

\* A request that may change state is sent to one backend at most
\* (tryBusinessURLs, safeBusinessRetry).
THEOREM SentToOne == Spec => []NeverReplayed
  <1>1. Init => Sendings
    BY DEF Init, Sendings, SentOnce, Fields, NoRequest
  <1>2. Sendings /\ [Next]_vars => Sendings'
    <2> SUFFICES ASSUME Sendings, [Next]_vars PROVE Sendings'
      OBVIOUS
    <2>1. CASE UNCHANGED reqs
      BY <2>1 DEF Sendings, SentOnce, Fields
    <2>2. ASSUME NEW r \in Requests, NEW q, SentOnce(q), reqs' = [reqs EXCEPT ![r] = q]
          PROVE  Sendings'
      BY <2>2 DEF Sendings
    <2>3. ASSUME NEW r \in Requests, NEW safe \in BOOLEAN, Start(r, safe)
          PROVE  Sendings'
      <3> DEFINE q == [pc |-> "sent", urls |-> BusinessURLs, safe |-> safe,
                       aborted |-> FALSE, sent |-> 1]
      <3>1. SentOnce(q)
        BY DEF SentOnce, Fields
      <3> QED
        BY <2>2, <2>3, <3>1 DEF Start
    <2>4. ASSUME NEW r \in Requests, Serve(r)
          PROVE  Sendings'
      <3> DEFINE q == [reqs[r] EXCEPT !.pc = IF answers[Head(reqs[r].urls)] # "none"
                                             THEN "answered" ELSE "failed"]
      <3>1. SentOnce(q)
        BY DEF Sendings, SentOnce, Fields
      <3>2. reqs' = [reqs EXCEPT ![r] = q]
        BY <2>4 DEF Serve
      <3> HIDE DEF q
      <3> QED
        BY <2>2, <3>1, <3>2
    <2>5. ASSUME NEW r \in Requests, Abort(r)
          PROVE  Sendings'
      <3> DEFINE q == [reqs[r] EXCEPT !.pc = "failed", !.aborted = TRUE]
      <3>1. SentOnce(q)
        BY DEF Sendings, SentOnce, Fields
      <3>2. reqs' = [reqs EXCEPT ![r] = q]
        BY <2>5 DEF Abort
      <3> HIDE DEF q
      <3> QED
        BY <2>2, <3>1, <3>2
    <2>6. SentOnce(NoRequest)
      BY DEF SentOnce, Fields, NoRequest
    <2>7. ASSUME NEW r \in Requests, Succeed(r)
          PROVE  Sendings'
      BY <2>2, <2>6, <2>7 DEF Succeed
    <2>8. ASSUME NEW r \in Requests, Fail(r)
          PROVE  Sendings'
      <3> DEFINE q == [reqs[r] EXCEPT !.pc = IF reqs[r].aborted THEN "failed" ELSE "sent",
                                      !.urls = Tail(@), !.sent = @ + 1]
      <3>1. CASE reqs[r].safe /\ Len(reqs[r].urls) > 1
        <4>1. SentOnce(q)
          <5>1. SentOnce(reqs[r]) /\ reqs[r].safe
            BY <3>1 DEF Sendings
          <5>2. Fields(q) /\ q.safe = reqs[r].safe /\ q.sent = reqs[r].sent + 1
            BY <5>1 DEF SentOnce, Fields
          <5>3. q.sent \in Nat
            BY <5>1, <5>2 DEF SentOnce
          <5> HIDE DEF q
          <5> QED
            BY <5>1, <5>2, <5>3 DEF SentOnce
        <4>2. reqs' = [reqs EXCEPT ![r] = q]
          BY <2>8, <3>1 DEF Fail
        <4> HIDE DEF q
        <4> QED
          BY <2>2, <4>1, <4>2
      <3>2. CASE ~(reqs[r].safe /\ Len(reqs[r].urls) > 1)
        <4>1. reqs' = [reqs EXCEPT ![r] = NoRequest]
          BY <2>8, <3>2 DEF Fail
        <4> QED
          BY <2>2, <2>6, <4>1
      <3> QED
        BY <3>1, <3>2
    <2>9. CASE Request
      BY <2>3, <2>4, <2>5, <2>7, <2>8, <2>9 DEF Request
    <2> QED
      BY <2>1, <2>9
         DEF vars, Next, CheckStep, Environment, CheckStart, CheckScan, CheckProbe,
             CheckReject, CheckVote, CheckPromote, RefreshWrite, RefreshSync, Tick, Change
  <1>3. Sendings => NeverReplayed
    BY DEF Sendings, SentOnce, NeverReplayed
  <1> QED
    BY <1>1, <1>2, <1>3, PTL DEF Spec

----------------------------------------------------------------------------
(* The lists *)

RequestOK(q) == q \in RequestRecords /\ (q.pc # "idle" => q.urls # <<>>)
RequestsOK == reqs \in [Requests -> RequestRecords] /\ \A r \in Requests : RequestOK(reqs[r])

CheckOK(c) ==
  /\ c \in CheckRecords
  /\ c.pc \in {"probing", "good", "bad", "promote"} => c.todo # <<>>

ChoiceOK == active \in Backends \cup {None} /\ held \in 0..MinHold

LEMMA TypeParts ==
  TypeOK <=> /\ answers \in [Backends -> Answers] /\ route \in Routes /\ unsynced \in BOOLEAN
             /\ states \in [Backends -> StateRecords]
             /\ ChoiceOK /\ CheckOK(check) /\ RequestsOK
  BY DEF TypeOK, ChoiceOK, CheckOK, RequestsOK, RequestOK

\* A request gets a list of backends with at least one in it (businessURLs).
LEMMA SomeURL == ASSUME TypeOK PROVE BusinessURLs \in Seq(Backends) \ {<<>>}
  <1> DEFINE first == IF active \in Range(route) /\ ~Cooling(active) THEN <<active>> ELSE <<>>
             rest == Filter(route, {b \in Backends \ {active} : ~Cooling(b)})
  <1>1. route \in Seq(Backends) /\ route # <<>>
    BY FailoverAssumption DEF TypeOK
  <1>2. first \in Seq(Backends)
    <2>1. Range(route) \subseteq Backends
      BY <1>1, RangeOfSeq
    <2> QED BY <2>1
  <1>3. rest \in Seq(Backends)
    BY <1>1, FilterProperties
  <1>4. first \o rest \in Seq(Backends)
    <2> HIDE DEF first, rest
    <2> QED BY <1>2, <1>3
  <1>5. <<route[1]>> \in Seq(Backends) \ {<<>>}
    BY <1>1
  <1> HIDE DEF rest
  <1> QED BY <1>4, <1>5 DEF BusinessURLs, rest

\* A request that goes on, or ends.
LEMMA OneRequest ==
  ASSUME RequestsOK, NEW r \in Requests, NEW q, RequestOK(q), reqs' = [reqs EXCEPT ![r] = q]
  PROVE  RequestsOK'
  BY DEF RequestsOK, RequestOK

\* What marking a backend does to the choice.
LEMMA MarksTyped ==
  ASSUME ChoiceOK, NEW b \in Backends, MarkSuccess(b) \/ MarkFailure(b) PROVE ChoiceOK'
  BY FailoverAssumption DEF ChoiceOK, MarkSuccess, MarkFailure

LEMMA LongTail ==
  ASSUME NEW S, NEW s \in Seq(S), Len(s) > 1 PROVE Tail(s) \in Seq(S) \ {<<>>}
  <1>1. Tail(s) \in Seq(S) /\ Len(Tail(s)) = Len(s) - 1
    BY HeadTailProperties, EmptySeq
  <1>2. Len(s) \in Nat /\ Len(s) - 1 # 0
    OBVIOUS
  <1>3. Len(<<>>) = 0
    BY EmptySeq
  <1> QED BY <1>1, <1>2, <1>3

\* A request that goes on to the rest of its list.
LEMMA Onwards ==
  ASSUME NEW q \in RequestRecords, NEW rest \in Seq(Backends)
  PROVE  LET next == [q EXCEPT !.pc = IF q.aborted THEN "failed" ELSE "sent",
                               !.urls = rest, !.sent = q.sent + 1]
         IN  next \in RequestRecords /\ next.urls = rest
  <1> DEFINE pc == IF q.aborted THEN "failed" ELSE "sent"
             sent == q.sent + 1
             next == [q EXCEPT !.pc = pc, !.urls = rest, !.sent = sent]
  <1>1. pc \in {"idle", "sent", "answered", "failed"} /\ sent \in Nat
    BY DEF RequestRecords
  <1> HIDE DEF pc, sent
  <1>2. next \in RequestRecords
    BY <1>1 DEF RequestRecords
  <1>3. next.urls = rest
    BY DEF RequestRecords
  <1> QED BY <1>2, <1>3 DEF pc, sent

\* A request is typed before and after each of its steps.
LEMMA RequestTyped ==
  ASSUME TypeOK, NEW r \in Requests, NEW safe \in BOOLEAN,
         Start(r, safe) \/ Serve(r) \/ Abort(r) \/ Succeed(r) \/ Fail(r)
  PROVE  RequestsOK' /\ (Succeed(r) \/ Fail(r) => ChoiceOK')
  <1>1. RequestsOK /\ ChoiceOK /\ RequestOK(reqs[r]) /\ RequestOK(NoRequest)
    BY TypeParts DEF RequestsOK, RequestOK, NoRequest, RequestRecords
  <1>2. ASSUME reqs[r].pc # "idle"
        PROVE  Head(reqs[r].urls) \in Backends /\ Tail(reqs[r].urls) \in Seq(Backends)
    BY <1>1, <1>2 DEF RequestOK, RequestRecords
  <1>3. CASE Start(r, safe)
    <2> DEFINE q == [pc |-> "sent", urls |-> BusinessURLs, safe |-> safe,
                     aborted |-> FALSE, sent |-> 1]
    <2>1. RequestOK(q)
      BY SomeURL DEF RequestOK, RequestRecords
    <2>2. reqs' = [reqs EXCEPT ![r] = q] /\ reqs[r].pc = "idle"
      BY <1>3 DEF Start
    <2>3. ~Succeed(r) /\ ~Fail(r)
      BY <2>2 DEF Succeed, Fail
    <2> HIDE DEF q
    <2> QED BY <1>1, <2>1, <2>2, <2>3, OneRequest
  <1>4. CASE Serve(r)
    <2> DEFINE q == [reqs[r] EXCEPT !.pc = IF answers[Head(reqs[r].urls)] # "none"
                                           THEN "answered" ELSE "failed"]
    <2>1. RequestOK(q)
      BY <1>1, <1>4 DEF Serve, RequestOK, RequestRecords
    <2>2. reqs' = [reqs EXCEPT ![r] = q] /\ reqs[r].pc = "sent"
      BY <1>4 DEF Serve
    <2>3. ~Succeed(r) /\ ~Fail(r)
      BY <2>2 DEF Succeed, Fail
    <2> HIDE DEF q
    <2> QED BY <1>1, <2>1, <2>2, <2>3, OneRequest
  <1>5. CASE Abort(r)
    <2> DEFINE q == [reqs[r] EXCEPT !.pc = "failed", !.aborted = TRUE]
    <2>1. RequestOK(q)
      BY <1>1, <1>5 DEF Abort, RequestOK, RequestRecords
    <2>2. reqs' = [reqs EXCEPT ![r] = q] /\ reqs[r].pc = "sent"
      BY <1>5 DEF Abort
    <2>3. ~Succeed(r) /\ ~Fail(r)
      BY <2>2 DEF Succeed, Fail
    <2> HIDE DEF q
    <2> QED BY <1>1, <2>1, <2>2, <2>3, OneRequest
  <1>6. CASE Succeed(r)
    BY <1>1, <1>2, <1>6, OneRequest, MarksTyped DEF Succeed
  <1>7. CASE Fail(r)
    <2> DEFINE q == [reqs[r] EXCEPT !.pc = IF reqs[r].aborted THEN "failed" ELSE "sent",
                                    !.urls = Tail(@), !.sent = @ + 1]
    <2>1. CASE reqs[r].safe /\ Len(reqs[r].urls) > 1
      <3>1. reqs[r].urls \in Seq(Backends) /\ reqs[r].urls # <<>>
        BY <1>1, <1>7 DEF Fail, RequestOK, RequestRecords
      <3>2. Tail(reqs[r].urls) \in Seq(Backends) \ {<<>>}
        BY <2>1, <3>1, LongTail
      <3>3. RequestOK(q)
        <4>1. reqs[r] \in RequestRecords
          BY <1>1 DEF RequestOK
        <4>2. q \in RequestRecords /\ q.urls = Tail(reqs[r].urls)
          BY <3>2, <4>1, Onwards
        <4> HIDE DEF q
        <4> QED BY <3>2, <4>2 DEF RequestOK
      <3>4. reqs' = [reqs EXCEPT ![r] = q]
        BY <1>7, <2>1 DEF Fail
      <3> HIDE DEF q
      <3> QED BY <1>1, <1>2, <1>7, <3>3, <3>4, OneRequest, MarksTyped DEF Fail
    <2>2. CASE ~(reqs[r].safe /\ Len(reqs[r].urls) > 1)
      <3>1. reqs' = [reqs EXCEPT ![r] = NoRequest]
        BY <1>7, <2>2 DEF Fail
      <3> QED BY <1>1, <1>2, <1>7, <3>1, OneRequest, MarksTyped DEF Fail
    <2> QED BY <2>1, <2>2
  <1> QED BY <1>3, <1>4, <1>5, <1>6, <1>7

\* The backends above the active one, which the checker works off.
LEMMA AboveTyped == ASSUME TypeOK PROVE SubSeq(route, 1, Above(active)) \in Seq(Backends)
  <1> DEFINE I == {i \in 1..Len(route) : route[i] = active}
  <1>1. route \in Seq(Backends)
    BY FailoverAssumption DEF TypeOK
  <1>2. I \in SUBSET Nat
    BY <1>1
  <1>3. Above(active) \in (0..Len(route)) \cup {-1}
    <2>1. Above(active) = (IF I # {} THEN Min(I) ELSE 0) - 1
      BY DEF Above, SelectInSeq
    <2>2. I # {} => Min(I) \in 1..Len(route)
      BY <1>2, MinLeast
    <2> HIDE DEF I
    <2> QED BY <1>1, <2>1, <2>2
  <1>4. \A i \in 1..Above(active) : route[i] \in Backends
    BY <1>1, <1>3
  <1> QED BY <1>3, <1>4, SubSeqProperties

\* The recovery checker probes and promotes the first backend of its list.
LEMMA CheckTyped ==
  ASSUME TypeOK, CheckStart \/ CheckStep
  PROVE  CheckOK(check') /\ (CheckPromote => Head(check.todo) \in Backends)
  <1>1. CheckOK(check) /\ held \in 0..MinHold /\ MinHold \in Nat
    BY TypeParts, FailoverAssumption DEF ChoiceOK
  <1>2. check.todo # <<>> => Head(check.todo) \in Backends /\ Tail(check.todo) \in Seq(Backends)
    BY <1>1 DEF CheckOK, CheckRecords
  <1>3. CheckPromote => Head(check.todo) \in Backends
    BY <1>1, <1>2 DEF CheckPromote, CheckOK
  <1>4. CheckOK(NoCheck)
    BY <1>1 DEF CheckOK, CheckRecords, NoCheck
  <1>5. CASE CheckStart
    BY <1>1, <1>5, AboveTyped DEF CheckStart, CheckPromote, CheckOK, CheckRecords
  <1>6. CASE CheckScan
    BY <1>1, <1>2, <1>4, <1>6 DEF CheckScan, CheckPromote, CheckOK, CheckRecords
  <1>7. CASE CheckProbe \/ CheckReject
    BY <1>1, <1>2, <1>7 DEF CheckProbe, CheckReject, CheckPromote, CheckOK, CheckRecords
  <1>8. CASE CheckVote \/ CheckPromote
    BY <1>1, <1>3, <1>4, <1>8 DEF CheckVote, CheckPromote, CheckOK, CheckRecords
  <1> QED BY <1>3, <1>5, <1>6, <1>7, <1>8 DEF CheckStep

\* Every variable has its type: what is sent to, probed, marked or promoted is a
\* backend of a list that is not empty, also when the configured list changed
\* meanwhile (businessURLs, tryBusinessURLs, checkBusinessRecovery).
THEOREM TypeCorrect == Spec => []TypeOK
  <1>1. Init => TypeOK
    <2>1. Fresh \in StateRecords
      BY FailoverAssumption DEF Fresh, StateRecords
    <2>2. CheckOK(NoCheck)
      BY FailoverAssumption DEF CheckOK, CheckRecords, NoCheck
    <2>3. RequestOK(NoRequest)
      BY DEF RequestOK, RequestRecords, NoRequest
    <2>4. Init => ChoiceOK /\ CheckOK(check) /\ RequestsOK
      BY <2>2, <2>3, FailoverAssumption DEF Init, ChoiceOK, RequestsOK, RequestOK
    <2>5. Init => answers \in [Backends -> Answers]
      BY DEF Init, Answers
    <2> QED BY <2>1, <2>4, <2>5, TypeParts DEF Init
  <1>2. TypeOK /\ ActiveInRotation /\ Circuits' /\ [Next]_vars => TypeOK'
    <2> SUFFICES ASSUME TypeOK, Circuits', [Next]_vars PROVE TypeOK'
      OBVIOUS
    <2>1. /\ answers \in [Backends -> Answers] /\ route \in Routes /\ unsynced \in BOOLEAN
          /\ ChoiceOK /\ CheckOK(check) /\ RequestsOK /\ MinHold \in Nat
          /\ states' \in [Backends -> StateRecords]
      BY TypeParts, FailoverAssumption DEF Circuits
    <2>2. ASSUME answers' \in [Backends -> Answers], route' \in Routes, unsynced' \in BOOLEAN,
                 ChoiceOK', CheckOK(check'), RequestsOK'
          PROVE  TypeOK'
      BY <2>1, <2>2 DEF TypeOK, ChoiceOK, CheckOK, RequestsOK, RequestOK
    <2>3. CASE UNCHANGED vars
      BY <2>1, <2>2, <2>3 DEF vars, ChoiceOK, RequestsOK, RequestOK
    <2>4. CASE Request
      <3>1. PICK r \in Requests, safe \in BOOLEAN :
              Start(r, safe) \/ Serve(r) \/ Abort(r) \/ Succeed(r) \/ Fail(r)
        BY <2>4 DEF Request
      <3>2. RequestsOK' /\ (Succeed(r) \/ Fail(r) => ChoiceOK')
        BY <3>1, RequestTyped
      <3> QED BY <2>1, <2>2, <3>1, <3>2 DEF Start, Serve, Abort, Succeed, Fail, ChoiceOK
    <2>5. CASE CheckStart \/ CheckStep
      <3>1. CheckOK(check') /\ (CheckPromote => Head(check.todo) \in Backends)
        BY <2>5, CheckTyped
      <3>2. ChoiceOK'
        BY <2>1, <2>5, <3>1, MarksTyped
           DEF CheckStart, CheckStep, CheckScan, CheckProbe, CheckReject, CheckVote,
               CheckPromote, ChoiceOK
      <3>3. RequestsOK' /\ UNCHANGED <<answers, route, unsynced>>
        BY <2>1, <2>5
           DEF CheckStart, CheckStep, CheckScan, CheckProbe, CheckReject, CheckVote,
               CheckPromote, RequestsOK, RequestOK
      <3> QED BY <2>1, <2>2, <3>1, <3>2, <3>3
    <2>6. CASE Environment
      <3>1. RequestsOK'
        BY <2>1, <2>6 DEF Environment, RefreshWrite, RefreshSync, Tick, Change,
                          RequestsOK, RequestOK
      <3>2. ChoiceOK'
        BY <2>1, <2>6 DEF Environment, RefreshWrite, RefreshSync, Tick, Change,
                          ChoiceOK, Lower
      <3>3. CheckOK(check')
        BY <2>1, <2>6 DEF Environment, RefreshWrite, RefreshSync, Tick, Change,
                          CheckOK, CheckRecords, Lower
      <3>4. answers' \in [Backends -> Answers] /\ route' \in Routes /\ unsynced' \in BOOLEAN
        BY <2>1, <2>6 DEF Environment, RefreshWrite, RefreshSync, Tick, Change
      <3> QED BY <2>2, <3>1, <3>2, <3>3, <3>4
    <2> QED BY <2>3, <2>4, <2>5, <2>6 DEF Next
  <1>3. TypeOK /\ ActiveInRotation => Circuits
    BY DEF TypeOK, Circuits
  <1>4. Circuits => ActiveInRotation
    BY DEF Circuits
  <1> QED BY <1>1, <1>2, <1>3, <1>4, CircuitsHold, PTL DEF Spec

============================================================================
