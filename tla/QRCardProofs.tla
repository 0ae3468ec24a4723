---------------------------- MODULE QRCardProofs ----------------------------
(***************************************************************************)
(* Proofs about the sign-in by QR code and the card that shows it, for any *)
(* number of challenges, phones, polls and overlapping calls of _create.   *)
(* First the gateway: what the status of a challenge tells of the approval *)
(* that holds it.  Then that the card only ever does to the gateway what a *)
(* target may do, so that what is proved of the gateway holds with the     *)
(* card.  Then that no code that can be approved is lost, from an          *)
(* invariant that says that a call of _create on its way to a new code has *)
(* had the old one cancelled, unless it replaces one that is marked        *)
(* expired.                                                                *)
(***************************************************************************)
EXTENDS QRCard, TLAPS

-----------------------------------------------------------------------------
(* The gateway *)

Holds(a, c) == approvals[a].pc # "idle" /\ approvals[a].challenge = c

\* What is known of challenge c: only a challenge being authorized, or forgotten
\* meanwhile, is held; the counts follow its status and its holder.
Settled(c) ==
  /\ status[c] \in {"unborn", "pending"} => admitted[c] = 0
  /\ status[c] \in {"approved", "consumed"} => admitted[c] = 1
  /\ status[c] \in {"unborn", "pending", "authorizing", "approved", "failed"} =>
       delivered[c] = 0
  /\ delivered[c] <= admitted[c] /\ admitted[c] <= 1
  /\ c \in cancelled => status[c] = "gone" /\ admitted[c] = 0

Held(a, c) ==
  Holds(a, c) =>
    /\ status[c] \in {"authorizing", "gone"}
    /\ c \notin cancelled
    /\ approvals[a].pc \in {"fetch", "admit"} => admitted[c] = 0
    /\ approvals[a].pc = "approved" => admitted[c] = 1
    /\ delivered[c] = 0
    /\ \A b \in Approvals : Holds(b, c) => b = a

Inv ==
  /\ TypeOK
  /\ \A c \in Challenges : Settled(c)
  /\ \A a \in Approvals, c \in Challenges : Held(a, c)

\* The invariant holds at the start.
LEMMA InitInv == Init => Inv
  BY QRAssumption DEF Init, Inv, TypeOK, Statuses, NoApproval, Settled, Held, Holds

\* The target's requests, and time, keep the invariant.
LEMMA TargetInv ==
  ASSUME Inv, NEW c \in Challenges, Create(c) \/ Poll(c) \/ Cancel(c) \/ Expire(c)
  PROVE  Inv'
  <1>1. TypeOK'
    BY DEF Create, Poll, Cancel, Expire, Inv, TypeOK, Statuses, Stored
  <1>2. approvals' = approvals /\ admitted' = admitted
    BY DEF Create, Poll, Cancel, Expire
  <1>3. ASSUME NEW d \in Challenges PROVE Settled(d)'
    BY DEF Create, Poll, Cancel, Expire, Inv, TypeOK, Statuses, Stored, Settled,
           Held, Holds
  <1>4. ASSUME NEW a \in Approvals, NEW d \in Challenges PROVE Held(a, d)'
    BY DEF Create, Poll, Cancel, Expire, Inv, TypeOK, Statuses, Stored, Held, Holds
  <1> QED
    BY <1>1, <1>3, <1>4 DEF Inv

\* Taking a challenge up keeps the invariant: it was pending, so nobody held it.
LEMMA ApproveInv ==
  ASSUME Inv, NEW a \in Approvals, NEW c \in Challenges, Approve(a, c)
  PROVE  Inv'
  <1>1. TypeOK'
    BY DEF Approve, Inv, TypeOK, Statuses
  <1>2. \A b \in Approvals : ~Holds(b, c)
    BY DEF Approve, Inv, Held
  <1>3. ASSUME NEW d \in Challenges PROVE Settled(d)'
    BY DEF Approve, Inv, TypeOK, Settled
  <1>4. ASSUME NEW b \in Approvals, NEW d \in Challenges PROVE Held(b, d)'
    BY <1>2 DEF Approve, Inv, TypeOK, Settled, Held, Holds
  <1> QED
    BY <1>1, <1>3, <1>4 DEF Inv

\* Every step of an approval keeps the invariant.
LEMMA ApprovalInv ==
  ASSUME Inv, NEW a \in Approvals, ApprovalStep(a)
  PROVE  Inv'
  <1> DEFINE c == approvals[a].challenge
  <1>1. c \in Challenges /\ Holds(a, c) /\ Held(a, c) /\ Settled(c)
    BY DEF ApprovalStep, Fetch, Admit, Finish, Inv, TypeOK, Holds
  <1>2. CASE Fetch(a)
    <2>1. TypeOK'
      BY <1>2 DEF Fetch, Inv, TypeOK
    <2>2. \A d \in Challenges : Settled(d)'
      BY <1>2 DEF Fetch, Inv, Settled
    <2>3. ASSUME NEW b \in Approvals, NEW d \in Challenges PROVE Held(b, d)'
      BY <1>2 DEF Fetch, Inv, TypeOK, Held, Holds
    <2> QED
      BY <2>1, <2>2, <2>3 DEF Inv
  <1>3. CASE Admit(a)
    <2>1. admitted[c] = 0 /\ delivered[c] = 0 /\ c \notin cancelled
          /\ status[c] \in {"authorizing", "gone"}
      BY <1>1, <1>3 DEF Admit, Held
    <2>2. TypeOK'
      BY <1>1, <1>3, <2>1 DEF Admit, Inv, TypeOK
    <2>3. ASSUME NEW d \in Challenges PROVE Settled(d)'
      BY <1>1, <1>3, <2>1 DEF Admit, Inv, TypeOK, Settled
    <2>4. ASSUME NEW b \in Approvals, NEW d \in Challenges PROVE Held(b, d)'
      BY <1>1, <1>3, <2>1 DEF Admit, Inv, TypeOK, Held, Holds
    <2> QED
      BY <2>2, <2>3, <2>4 DEF Inv
  <1>4. CASE Finish(a)
    <2>1. TypeOK'
      BY <1>1, <1>4 DEF Finish, Inv, TypeOK, Statuses, NoApproval
    <2>2. ASSUME NEW d \in Challenges PROVE Settled(d)'
      BY <1>1, <1>4 DEF Finish, Inv, TypeOK, Statuses, Stored, Settled, Held
    <2>3. ASSUME NEW b \in Approvals, NEW d \in Challenges PROVE Held(b, d)'
      BY <1>1, <1>4, QRAssumption
         DEF Finish, Inv, TypeOK, Statuses, Stored, NoApproval, Held, Holds
    <2> QED
      BY <2>1, <2>2, <2>3 DEF Inv
  <1> QED
    BY <1>2, <1>3, <1>4 DEF ApprovalStep

\* A restart keeps the invariant.
LEMMA RestartInv ==
  ASSUME Inv, Restart
  PROVE  Inv'
  BY DEF Restart, Inv, TypeOK, Statuses, NoApproval, Stored, Settled, Held, Holds

\* The invariant always holds.
THEOREM Invariance == Spec => []Inv
  <1>1. Inv /\ [Next]_vars => Inv'
    <2> SUFFICES ASSUME Inv, [Next]_vars PROVE Inv'
      OBVIOUS
    <2>1. CASE UNCHANGED vars
      BY <2>1 DEF vars, Inv, TypeOK, Settled, Held, Holds
    <2>2. CASE Next
      BY <2>2, TargetInv, ApproveInv, ApprovalInv, RestartInv DEF Next
    <2> QED
      BY <2>1, <2>2
  <1> QED
    BY InitInv, <1>1, PTL DEF Spec

\* Every variable has its type: a challenge goes through the statuses of the
\* code only, and an approval through its steps (main.go:86-100).
THEOREM TypeCorrect == Spec => []TypeOK
  <1>1. Inv => TypeOK
    BY DEF Inv
  <1> QED
    BY <1>1, Invariance, PTL

\* A challenge admits its target once at most, whatever phones, polls, expiry,
\* failures and restarts come in between (handleQRApprove).
THEOREM OneAdmissionEach == Spec => []OneAdmission
  <1>1. Inv => OneAdmission
    BY DEF Inv, Settled, OneAdmission
  <1> QED
    BY <1>1, Invariance, PTL

\* The token is given out once at most, for an admission (handleQRPoll).
THEOREM OneDeliveryEach == Spec => []OneDelivery
  <1>1. Inv => OneDelivery
    BY DEF Inv, Settled, OneDelivery
  <1> QED
    BY <1>1, Invariance, PTL

\* A cancelled challenge admits nobody, then or later (handleQRCancel).
THEOREM CancellationHolds == Spec => []CancelledAdmitsNobody
  <1>1. Inv => CancelledAdmitsNobody
    BY DEF Inv, TypeOK, Settled, CancelledAdmitsNobody
  <1> QED
    BY <1>1, Invariance, PTL

-----------------------------------------------------------------------------
(* The card *)

\* What a call of _create remembers is a challenge of this card.
OldIsMine ==
  \A j \in Creates :
    /\ creates[j].old \in mine \cup {None}
    /\ creates[j].pc = "created" => creates[j].new \in mine
    /\ creates[j].pc = "cancel" => creates[j].old # None

CallInv == CardTypeOK /\ OldIsMine

otherVars == <<cardVars, callVars, mine, left, threw>>

\* A call of _create remembers the challenge on the card.
LEMMA StartTyped ==
  ASSUME CallInv, NEW j \in Creates, NEW i \in BOOLEAN, Start(j, i),
         UNCHANGED <<mine, left, threw, mounted, polls, signing>>,
         timers' \in BOOLEAN, enabled' \in BOOLEAN
  PROVE  CallInv'
  <1>1. creates[j].pc = "idle" /\ shown \in mine \cup {None}
    BY DEF CallInv, CardTypeOK, Start
  <1>2. marked' \in BOOLEAN /\ loading' \in BOOLEAN /\ shown' \in mine \cup {None}
    BY <1>1 DEF CallInv, CardTypeOK, Start
  <1>3. (shown \in expired) \in BOOLEAN /\ shown \in Challenges \cup {None}
    BY <1>1 DEF CallInv, CardTypeOK
  <1>4. CardTypeOK'
    <2> DEFINE e == [NoCreate EXCEPT !.pc = IF i /\ shown # None THEN "cancel" ELSE "create",
                                     !.old = shown, !.late = shown \in expired, !.refresh = i]
    <2>1. e \in [pc : {"cancel", "create"}, old : Challenges \cup {None}, late : BOOLEAN,
                 refresh : BOOLEAN, dropped : BOOLEAN, new : Challenges \cup {None}]
      BY <1>3 DEF NoCreate
    <2>2. creates' = [creates EXCEPT ![j] = e]
      BY DEF Start
    <2> HIDE DEF e
    <2> QED
      <3>1. creates' \in CreateCalls
        BY <2>1, <2>2 DEF CallInv, CardTypeOK, CreateCalls
      <3>2. Booleans'
        BY <1>2 DEF CallInv, CardTypeOK, Booleans
      <3> QED
        BY <1>2, <3>1, <3>2 DEF CallInv, CardTypeOK
  <1>5. OldIsMine'
    BY <1>1 DEF CallInv, CardTypeOK, OldIsMine, Start, NoCreate
  <1> QED
    BY <1>4, <1>5 DEF CallInv

\* Every step of a call of _create keeps the types.
LEMMA CreateTyped ==
  ASSUME CallInv, NEW j \in Creates, CreateStep(j)
  PROVE  CallInv'
  <1>1. CASE CancelArrives(j)
    BY <1>1 DEF CallInv, CardTypeOK, CreateCalls, Booleans, OldIsMine, CancelArrives, cardVars
  <1>2. CASE CancelFails(j)
    BY <1>2 DEF CallInv, CardTypeOK, CreateCalls, Booleans, OldIsMine, CancelFails, cardVars
  <1>3. CASE Cancelled(j)
    <2>1. Booleans'
      BY <1>3 DEF CallInv, CardTypeOK, Booleans, Cancelled
    <2>2. creates' \in CreateCalls
      BY <1>3 DEF CallInv, CardTypeOK, CreateCalls, Cancelled
    <2>3. left' \subseteq mine /\ shown' = None
      BY <1>3 DEF CallInv, CardTypeOK, Cancelled, Show
    <2>4. OldIsMine'
      BY <1>3 DEF CallInv, CardTypeOK, CreateCalls, OldIsMine, Cancelled
    <2> QED
      BY <1>3, <2>1, <2>2, <2>3, <2>4 DEF CallInv, CardTypeOK, Cancelled
  <1>4. CASE CreateFails(j)
    BY <1>4 DEF CallInv, CardTypeOK, CreateCalls, Booleans, OldIsMine, CreateFails, cardVars
  <1>5. CASE Created(j)
    <2>1. Booleans'
      <3>1. loading' = FALSE /\ timers' = TRUE /\ marked' = (creates[j].new \in expired)
            /\ UNCHANGED <<enabled, mounted>>
        BY <1>5 DEF Created
      <3>2. (creates[j].new \in expired) \in BOOLEAN
        OBVIOUS
      <3> QED
        BY <3>1, <3>2 DEF CallInv, CardTypeOK, Booleans
    <2>2. creates' \in CreateCalls
      BY <1>5 DEF CallInv, CardTypeOK, CreateCalls, Created, NoCreate
    <2>3. left' \subseteq mine /\ shown' \in mine
      BY <1>5 DEF CallInv, CardTypeOK, OldIsMine, Created
    <2>4. OldIsMine'
      BY <1>5 DEF CallInv, CardTypeOK, OldIsMine, Created, NoCreate
    <2> QED
      BY <1>5, <2>1, <2>2, <2>3, <2>4 DEF CallInv, CardTypeOK, Created
  <1>6. CASE CreateFailed(j)
    BY <1>6 DEF CallInv, CardTypeOK, CreateCalls, Booleans, OldIsMine, CreateFailed, NoCreate, Show
  <1>7. ASSUME NEW c \in Challenges, CreateArrives(j, c) PROVE CallInv'
    BY <1>7 DEF CallInv, CardTypeOK, CreateCalls, Booleans, OldIsMine, CreateArrives, cardVars
  <1> QED
    BY <1>1, <1>2, <1>3, <1>4, <1>5, <1>6, <1>7 DEF CreateStep

\* The timers and the widget keep the types.
LEMMA WidgetTyped ==
  ASSUME CallInv, Countdown \/ Disable \/ Enable \/ SignInFails \/ SignInThrows \/ Close
  PROVE  CallInv'
  <1>1. CASE Countdown
    BY <1>1 DEF CallInv, CardTypeOK, Booleans, OldIsMine, Countdown, callVars
  <1>2. CASE Disable
    BY <1>2 DEF CallInv, CardTypeOK, Booleans, OldIsMine, Disable, callVars
  <1>3. CASE Enable
    <2>1. ASSUME NEW j \in Creates, Start(j, FALSE), UNCHANGED timers PROVE CallInv'
      BY <1>3, <2>1, StartTyped DEF CallInv, CardTypeOK, Booleans, Enable
    <2>2. CASE UNCHANGED <<shown, loading, creates>>
               /\ marked' \in BOOLEAN /\ timers' \in BOOLEAN
      BY <1>3, <2>2 DEF CallInv, CardTypeOK, Booleans, OldIsMine, Enable
    <2>3. marked \in BOOLEAN /\ timers \in BOOLEAN
          /\ (shown \in expired) \in BOOLEAN /\ (shown \notin expired) \in BOOLEAN
      BY DEF CallInv, CardTypeOK, Booleans
    <2> QED
      BY <1>3, <2>1, <2>2, <2>3 DEF Enable
  <1>4. CASE SignInFails
    <2>1. Booleans'
      BY <1>4 DEF CallInv, CardTypeOK, Booleans, SignInFails
    <2>2. signing' \in Nat
      BY <1>4 DEF CallInv, CardTypeOK, SignInFails
    <2> QED
      BY <1>4, <2>1, <2>2 DEF CallInv, CardTypeOK, OldIsMine, SignInFails
  <1>4a. CASE SignInThrows
    BY <1>4a DEF CallInv, CardTypeOK, Booleans, OldIsMine, SignInThrows, cardVars
  <1>5. CASE Close
    BY <1>5 DEF CallInv, CardTypeOK, CreateCalls, Booleans, OldIsMine, Close, NoCreate, NoPoll
  <1> QED
    BY <1>1, <1>2, <1>3, <1>4, <1>4a, <1>5

\* A poll keeps the types.
LEMMA PollTyped ==
  ASSUME CallInv, NEW p \in Polls, PollSend(p) \/ PollStep(p)
  PROVE  CallInv'
  <1>1. OldIsMine'
    BY DEF CallInv, OldIsMine, PollSend, PollStep, PollArrives, PollLost, PollAnswered, cardVars
  <1>2. CASE PollSend(p)
    BY <1>1, <1>2 DEF CallInv, CardTypeOK, Booleans, PollSend, cardVars
  <1>3. CASE PollArrives(p)
    BY <1>1, <1>3 DEF CallInv, CardTypeOK, Booleans, PollArrives, NoPoll, cardVars
  <1>4. CASE PollLost(p)
    BY <1>1, <1>4 DEF CallInv, CardTypeOK, Booleans, PollLost, NoPoll, cardVars
  <1>5. CASE PollAnswered(p)
    <2>1. Booleans'
      BY <1>5 DEF CallInv, CardTypeOK, Booleans, PollAnswered
    <2>2. signing' \in Nat
      BY <1>5 DEF CallInv, CardTypeOK, PollAnswered
    <2> QED
      BY <1>1, <1>5, <2>1, <2>2 DEF CallInv, CardTypeOK, PollAnswered, NoPoll
  <1> QED
    BY <1>2, <1>3, <1>4, <1>5 DEF PollStep

\* What the card remembers are challenges that were created for it.
LEMMA CallInvariance == CardSpec => []CallInv
  <1>1. CardInit => CallInv
    <2> SUFFICES ASSUME CardInit PROVE CallInv
      OBVIOUS
    <2> DEFINE first == [NoCreate EXCEPT !.pc = "create"]
    <2>1. creates \in [Creates -> {NoCreate, first}]
      BY DEF CardInit
    <2>2. Booleans
      BY DEF CardInit, Booleans
    <2>3. creates \in CreateCalls /\ OldIsMine
      <3> DEFINE R == [pc : {"idle", "cancel", "cancelled", "create", "created", "failed"},
                       old : Challenges \cup {None}, late : BOOLEAN, refresh : BOOLEAN,
                       dropped : BOOLEAN, new : Challenges \cup {None}]
      <3>1. NoCreate \in R /\ NoCreate.pc = "idle" /\ NoCreate.old = None
        BY DEF NoCreate
      <3>2. first \in R /\ first.pc = "create" /\ first.old = None
        BY DEF NoCreate
      <3> HIDE DEF first, R
      <3>3. OldIsMine
        BY <2>1, <3>1, <3>2 DEF OldIsMine
      <3>4. creates \in [Creates -> R]
        BY <2>1, <3>1, <3>2
      <3> QED
        BY <3>3, <3>4 DEF CreateCalls, R
    <2> QED
      BY <2>2, <2>3 DEF CardInit, CallInv, CardTypeOK, NoPoll
  <1>2. CallInv /\ [CardNext]_allVars => CallInv'
    <2> SUFFICES ASSUME CallInv, [CardNext]_allVars PROVE CallInv'
      OBVIOUS
    <2>1. ASSUME NEW j \in Creates, Refresh(j) PROVE CallInv'
      BY <2>1, StartTyped DEF Refresh, CallInv, CardTypeOK, Booleans
    <2>2. CASE Elsewhere
      BY <2>2 DEF Elsewhere, CallInv, CardTypeOK, Booleans, OldIsMine, cardVars, callVars
    <2>3. CASE UNCHANGED allVars
      BY <2>3 DEF allVars, CallInv, CardTypeOK, Booleans, OldIsMine, cardVars, callVars
    <2> QED
      BY <2>1, <2>2, <2>3, CreateTyped, WidgetTyped, PollTyped DEF CardNext
  <1> QED
    BY <1>1, <1>2, PTL DEF CardSpec

\* The card types its variables as the code does, with any number of calls of
\* _create and of polls that overlap (qr_login_card.dart:23-30).
THEOREM CardTypeCorrect == CardSpec => []CardTypeOK
  <1>1. CallInv => CardTypeOK
    BY DEF CallInv
  <1> QED
    BY <1>1, CallInvariance, PTL

\* The card does to the gateway what a target may do and nothing else: with
\* the card the gateway behaves as in QRLogin (qr_login_service.dart:33-71).
THEOREM CardIsATarget == CardSpec => Init /\ [][Next]_vars
  <1>1. CallInv /\ [CardNext]_allVars => [Next]_vars
    <2> SUFFICES ASSUME CallInv, CardNext, ~UNCHANGED vars PROVE Next
      BY DEF allVars, vars
    <2>1. ASSUME NEW j \in Creates, CreateStep(j) PROVE Next
      BY <2>1 DEF CreateStep, CancelArrives, CancelFails, Cancelled, CreateArrives, CreateFails,
                  Created, CreateFailed, CallInv, CardTypeOK, CreateCalls, OldIsMine, Next
    <2>2. ASSUME NEW p \in Polls, PollStep(p) PROVE Next
      BY <2>2 DEF PollStep, PollArrives, PollLost, PollAnswered, Asked, CallInv, CardTypeOK, Next
    <2>3. CASE Elsewhere
      BY <2>3 DEF Elsewhere, Next
    <2> QED
      BY <2>1, <2>2, <2>3 DEF CardNext, Refresh, Countdown, Disable, Enable, SignInFails, SignInThrows, Close,
                              PollSend
  <1>2. CardInit => Init
    BY DEF CardInit
  <1> QED
    BY <1>1, <1>2, CallInvariance, PTL DEF CardSpec

\* Hence one admission at most for the code on a card, whatever the card does
\* meanwhile (handleQRApprove).
THEOREM OneAdmissionPerCode == CardSpec => []OneAdmission
  BY CardIsATarget, OneAdmissionEach, PTL DEF Spec

-----------------------------------------------------------------------------
(* No code is lost. *)

Born == \A c \in mine : status[c] # "unborn"

\* Past its cancellation, the old challenge is gone.
Past(e) ==
  e.old # None /\ (\/ e.pc = "cancelled" \/ e.dropped
                   \/ e.refresh /\ e.pc \in {"create", "created"})

OldIsGone == \A j \in Creates : Past(creates[j]) => status[creates[j].old] = "gone"

LossInv == Born /\ OldIsGone /\ LiveCodesShown

\* The gateway never takes a code back to an earlier status, nor time back.
Forward ==
  /\ \A c \in Challenges :
       /\ status[c] # "unborn" => status'[c] # "unborn"
       /\ status[c] = "gone" => status'[c] = "gone"
       /\ status'[c] = "pending" => status[c] \in {"unborn", "pending"}
  /\ expired \subseteq expired'

\* Every step of the gateway goes forward.
LEMMA GatewayForward ==
  ASSUME TypeOK, [Next]_vars
  PROVE  Forward
  <1>1. ASSUME NEW c \in Challenges, Create(c) PROVE Forward
    BY <1>1 DEF Create, Forward, TypeOK, Statuses
  <1>2. ASSUME NEW c \in Challenges, Poll(c) \/ Cancel(c) \/ Expire(c) PROVE Forward
    BY <1>2 DEF Poll, Cancel, Expire, Stored, Forward, TypeOK, Statuses
  <1>3. ASSUME NEW a \in Approvals, NEW c \in Challenges, Approve(a, c) PROVE Forward
    BY <1>3 DEF Approve, Forward, TypeOK, Statuses
  <1>4. ASSUME NEW a \in Approvals, ApprovalStep(a) PROVE Forward
    <2>1. CASE Finish(a)
      BY <2>1 DEF Finish, Stored, Forward, TypeOK, Statuses
    <2> QED
      BY <1>4, <2>1 DEF ApprovalStep, Fetch, Admit, Forward
  <1>5. CASE Restart
    BY <1>5 DEF Restart, Stored, Forward, TypeOK, Statuses
  <1>6. CASE UNCHANGED vars
    BY <1>6 DEF vars, Forward
  <1> QED
    BY <1>1, <1>2, <1>3, <1>4, <1>5, <1>6 DEF Next

\* What stays true when the card's code and its calls stay as they are, but
\* for one call that goes on without passing a cancellation.
LEMMA QuietLoss ==
  ASSUME CallInv, LossInv, Forward, UNCHANGED <<shown, mine, left>>,
         \A j \in Creates :
           /\ creates'[j].old = creates[j].old
           /\ creates[j].pc = "created" =>
                creates'[j].pc = "created" /\ creates'[j].new = creates[j].new
           /\ Past(creates'[j]) => Past(creates[j]) \/ status'[creates[j].old] = "gone"
  PROVE  LossInv'
  <1>1. Born'
    BY DEF CallInv, CardTypeOK, LossInv, Born, Forward
  <1>2. OldIsGone'
    <2> SUFFICES ASSUME NEW j \in Creates, Past(creates'[j])
                 PROVE  status'[creates'[j].old] = "gone"
      BY DEF OldIsGone
    <2>1. creates[j].old \in Challenges
      BY DEF Past, CallInv, CardTypeOK, OldIsMine
    <2> QED
      BY <2>1 DEF LossInv, OldIsGone, Forward
  <1>3. LiveCodesShown'
    BY DEF CallInv, CardTypeOK, LossInv, Born, LiveCodesShown, Forward
  <1> QED
    BY <1>1, <1>2, <1>3 DEF LossInv

\* A cancellation that is answered leaves the old code gone.
LEMMA CancelLoss ==
  ASSUME CallInv, LossInv, Forward, TypeOK, NEW j \in Creates, CancelArrives(j)
  PROVE  LossInv'
  <1> DEFINE c == creates[j].old
  <1>1. c \in mine /\ c \in Challenges
    BY DEF CancelArrives, CallInv, CardTypeOK, OldIsMine
  <1>2. status'[c] = "gone"
    BY <1>1 DEF CancelArrives, Cancel, Stored, TypeOK, Statuses, LossInv, Born, vars
  <1>3. UNCHANGED <<shown, mine, left>>
    BY DEF CancelArrives, cardVars
  <1>4. ASSUME NEW k \in Creates
        PROVE /\ creates'[k].old = creates[k].old
              /\ creates[k].pc = "created" =>
                   creates'[k].pc = "created" /\ creates'[k].new = creates[k].new
              /\ Past(creates'[k]) => Past(creates[k]) \/ status'[creates[k].old] = "gone"
    BY <1>2 DEF CancelArrives, CallInv, CardTypeOK, CreateCalls, Past
  <1> QED
    BY <1>3, <1>4, QuietLoss

\* A call begins: only a code marked expired leaves the card at once.
LEMMA StartLoss ==
  ASSUME CallInv, LossInv, NEW j \in Creates, NEW i \in BOOLEAN, Start(j, i),
         UNCHANGED <<vars, mine, left>>
  PROVE  LossInv'
  <1>1. Born'
    BY DEF LossInv, Born, vars
  <1>2. OldIsGone'
    <2>1. ASSUME NEW k \in Creates, k # j PROVE creates'[k] = creates[k]
      BY <2>1 DEF Start, CallInv, CardTypeOK, CreateCalls
    <2>2. ~Past(creates'[j])
      BY DEF Start, CallInv, CardTypeOK, CreateCalls, Past, NoCreate
    <2> QED
      BY <2>1, <2>2 DEF LossInv, OldIsGone, vars
  <1>3. \A k \in Creates : creates[k].pc = "created" => creates'[k] = creates[k]
    BY DEF Start, CallInv, CardTypeOK, CreateCalls
  <1>4. LiveCodesShown'
    BY <1>3 DEF Start, LossInv, LiveCodesShown, vars
  <1> QED
    BY <1>1, <1>2, <1>4 DEF LossInv

\* The cancellation is known on the card: the code that leaves it is gone.
LEMMA CancelledLoss ==
  ASSUME CallInv, LossInv, NEW j \in Creates, Cancelled(j)
  PROVE  LossInv'
  <1>1. Past(creates[j]) \/ creates[j].old = None
    BY DEF Cancelled, Past
  <1>2. creates[j].old = None \/ status[creates[j].old] = "gone"
    BY <1>1 DEF LossInv, OldIsGone
  <1>3. Born'
    BY DEF Cancelled, LossInv, Born, vars
  <1>4. \A k \in Creates :
          /\ creates'[k].old = creates[k].old
          /\ creates[k].pc = "created" => creates'[k] = creates[k]
          /\ k # j => creates'[k] = creates[k]
    BY DEF Cancelled, CallInv, CardTypeOK, CreateCalls
  <1>5. OldIsGone'
    <2> SUFFICES ASSUME NEW k \in Creates, Past(creates'[k])
                 PROVE  status[creates[k].old] = "gone"
      BY <1>4 DEF OldIsGone, Cancelled, vars
    <2>1. CASE k = j
      BY <1>2, <1>4, <2>1 DEF Past
    <2>2. CASE k # j
      BY <1>4, <2>2 DEF LossInv, OldIsGone
    <2> QED
      BY <2>1, <2>2
  <1>6. left' = left \cup ({shown} \ {None, creates[j].old}) /\ shown' = None
        /\ UNCHANGED <<mine, status, expired>>
    BY DEF Cancelled, Show, vars
  <1>7. LiveCodesShown'
    BY <1>2, <1>4, <1>6 DEF LossInv, LiveCodesShown
  <1> QED
    BY <1>3, <1>5, <1>7 DEF LossInv

\* A new challenge is on its way to the card, or the card never learns of it.
LEMMA CreateLoss ==
  ASSUME CallInv, TypeOK, LossInv, NEW j \in Creates, NEW c \in Challenges,
         CreateArrives(j, c)
  PROVE  LossInv'
  <1>1. Forward
    BY GatewayForward DEF CreateArrives, Next
  <1>2. status'[c] = "pending" /\ mine' = mine \cup {c}
    BY DEF CreateArrives, Create
  <1>3. Born'
    BY <1>1, <1>2 DEF LossInv, Born, CallInv, CardTypeOK, Forward
  <1>4. \A k \in Creates :
          /\ creates'[k].old = creates[k].old
          /\ creates[k].pc = "created" =>
               creates'[k].pc = "created" /\ creates'[k].new = creates[k].new
          /\ Past(creates'[k]) => Past(creates[k])
    BY DEF CreateArrives, CallInv, CardTypeOK, CreateCalls, Past
  <1>5. OldIsGone'
    <2> SUFFICES ASSUME NEW k \in Creates, Past(creates'[k])
                 PROVE  status'[creates'[k].old] = "gone"
      BY DEF OldIsGone
    <2>1. creates[k].old \in Challenges
      BY <1>4 DEF Past, CallInv, CardTypeOK, OldIsMine
    <2> QED
      BY <1>1, <1>4, <2>1 DEF LossInv, OldIsGone, Forward
  <1>6. c \in left' \/ (creates'[j].pc = "created" /\ creates'[j].new = c)
    BY DEF CreateArrives, CallInv, CardTypeOK, CreateCalls
  <1>7. left \subseteq left' /\ shown' = shown
    BY DEF CreateArrives, cardVars
  <1>8. LiveCodesShown'
    BY <1>1, <1>2, <1>4, <1>6, <1>7
       DEF LossInv, Born, LiveCodesShown, CallInv, CardTypeOK, Forward
  <1> QED
    BY <1>3, <1>5, <1>8 DEF LossInv

\* The new code takes the place of the old one, which was cancelled or is
\* given up as expired.
LEMMA CreatedLoss ==
  ASSUME CallInv, LossInv, NEW j \in Creates, Created(j)
  PROVE  LossInv'
  <1>1. UNCHANGED <<mine, status, expired>> /\ shown' = creates[j].new
    BY DEF Created, vars
  <1>2. Born'
    BY <1>1 DEF LossInv, Born
  <1>3. creates'[j] = NoCreate /\ \A k \in Creates \ {j} : creates'[k] = creates[k]
    BY DEF Created, CallInv, CardTypeOK, CreateCalls
  <1>4. OldIsGone'
    BY <1>1, <1>3 DEF LossInv, OldIsGone, Past, NoCreate
  <1>5. creates[j].pc = "created" /\ creates[j].refresh \in BOOLEAN
    BY DEF Created, CallInv, CardTypeOK, CreateCalls
  <1>6. \/ creates[j].old = None
        \/ status[creates[j].old] = "gone"
        \/ creates[j].old \in left'
    <2>1. CASE creates[j].refresh
      BY <1>5, <2>1 DEF LossInv, OldIsGone, Past
    <2>2. CASE ~creates[j].refresh
      BY <2>2 DEF Created
    <2> QED
      BY <1>5, <2>1, <2>2
  <1>7. left \subseteq left'
        /\ shown \in left' \cup {None, creates[j].new, creates[j].old}
    BY DEF Created
  <1>8. LiveCodesShown'
    <2> SUFFICES ASSUME NEW d \in mine \ left', status[d] = "pending", d \notin expired
                 PROVE  d = shown' \/ \E k \in Creates : creates'[k].pc = "created"
                                                          /\ creates'[k].new = d
      BY <1>1 DEF LiveCodesShown
    <2>1. d = shown \/ \E k \in Creates : creates[k].pc = "created" /\ creates[k].new = d
      BY <1>7 DEF LossInv, LiveCodesShown
    <2>2. d # None
      BY QRAssumption DEF CallInv, CardTypeOK
    <2> QED
      BY <1>1, <1>3, <1>6, <1>7, <2>1, <2>2
  <1> QED
    BY <1>2, <1>4, <1>8 DEF LossInv

\* A call fails: the card keeps its code, or gets back the one that expired.
LEMMA FailedLoss ==
  ASSUME CallInv, LossInv, NEW j \in Creates, CreateFailed(j)
  PROVE  LossInv'
  <1>1. UNCHANGED <<mine, status, expired>>
    BY DEF CreateFailed, vars
  <1>2. Born'
    BY <1>1 DEF LossInv, Born
  <1>3. creates'[j] = NoCreate /\ \A k \in Creates \ {j} : creates'[k] = creates[k]
    BY DEF CreateFailed, CallInv, CardTypeOK, CreateCalls
  <1>4. OldIsGone'
    BY <1>1, <1>3 DEF LossInv, OldIsGone, Past, NoCreate
  <1>5. creates[j].dropped => creates[j].old = None \/ status[creates[j].old] = "gone"
    BY DEF LossInv, OldIsGone, Past
  <1>6. left \subseteq left'
        /\ \/ shown \in left' \cup {None, shown'}
           \/ creates[j].old = shown /\ creates[j].dropped
    BY DEF CreateFailed, Show
  <1>7. \A k \in Creates : creates[k].pc = "created" => creates'[k] = creates[k]
    BY <1>3 DEF CreateFailed
  <1>8. LiveCodesShown'
    <2> SUFFICES ASSUME NEW d \in mine \ left', status[d] = "pending", d \notin expired
                 PROVE  d = shown' \/ \E k \in Creates : creates'[k].pc = "created"
                                                          /\ creates'[k].new = d
      BY <1>1 DEF LiveCodesShown
    <2>1. d = shown \/ \E k \in Creates : creates[k].pc = "created" /\ creates[k].new = d
      BY <1>6 DEF LossInv, LiveCodesShown
    <2>2. d # None
      BY QRAssumption DEF CallInv, CardTypeOK
    <2> QED
      BY <1>5, <1>6, <1>7, <2>1, <2>2
  <1> QED
    BY <1>2, <1>4, <1>8 DEF LossInv

\* Every step keeps the invariant.
LEMMA LossStep ==
  ASSUME CallInv, TypeOK, LossInv, [CardNext]_allVars, [Next]_vars
  PROVE  LossInv'
  <1>1. Forward
    BY GatewayForward
  <1>2. CASE UNCHANGED <<shown, creates, mine, left>>
    BY <1>1, <1>2, QuietLoss
  <1>3. ASSUME NEW j \in Creates, CreateStep(j) PROVE LossInv'
    <2>1. CASE CancelFails(j) \/ CreateFails(j)
      <3>1. UNCHANGED <<shown, mine, left>>
        BY <2>1 DEF CancelFails, CreateFails, cardVars
      <3>2. ASSUME NEW k \in Creates
            PROVE /\ creates'[k].old = creates[k].old
                  /\ creates[k].pc = "created" =>
                       creates'[k].pc = "created" /\ creates'[k].new = creates[k].new
                  /\ Past(creates'[k]) => Past(creates[k])
        BY <2>1 DEF CancelFails, CreateFails, CallInv, CardTypeOK, CreateCalls, Past
      <3> QED
        BY <1>1, <3>1, <3>2, QuietLoss
    <2> QED
      BY <1>1, <1>3, <2>1, CancelLoss, CancelledLoss, CreateLoss, CreatedLoss, FailedLoss
         DEF CreateStep
  <1>4. ASSUME NEW j \in Creates, Refresh(j) PROVE LossInv'
    <2>1. marked \in BOOLEAN
      BY DEF CallInv, CardTypeOK, Booleans
    <2> QED
      BY <1>4, <2>1, StartLoss DEF Refresh
  <1>5. CASE Enable
    <2>1. ASSUME NEW j \in Creates, Start(j, FALSE) PROVE LossInv'
      BY <1>5, <2>1, StartLoss DEF Enable
    <2> QED
      BY <1>2, <1>5, <2>1 DEF Enable
  <1>6. CASE Close
    BY <1>6 DEF Close, LossInv, Born, OldIsGone, Past, LiveCodesShown, NoCreate
  <1>7. CASE Countdown \/ Disable \/ SignInFails \/ Elsewhere \/ UNCHANGED allVars
    BY <1>2, <1>7 DEF Countdown, Disable, SignInFails, Elsewhere, allVars, callVars, cardVars
  <1>7a. CASE SignInThrows
    BY <1>2, <1>7a DEF SignInThrows, cardVars
  <1>8. ASSUME NEW p \in Polls, PollSend(p) \/ PollStep(p) PROVE LossInv'
    BY <1>2, <1>8 DEF PollSend, PollStep, PollArrives, PollLost, PollAnswered, cardVars
  <1> QED
    BY <1>3, <1>4, <1>5, <1>6, <1>7, <1>7a, <1>8 DEF CardNext

\* A refresh loses no code that a phone could still approve: the old one was
\* cancelled on the gateway or had expired (_create, handleQRCancel).
THEOREM NoCodeIsLost == CardSpec => []LiveCodesShown
  <1>1. CardInit => LossInv
    <2> SUFFICES ASSUME CardInit PROVE LossInv
      OBVIOUS
    <2>1. mine = {} /\ \A j \in Creates : creates[j].old = None
      BY DEF CardInit, NoCreate
    <2> QED
      BY <2>1 DEF LossInv, Born, OldIsGone, Past, LiveCodesShown
  <1>2. CallInv /\ TypeOK /\ LossInv /\ [CardNext]_allVars /\ [Next]_vars => LossInv'
    BY LossStep
  <1>3. CardSpec => []TypeOK
    BY CardIsATarget, TypeCorrect, PTL DEF Spec
  <1>4. LossInv => LiveCodesShown
    BY DEF LossInv
  <1> QED
    BY <1>1, <1>2, <1>3, <1>4, CallInvariance, CardIsATarget, PTL DEF CardSpec

-----------------------------------------------------------------------------
(* The card is alive. *)

\* While the card shows a code as good it polls it, whatever failed or was
\* disabled before, unless a sign-in threw (_startTimers, didUpdateWidget).
THEOREM GoodCodeAlwaysPolled == CardSpec => []GoodCodeIsPolled
  <1>1. CardInit => GoodCodeIsPolled
    BY DEF CardInit, GoodCodeIsPolled
  <1>2. CallInv /\ GoodCodeIsPolled /\ [CardNext]_allVars => GoodCodeIsPolled'
    <2> SUFFICES ASSUME CallInv, GoodCodeIsPolled, [CardNext]_allVars
                 PROVE  GoodCodeIsPolled'
      OBVIOUS
    <2>1. ASSUME NEW j \in Creates, Refresh(j) PROVE GoodCodeIsPolled'
      BY <2>1 DEF Refresh, Start, GoodCodeIsPolled
    <2>2. ASSUME NEW j \in Creates, CreateStep(j) PROVE GoodCodeIsPolled'
      BY <2>2 DEF CreateStep, CancelArrives, CancelFails, Cancelled, CreateArrives,
                  CreateFails, Created, CreateFailed, Show, cardVars, GoodCodeIsPolled
    <2>3. CASE Countdown \/ Disable \/ SignInFails \/ SignInThrows \/ Close
      BY <2>3 DEF Countdown, Disable, SignInFails, SignInThrows, Close, callVars, GoodCodeIsPolled
    <2>4. CASE Enable
      BY <2>4 DEF Enable, Start, GoodCodeIsPolled
    <2>5. ASSUME NEW p \in Polls, PollSend(p) \/ PollStep(p) PROVE GoodCodeIsPolled'
      <3>1. signing + 1 # 0
        BY DEF CallInv, CardTypeOK
      <3> QED
        BY <2>5, <3>1 DEF PollSend, PollStep, PollArrives, PollLost, PollAnswered, cardVars,
                          GoodCodeIsPolled
    <2>6. CASE Elsewhere \/ UNCHANGED allVars
      BY <2>6 DEF Elsewhere, allVars, cardVars, callVars, GoodCodeIsPolled
    <2> QED
      BY <2>1, <2>2, <2>3, <2>4, <2>5, <2>6 DEF CardNext
  <1> QED
    BY <1>1, <1>2, CallInvariance, PTL DEF CardSpec

\* Unless a sign-in threw, the card never loads for good: what will end it is
\* under way (_create, _poll).
THEOREM LoadingIsOwned == CardSpec => []LoadingHasOwner
  <1>1. CardInit => LoadingHasOwner
    <2> SUFFICES ASSUME CardInit, enabled PROVE LoadingHasOwner
      BY DEF CardInit, LoadingHasOwner
    <2>1. PICK k \in Creates : creates = [[j \in Creates |-> NoCreate] EXCEPT ![k].pc = "create"]
      BY DEF CardInit
    <2>2. creates[k].pc = "create"
      BY <2>1 DEF NoCreate
    <2> QED
      BY <2>2 DEF LoadingHasOwner
  <1>2. CallInv /\ LoadingHasOwner /\ [CardNext]_allVars => LoadingHasOwner'
    <2> SUFFICES ASSUME CallInv, LoadingHasOwner, [CardNext]_allVars
                 PROVE  LoadingHasOwner'
      OBVIOUS
    <2>1. ASSUME NEW j \in Creates, NEW i \in BOOLEAN, Start(j, i) PROVE LoadingHasOwner'
      <3>1. creates'[j].pc # "idle"
        BY <2>1 DEF Start, CallInv, CardTypeOK, CreateCalls, NoCreate
      <3> QED
        BY <3>1 DEF LoadingHasOwner
    <2>2. ASSUME NEW j \in Creates, CreateStep(j) PROVE LoadingHasOwner'
      <3>1. CASE Created(j) \/ CreateFailed(j)
        BY <3>1 DEF Created, CreateFailed, LoadingHasOwner
      <3>2. CASE ~(Created(j) \/ CreateFailed(j))
        <4>1. creates'[j].pc # "idle"
          BY <2>2, <3>2 DEF CreateStep, CancelArrives, CancelFails, Cancelled, CreateArrives,
                            CreateFails, CallInv, CardTypeOK, CreateCalls
        <4> QED
          BY <4>1 DEF LoadingHasOwner
      <3> QED
        BY <3>1, <3>2
    <2>3. CASE Countdown \/ Disable \/ SignInFails \/ SignInThrows \/ Close
      BY <2>3 DEF Countdown, Disable, SignInFails, SignInThrows, Close, callVars, LoadingHasOwner
    <2>4. CASE Enable
      BY <2>1, <2>4 DEF Enable, LoadingHasOwner
    <2>5. ASSUME NEW p \in Polls, PollSend(p) \/ PollStep(p) PROVE LoadingHasOwner'
      <3>1. signing + 1 > 0
        BY DEF CallInv, CardTypeOK
      <3> QED
        BY <2>5, <3>1 DEF PollSend, PollStep, PollArrives, PollLost, PollAnswered, cardVars,
                          LoadingHasOwner
    <2>6. CASE Elsewhere \/ UNCHANGED allVars
      BY <2>6 DEF Elsewhere, allVars, cardVars, callVars, LoadingHasOwner
    <2>7. ASSUME NEW j \in Creates, Refresh(j) PROVE LoadingHasOwner'
      <3>1. marked \in BOOLEAN
        BY DEF CallInv, CardTypeOK, Booleans
      <3> QED
        BY <2>1, <2>7, <3>1 DEF Refresh
    <2> QED
      BY <2>2, <2>3, <2>4, <2>5, <2>6, <2>7 DEF CardNext
  <1> QED
    BY <1>1, <1>2, CallInvariance, PTL DEF CardSpec

=============================================================================
