------------------------------ MODULE QRLogin ------------------------------
(***************************************************************************)
(* Sign-in by QR code on a gateway (device_gateway/main.go 86-100,         *)
(* 1039-1211).  A target (a PC or a TV) creates a challenge and polls it;  *)
(* phones that scanned it approve it.  An approval releases qrMu while it  *)
(* asks the business backend for the subscription and admits the target,   *)
(* so polls, cancellations, expiry and other approvals come in between.    *)
(* Challenges live in memory only; an admitted session does not.  Response *)
(* is set with the status "approved" and with no other (finishQRSession).   *)
(***************************************************************************)
EXTENDS Naturals, FiniteSets

CONSTANTS
  Challenges,   \* challenge ids; random, so each is created once
  Approvals,    \* the requests that approve a challenge
  None

ASSUME QRAssumption == None \notin Challenges

VARIABLES
  status,      \* Status of each stored challenge, "unborn" or "gone"
  expired,     \* the challenges whose two minutes are over
  approvals,   \* the approvals in flight
  admitted,    \* ghost: sessions created for the target of a challenge
  delivered,   \* ghost: polls that were given the token of a challenge
  cancelled    \* ghost: the challenges whose cancellation deleted them

vars == <<status, expired, approvals, admitted, delivered, cancelled>>

Stored(c) == status[c] \notin {"unborn", "gone"}

NoApproval == [pc |-> "idle", challenge |-> None]

----------------------------------------------------------------------------
(* The target *)

\* handleQRSession: the expired challenges are forgotten first.
Create(c) ==
  /\ status[c] = "unborn"
  /\ status' = [d \in Challenges |->
                  IF d = c THEN "pending"
                  ELSE IF Stored(d) /\ d \in expired THEN "gone" ELSE status[d]]
  /\ UNCHANGED <<expired, approvals, admitted, delivered, cancelled>>

\* Faulty variant of Poll: an approved challenge is not consumed.
PollAgain(c) ==
  /\ Stored(c)
  /\ status' = [status EXCEPT ![c] = IF c \in expired THEN "gone" ELSE @]
  /\ delivered' = [delivered EXCEPT
                     ![c] = IF c \notin expired /\ status[c] = "approved"
                               /\ @ < 2
                            THEN @ + 1 ELSE @]
  /\ UNCHANGED <<expired, approvals, admitted, cancelled>>

\* handleQRPoll: an expired challenge is forgotten, whatever its status; the
\* token of an approved one is in the answer, which may be lost on its way.
Poll(c) ==
  /\ Stored(c)
  /\ \/ /\ c \in expired
        /\ status' = [status EXCEPT ![c] = "gone"]
        /\ UNCHANGED delivered
     \/ /\ c \notin expired
        /\ status[c] = "approved"
        /\ status' = [status EXCEPT ![c] = "consumed"]
        /\ delivered' = [delivered EXCEPT ![c] = @ + 1]
  /\ UNCHANGED <<expired, approvals, admitted, cancelled>>

\* Faulty variant of Cancel: a challenge being authorized is deleted too.
CancelAuthorizing(c) ==
  /\ status[c] \in {"pending", "authorizing"}
  /\ status' = [status EXCEPT ![c] = "gone"]
  /\ cancelled' = cancelled \cup {c}
  /\ UNCHANGED <<expired, approvals, admitted, delivered>>

\* handleQRCancel: only a pending challenge is deleted; "cancelled" is also
\* the answer for one that is no longer stored.
Cancel(c) ==
  /\ status[c] = "pending"
  /\ status' = [status EXCEPT ![c] = "gone"]
  /\ cancelled' = cancelled \cup {c}
  /\ UNCHANGED <<expired, approvals, admitted, delivered>>

----------------------------------------------------------------------------
(* The phone: handleQRApprove *)

\* Faulty variant of Approve: the challenge is not marked.
ApproveUnmarked(a, c) ==
  /\ approvals[a].pc = "idle"
  /\ status[c] = "pending" /\ c \notin expired
  /\ approvals' = [approvals EXCEPT ![a] = [pc |-> "fetch", challenge |-> c]]
  /\ UNCHANGED <<status, expired, admitted, delivered, cancelled>>

\* The challenge is marked first, "so duplicate scanner callbacks cannot
\* create two devices"; any other status answers 409, expiry 410.
Approve(a, c) ==
  /\ approvals[a].pc = "idle"
  /\ status[c] = "pending" /\ c \notin expired
  /\ status' = [status EXCEPT ![c] = "authorizing"]
  /\ approvals' = [approvals EXCEPT ![a] = [pc |-> "fetch", challenge |-> c]]
  /\ UNCHANGED <<expired, admitted, delivered, cancelled>>

\* fetchSubscriptionSnapshot answers or fails.
Fetch(a) ==
  /\ approvals[a].pc = "fetch"
  /\ \E pc \in {"admit", "failed"} :
       approvals' = [approvals EXCEPT ![a].pc = pc]
  /\ UNCHANGED <<status, expired, admitted, delivered, cancelled>>

\* Faulty variant of Admit: the error is not told from success.
AdmitVerdictKept(a) ==
  /\ approvals[a].pc = "admit"
  /\ \E verdict \in {"approved", "refused", "unsaved"} :
       /\ approvals' = [approvals EXCEPT ![a].pc = verdict]
       /\ admitted' = [admitted EXCEPT ![approvals[a].challenge] =
                         IF verdict = "refused" THEN @ ELSE @ + 1]
  /\ UNCHANGED <<status, expired, delivered, cancelled>>

\* admitDevice: admitted; refused at the limit; or admitted in memory with a
\* save that failed, which the approval takes for a failure.  The challenge is
\* not looked at again.
Admit(a) ==
  /\ approvals[a].pc = "admit"
  /\ \E verdict \in {"approved", "refused", "unsaved"} :
       /\ approvals' = [approvals EXCEPT
                          ![a].pc = IF verdict = "approved" THEN "approved"
                                    ELSE "failed"]
       /\ admitted' = [admitted EXCEPT ![approvals[a].challenge] =
                         IF verdict = "refused" THEN @ ELSE @ + 1]
  /\ UNCHANGED <<status, expired, delivered, cancelled>>

\* Faulty variant of Finish: a failure is not recorded.
FinishApprovedOnly(a) ==
  /\ approvals[a].pc \in {"approved", "failed"}
  /\ LET c == approvals[a].challenge
     IN  status' = [status EXCEPT
                      ![c] = IF Stored(c) /\ approvals[a].pc = "approved"
                             THEN "approved" ELSE @]
  /\ approvals' = [approvals EXCEPT ![a] = NoApproval]
  /\ UNCHANGED <<expired, admitted, delivered, cancelled>>

\* finishQRSession: the verdict is written, if the challenge is still stored.
Finish(a) ==
  /\ approvals[a].pc \in {"approved", "failed"}
  /\ LET c == approvals[a].challenge
         verdict == approvals[a].pc
     IN  status' = [status EXCEPT ![c] = IF Stored(c) THEN verdict ELSE @]
  /\ approvals' = [approvals EXCEPT ![a] = NoApproval]
  /\ UNCHANGED <<expired, admitted, delivered, cancelled>>

ApprovalStep(a) == Fetch(a) \/ Admit(a) \/ Finish(a)

----------------------------------------------------------------------------
\* Two minutes after its creation; a stored challenge stays until it is met.
Expire(c) ==
  /\ status[c] # "unborn" /\ c \notin expired
  /\ expired' = expired \cup {c}
  /\ UNCHANGED <<status, approvals, admitted, delivered, cancelled>>

\* A restart forgets every challenge and every approval, and no session.
Restart ==
  /\ status' = [c \in Challenges |-> IF Stored(c) THEN "gone" ELSE status[c]]
  /\ approvals' = [a \in Approvals |-> NoApproval]
  /\ UNCHANGED <<expired, admitted, delivered, cancelled>>

Init ==
  /\ status = [c \in Challenges |-> "unborn"]
  /\ expired = {} /\ cancelled = {}
  /\ approvals = [a \in Approvals |-> NoApproval]
  /\ admitted = [c \in Challenges |-> 0]
  /\ delivered = [c \in Challenges |-> 0]

Next ==
  \/ \E c \in Challenges : Create(c) \/ Poll(c) \/ Cancel(c) \/ Expire(c)
  \/ \E a \in Approvals : ApprovalStep(a) \/ \E c \in Challenges : Approve(a, c)
  \/ Restart

Spec == Init /\ [][Next]_vars

\* A handler that began goes on: its call of the backend has a timeout.
\* Nothing makes anyone create, poll, cancel or approve.
FairSpec == Spec /\ \A a \in Approvals : WF_vars(ApprovalStep(a))

----------------------------------------------------------------------------
(* Type and properties *)

Statuses == {"unborn", "pending", "authorizing", "approved", "failed",
             "consumed", "gone"}

\* Every variable has its type (main.go:86-100).
TypeOK ==
  /\ status \in [Challenges -> Statuses]
  /\ expired \subseteq Challenges
  /\ cancelled \subseteq Challenges
  /\ approvals \in [Approvals ->
                      [pc : {"idle", "fetch", "admit", "approved", "failed"},
                       challenge : Challenges \cup {None}]]
  /\ \A a \in Approvals :
       approvals[a].pc # "idle" => approvals[a].challenge \in Challenges
  /\ admitted \in [Challenges -> Nat]
  /\ delivered \in [Challenges -> Nat]

\* "Duplicate scanner callbacks cannot create two devices" (main.go:1164): a
\* challenge admits its target once at most, across all phones, expiry,
\* failures and restarts (handleQRApprove).
OneAdmission == \A c \in Challenges : admitted[c] <= 1

\* The token of an admitted session is given out once at most, and only for a
\* challenge whose admission was kept (handleQRPoll, finishQRSession).
OneDelivery == \A c \in Challenges : delivered[c] <= admitted[c]

\* The challenge that a target cancelled signs it in no more, whichever phone
\* had scanned it (handleQRCancel).
CancelledAdmitsNobody == \A c \in cancelled : admitted[c] = 0

\* A challenge that a phone took up does not stay "authorizing": it comes to a
\* verdict or is forgotten, even when the backend or the save fails
\* (handleQRApprove, finishQRSession).
ApprovalSettles ==
  \A c \in Challenges : status[c] = "authorizing" ~> status[c] # "authorizing"

============================================================================
