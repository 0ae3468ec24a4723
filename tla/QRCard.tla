------------------------------- MODULE QRCard -------------------------------
(***************************************************************************)
(* The QR card on the login page of a PC or a TV (qr_login_card.dart and   *)
(* qr_login_service.dart) together with the gateway it talks to (QRLogin). *)
(* The card creates a challenge, shows its code, polls it every two        *)
(* seconds and replaces it when the user refreshes.  Requests take as long *)
(* as they take: polls overlap, answers come late or never, and come to a  *)
(* card that shows another challenge by then.                              *)
(***************************************************************************)
EXTENDS QRLogin

CONSTANTS
  Creates,   \* calls of _create that may be under way together
  Polls      \* polls that may be under way together

VARIABLES
  shown,     \* _challenge
  marked,    \* _expired
  loading,   \* _loading
  timers,    \* the countdown and the poll timer, which start and stop together
  enabled,   \* widget.enabled, as it was last built
  mounted,
  creates,   \* the calls of _create
  polls,     \* the polls: what was asked, and the answer on its way
  signing,   \* calls of onAuthorized under way
  mine,      \* history: the challenges created for this card
  left,      \* history: those it lost or let go of as expired
  threw      \* history: a sign-in ended with an exception

cardVars == <<shown, marked, loading, timers, enabled, mounted>>
callVars == <<creates, polls, signing>>
allVars == <<vars, cardVars, callVars, mine, left, threw>>

NoCreate == [pc |-> "idle", old |-> None, late |-> FALSE, refresh |-> FALSE,
             dropped |-> FALSE, new |-> None]
NoPoll == [challenge |-> None, answer |-> "none"]

-----------------------------------------------------------------------------
(* _create.  previous is old, previousWasExpired is late, and dropped says  *)
(* that previousInvalidated became true by a cancellation.                  *)

Start(j, invalidate) ==
  /\ creates[j].pc = "idle" /\ ~loading
  /\ loading' = TRUE
  /\ creates' = [creates EXCEPT ![j] =
       [NoCreate EXCEPT !.pc = IF invalidate /\ shown # None THEN "cancel" ELSE "create",
                        !.old = shown, !.late = shown \in expired, !.refresh = invalidate]]
  /\ shown' = IF shown \in expired THEN None ELSE shown
  /\ marked' = (marked /\ shown \notin expired)

\* What a call of _create puts in the place of the challenge on the card; one
\* that another call had put there meanwhile is lost.
Show(j, c) ==
  /\ shown' = c
  /\ left' = left \cup ({shown} \ {None, c, creates[j].old})

\* _refresh, once five seconds have passed or the code is marked expired.
Refresh(j) ==
  /\ enabled
  /\ Start(j, ~marked)
  /\ UNCHANGED <<vars, timers, enabled, mounted, polls, signing, mine, left, threw>>

\* The cancellation reaches the gateway, or not, and is answered, or not.  A
\* challenge the gateway does not know counts as cancelled.
CancelArrives(j) ==
  LET c == creates[j].old
  IN /\ creates[j].pc = "cancel"
     /\ \E answered \in BOOLEAN :
          creates' = [creates EXCEPT ![j].pc = IF answered THEN "cancelled" ELSE "failed"]
     /\ \/ Cancel(c)
        \/ ~Stored(c) /\ UNCHANGED vars
  /\ UNCHANGED <<cardVars, polls, signing, mine, left, threw>>

\* Faulty variant: a failed cancellation does not stop the refresh.
CancelFailsSilently(j) ==
  /\ creates[j].pc = "cancel"
  /\ creates' = [creates EXCEPT ![j].pc = "create"]
  /\ UNCHANGED <<vars, cardVars, polls, signing, mine, left, threw>>

\* Refused (the challenge is taken), or no answer in time.
CancelFails(j) ==
  /\ creates[j].pc = "cancel"
  /\ creates' = [creates EXCEPT ![j].pc = "failed"]
  /\ UNCHANGED <<vars, cardVars, polls, signing, mine, left, threw>>

Cancelled(j) ==
  /\ creates[j].pc = "cancelled"
  /\ creates' = [creates EXCEPT ![j] = [@ EXCEPT !.pc = "create", !.dropped = TRUE]]
  /\ timers' = FALSE /\ marked' = FALSE /\ Show(j, None)
  /\ UNCHANGED <<vars, loading, enabled, mounted, polls, signing, mine, threw>>

\* The gateway creates a challenge; its answer may be lost.
CreateArrives(j, c) ==
  /\ creates[j].pc = "create"
  /\ Create(c)
  /\ mine' = mine \cup {c}
  /\ \/ /\ creates' = [creates EXCEPT ![j].pc = "created", ![j].new = c]
        /\ UNCHANGED left
     \/ /\ creates' = [creates EXCEPT ![j].pc = "failed"]
        /\ left' = left \cup {c}
  /\ UNCHANGED <<cardVars, polls, signing, threw>>

CreateFails(j) ==
  /\ creates[j].pc = "create"
  /\ creates' = [creates EXCEPT ![j].pc = "failed"]
  /\ UNCHANGED <<vars, cardVars, polls, signing, mine, left, threw>>

\* The new code is on the card; _startTimers looks at the clock once more.
Created(j) ==
  LET c == creates[j].new
      expiring == IF creates[j].refresh THEN {} ELSE {creates[j].old} \ {None}
  IN /\ creates[j].pc = "created"
     /\ creates' = [creates EXCEPT ![j] = NoCreate]
     /\ loading' = FALSE /\ timers' = TRUE
     /\ shown' = c /\ marked' = (c \in expired)
     /\ left' = left \cup expiring \cup ({shown} \ {None, c, creates[j].old})
  /\ UNCHANGED <<vars, enabled, mounted, polls, signing, mine, threw>>

\* Faulty variant: the card goes on loading.
CreateFailedLoading(j) ==
  /\ creates[j].pc = "failed"
  /\ creates' = [creates EXCEPT ![j] = NoCreate]
  /\ UNCHANGED <<loading, shown, marked, left>>
  /\ UNCHANGED <<vars, timers, enabled, mounted, polls, signing, mine, threw>>

\* The handler of every failure above.
CreateFailed(j) ==
  /\ creates[j].pc = "failed"
  /\ creates' = [creates EXCEPT ![j] = NoCreate]
  /\ loading' = FALSE
  /\ \/ /\ creates[j].late
        /\ Show(j, creates[j].old) /\ marked' = TRUE
     \/ /\ ~creates[j].late /\ (creates[j].dropped \/ creates[j].old = None)
        /\ Show(j, None) /\ UNCHANGED marked
     \/ /\ ~creates[j].late /\ ~creates[j].dropped /\ creates[j].old # None
        /\ UNCHANGED <<shown, marked, left>>
  /\ UNCHANGED <<vars, timers, enabled, mounted, polls, signing, mine, threw>>

CreateStep(j) ==
  \/ CancelArrives(j) \/ CancelFails(j) \/ Cancelled(j)
  \/ CreateFails(j) \/ Created(j) \/ CreateFailed(j)
  \/ \E c \in Challenges : CreateArrives(j, c)

-----------------------------------------------------------------------------
(* The timers and the widget. *)

\* _updateCountdown, when it changes anything.
Countdown ==
  /\ timers /\ shown # None
  /\ marked \/ shown \in expired
  /\ marked' = (shown \in expired) /\ timers' = (shown \notin expired)
  /\ UNCHANGED <<vars, shown, loading, enabled, mounted, callVars, mine, left, threw>>

\* The user turns to the password, or a sign-in begins.
Disable ==
  /\ enabled
  /\ enabled' = FALSE /\ timers' = FALSE
  /\ UNCHANGED <<vars, shown, marked, loading, mounted, callVars, mine, left, threw>>

\* Faulty variant: the timers stay off.
EnableSilently ==
  /\ mounted /\ ~enabled /\ signing = 0
  /\ enabled' = TRUE
  /\ UNCHANGED <<vars, shown, marked, loading, timers, mounted, callVars, mine, left, threw>>

\* didUpdateWidget with the card enabled again.
Enable ==
  /\ mounted /\ ~enabled /\ signing = 0
  /\ enabled' = TRUE
  /\ \/ /\ shown = None /\ loading
        /\ UNCHANGED <<shown, marked, loading, timers, creates>>
     \/ /\ shown = None
        /\ \E j \in Creates : Start(j, FALSE)
        /\ UNCHANGED timers
     \/ /\ shown # None
        /\ marked' = (shown \in expired) /\ timers' = (shown \notin expired)
        /\ UNCHANGED <<shown, loading, creates>>
  /\ UNCHANGED <<vars, mounted, polls, signing, mine, left, threw>>

-----------------------------------------------------------------------------
(* _poll *)

Polling == timers /\ enabled /\ shown # None /\ ~loading /\ ~marked

PollSend(p) ==
  /\ polls[p] = NoPoll /\ Polling
  /\ polls' = [polls EXCEPT ![p] = [challenge |-> shown, answer |-> "none"]]
  /\ UNCHANGED <<vars, cardVars, creates, signing, mine, left, threw>>

Asked(p) == polls[p].challenge # None /\ polls[p].answer = "none"

\* The gateway answers with the token, with "expired", or with what changes
\* nothing here.
PollArrives(p) ==
  LET c == polls[p].challenge
  IN /\ Asked(p)
     /\ \/ /\ Poll(c)
           /\ polls' = [polls EXCEPT ![p].answer = IF c \in expired THEN "expired" ELSE "token"]
        \/ /\ ~(Stored(c) /\ (c \in expired \/ status[c] = "approved"))
           /\ polls' = [polls EXCEPT ![p] = NoPoll]
           /\ UNCHANGED vars
  /\ UNCHANGED <<cardVars, creates, signing, mine, left, threw>>

\* The poll or its answer is lost.
PollLost(p) ==
  /\ polls[p].challenge # None
  /\ polls' = [polls EXCEPT ![p] = NoPoll]
  /\ UNCHANGED <<vars, cardVars, creates, signing, mine, left, threw>>

\* The answer is taken as one about the challenge on the card.
PollAnswered(p) ==
  /\ polls[p].answer # "none"
  /\ polls' = [polls EXCEPT ![p] = NoPoll]
  /\ timers' = FALSE
  /\ \/ /\ polls[p].answer = "expired"
        /\ marked' = TRUE
        /\ UNCHANGED <<loading, signing>>
     \/ /\ polls[p].answer = "token"
        /\ loading' = TRUE /\ signing' = signing + 1
        /\ UNCHANGED marked
  /\ UNCHANGED <<vars, shown, enabled, mounted, creates, mine, left, threw>>

PollStep(p) == PollArrives(p) \/ PollLost(p) \/ PollAnswered(p)

\* onAuthorized returns false; the card offers a refresh.
SignInFails ==
  /\ signing > 0 /\ signing' = signing - 1
  /\ loading' = FALSE /\ marked' = TRUE
  /\ UNCHANGED <<vars, shown, timers, enabled, mounted, creates, polls, mine, left, threw>>

\* onAuthorized throws, and _poll drops the exception: the card goes on loading.
SignInThrows ==
  /\ signing > 0 /\ signing' = signing - 1
  /\ threw' = TRUE
  /\ UNCHANGED <<vars, cardVars, creates, polls, mine, left>>

-----------------------------------------------------------------------------
\* A card that is first built enabled creates a challenge at once.
CardInit ==
  /\ Init
  /\ shown = None /\ marked = FALSE /\ timers = FALSE /\ mounted = TRUE
  /\ enabled \in BOOLEAN /\ loading = enabled
  /\ IF enabled
       THEN \E k \in Creates :
              creates = [[j \in Creates |-> NoCreate] EXCEPT ![k].pc = "create"]
       ELSE creates = [j \in Creates |-> NoCreate]
  /\ polls = [p \in Polls |-> NoPoll] /\ signing = 0
  /\ mine = {} /\ left = {} /\ threw = FALSE

\* Faulty variant: a call of _create does not look at mounted when it goes on.
CloseCreateGoesOn ==
  /\ mounted /\ mounted' = FALSE
  /\ shown' = None /\ marked' = FALSE /\ timers' = FALSE
  /\ enabled' = FALSE /\ loading' = FALSE
  /\ polls' = [p \in Polls |-> NoPoll] /\ signing' = 0
  /\ mine' = {} /\ left' = {} /\ threw' = FALSE
  /\ UNCHANGED <<vars, creates>>

\* The page is closed, by a sign-in or by the user.  What the card still has
\* under way can reach the gateway, as a request of another target does.
Close ==
  /\ mounted /\ mounted' = FALSE
  /\ shown' = None /\ marked' = FALSE /\ timers' = FALSE
  /\ enabled' = FALSE /\ loading' = FALSE
  /\ creates' = [j \in Creates |-> NoCreate]
  /\ polls' = [p \in Polls |-> NoPoll] /\ signing' = 0
  /\ mine' = {} /\ left' = {} /\ threw' = FALSE
  /\ UNCHANGED vars

\* The phones, the other targets and the gateway itself.
Elsewhere ==
  /\ \/ \E c \in Challenges : Create(c) \/ Expire(c)
     \/ \E c \in Challenges \ mine : Poll(c) \/ Cancel(c)
     \/ \E a \in Approvals : ApprovalStep(a) \/ \E c \in Challenges : Approve(a, c)
     \/ Restart
  /\ UNCHANGED <<cardVars, callVars, mine, left, threw>>

CardNext ==
  \/ \E j \in Creates : Refresh(j) \/ CreateStep(j)
  \/ Countdown \/ Disable \/ Enable \/ SignInFails \/ SignInThrows \/ Close
  \/ \E p \in Polls : PollSend(p) \/ PollStep(p)
  \/ Elsewhere

\* As in QRLogin; the user, the network and the clock owe nothing.
CardSpec ==
  /\ CardInit /\ [][CardNext]_allVars
  /\ \A a \in Approvals :
       WF_allVars(ApprovalStep(a) /\ UNCHANGED <<cardVars, callVars, mine, left, threw>>)

-----------------------------------------------------------------------------
Booleans ==
  /\ marked \in BOOLEAN /\ loading \in BOOLEAN /\ timers \in BOOLEAN
  /\ enabled \in BOOLEAN /\ mounted \in BOOLEAN

CreateCalls ==
  [Creates ->
     [pc : {"idle", "cancel", "cancelled", "create", "created", "failed"},
      old : Challenges \cup {None}, late : BOOLEAN, refresh : BOOLEAN,
      dropped : BOOLEAN, new : Challenges \cup {None}]]

\* The card's variables have their types (qr_login_card.dart:23-30).
CardTypeOK ==
  /\ shown \in mine \cup {None}
  /\ Booleans
  /\ creates \in CreateCalls
  /\ polls \in [Polls -> [challenge : Challenges \cup {None},
                          answer : {"none", "expired", "token"}]]
  /\ signing \in Nat /\ threw \in BOOLEAN
  /\ left \subseteq mine /\ mine \subseteq Challenges

\* A code that is neither on the card nor on its way there, and that the card
\* did not give up as expired or never learned of, cannot be approved any more:
\* a refresh replaces a code only after the gateway has said that it is
\* cancelled, on whatever grounds the gateway said so (_create, handleQRCancel).
LiveCodesShown ==
  \A c \in mine \ left : status[c] = "pending" /\ c \notin expired =>
    c = shown \/ \E j \in Creates : creates[j].pc = "created" /\ creates[j].new = c

\* While the card shows a code as good, it is being polled, so that an approval
\* does not go unnoticed: whatever was refused, lost, disabled and enabled
\* before, the timers run (_startTimers, didUpdateWidget, _create, _poll).  Only
\* a sign-in that threw may leave a code on the card with the timers stopped.
GoodCodeIsPolled ==
  shown # None /\ enabled /\ ~marked /\ signing = 0 => timers \/ threw

\* A card that loads has a create or a sign-in under way that will end it: in
\* whatever order they end, the user is not locked out, unless a sign-in threw,
\* which _poll drops without ending the loading (_create, _poll).
LoadingHasOwner ==
  loading => signing > 0 \/ threw \/ \E j \in Creates : creates[j].pc # "idle"

=============================================================================
