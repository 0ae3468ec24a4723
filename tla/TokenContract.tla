--------------------------- MODULE TokenContract ----------------------------
(***************************************************************************)
(* What the gateway promises the holders of its tokens, without devices,   *)
(* limits, clocks or files.  A token that was handed out works until it is *)
(* taken away, and would after a restart; one whose end was acknowledged   *)
(* never works again.  What nobody was told of, the end of a token or a    *)
(* token its client never received, a restart may undo.                    *)
(***************************************************************************)
CONSTANT Tokens

VARIABLES
  working,   \* the tokens the gateway accepts
  durable,   \* the tokens it would accept if it restarted now
  issued,    \* the tokens a client was given
  over       \* the tokens whose end someone was told of

vars == <<working, durable, issued, over>>

Kept == issued \cap working \subseteq durable /\ over \cap (working \cup durable) = {}

Init == working = {} /\ durable = {} /\ issued = {} /\ over = {}

\* Nothing becomes durable but what works.
Saves == durable' \subseteq durable \cup working'

\* Tokens stop working, and the end of tokens that do not work may be told.
End ==
  /\ working' \subseteq working /\ over \subseteq over'
  /\ Saves /\ Kept' /\ UNCHANGED issued

\* A sign-in creates token t, and may take other tokens away.  The client gets
\* t unless the save fails.
SignIn(t) ==
  /\ t \notin working \cup issued \cup over
  /\ t \in working' /\ working' \subseteq working \cup {t}
  /\ issued' \in {issued, issued \cup {t}} /\ over \subseteq over'
  /\ Saves /\ Kept'

Restart == working' = durable /\ UNCHANGED <<durable, issued, over>>

Next == End \/ Restart \/ \E t \in Tokens : SignIn(t)

Spec == Init /\ [][Next]_vars

=============================================================================
