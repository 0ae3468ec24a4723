-------------------------------- MODULE Lists --------------------------------
(***************************************************************************)
(* The filters of lists of addresses, which both ends of the system use.   *)
(* Elements are kept by their position: what SelectSeq does for a test of  *)
(* the element, and what ListProofs can reason about by induction.         *)
(***************************************************************************)
EXTENDS Integers, Sequences

\* The elements of s at the positions in I, in their order.
ElementsAt(s, I) ==
  LET upTo[n \in 0..Len(s)] ==
        IF n = 0 THEN <<>>
        ELSE IF n \in I THEN Append(upTo[n-1], s[n]) ELSE upTo[n-1]
  IN  upTo[Len(s)]

\* The elements of s that are in S.
Filter(s, S) == ElementsAt(s, {i \in 1..Len(s) : s[i] \in S})

\* Each element of s where it comes first: what a loop over s collects that skips
\* what it has seen.
Distinct(s) == ElementsAt(s, {i \in 1..Len(s) : \A j \in 1..(i-1) : s[j] # s[i]})

==============================================================================
