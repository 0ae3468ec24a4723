-------------------------- MODULE MCClientGateways --------------------------
(* Three gateways, as many as the nested retries need, and a configuration  *)
(* that lists one of them twice.                                            *)
EXTENDS ClientGateways

\* Filter against the library's SelectSeq, and Distinct against the loop that the
\* code is (syncFromCurrentConfig: addCandidate skips what it has seen).
ASSUME FilterIsSelectSeq ==
  \A n \in 0..4 : \A s \in [1..n -> Gateways], S \in SUBSET Gateways :
    Filter(s, S) = SelectSeq(s, LAMBDA x : x \in S)
ASSUME DistinctIsTheLoop ==
  \A n \in 0..4 : \A s \in [1..n -> Gateways] :
    Distinct(s) =
      FoldLeft(LAMBDA seen, x : IF x \in Range(seen) THEN seen ELSE Append(seen, x), <<>>, s)

MCBundles == {<<"a", "b", "c">>, <<"c", "a", "c">>}

=============================================================================
