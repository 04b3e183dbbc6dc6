------------------------- MODULE MCCommandExecution -------------------------
(* TLC instances of CommandExecution.                                      *)
EXTENDS CommandExecution, TLC

CONSTANTS a1, a2, a3, a4, a5, k1, k2, e1, c1, c2

NoKeys == {}
NoAttempts == {}
OneEvent == {e1}
OneContent == {c1}
TwoContents == {c1, c2}

\* One key with a TTL: three calls of one request and one of another.
TtlKeys == {k1}
TtlAttempts == {a1, a2, a3, a4}
TtlKeyOf == [a \in TtlAttempts |-> k1]
TtlHashOf == [a \in TtlAttempts |-> IF a = a4 THEN "h2" ELSE "h1"]
TtlEventOf == [a \in TtlAttempts |-> e1]
TtlSymmetry == Permutations({a1, a2, a3}) \cup Permutations(TwoContents)

\* A retained key and one with non-final results, each with a repetition or two
\* and a recovery-only call; both commands announce the same event.
MixedKeys == {k1, k2}
MixedRetained == {k1}
MixedProvisional == {k2}
MixedAttempts == {a1, a2, a3, a4, a5}
MixedReplayOnly == {a5}
MixedKeyOf == [a \in MixedAttempts |-> IF a \in {a1, a2} THEN k1 ELSE k2]
MixedHashOf == [a \in MixedAttempts |-> IF a \in {a1, a2} THEN "h1" ELSE "h2"]
MixedEventOf == [a \in MixedAttempts |-> e1]

=============================================================================
