----------------------------- MODULE MCSettings -----------------------------
(***************************************************************************)
(* An instance of Settings for TLC: two changes, two servers; every offset *)
(* in use, to the quarter of an hour, is looked at, and two are changed at.*)
(***************************************************************************)
EXTENDS Settings, TLC

CONSTANTS s1, s2, r1, r2

QuarterHours == {900 * q : q \in -48..56}
SomeTimes == {1500000000, 1500076799}
SomeDays == {17000, 17400}
SomeClocks == {0, 1439}
SomePicks == {1, 34}

Symmetry == Permutations({r1, r2}) \cup Permutations({s1, s2})

=============================================================================
