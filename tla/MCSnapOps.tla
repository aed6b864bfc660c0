----------------------------- MODULE MCSnapOps ------------------------------
(***************************************************************************)
(* Instances of SnapOps for TLC.                                           *)
(***************************************************************************)
EXTENDS SnapMarks, SnapOpsInv, TLC

CONSTANTS a, b,        \* snaps
          r1, r2, r3   \* requests

OneSnap  == {a}
TwoSnaps == {a, b}
RankOfOne == a :> 1
RankOfTwo == a :> 1 @@ b :> 2

TwoRequests   == {r1, r2}
ThreeRequests == {r1, r2, r3}

\* Requests are interchangeable: nothing orders or names them.
RequestSymmetry == Permutations(Requests)

SnapKinds == {"get", "install", "remove", "enable", "cancel"}

Free == {"available"}
FreeOrPriced == {"available", "priced"}

=============================================================================
