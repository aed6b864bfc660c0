---------------------------- MODULE MCSnapViews -----------------------------
(***************************************************************************)
(* An instance of SnapViews for TLC: one snap, an installation and two     *)
(* clients that watch it.                                                  *)
(***************************************************************************)
EXTENDS SnapViews, TLC

CONSTANTS a, r1, r2, r3

OneSnap   == {a}
RankOfOne == a :> 1
ThreeRequests  == {r1, r2, r3}
InstallAndRead == {"install", "get"}
Free == {"available"}

=============================================================================
