------------------------------- MODULE MCHome -------------------------------
(***************************************************************************)
(* An instance of Home for TLC: one snap, the page's two fetches, a poll   *)
(* of one of its models, and a request of another client.                  *)
(***************************************************************************)
EXTENDS Home, TLC

CONSTANTS a, tracked, installed, poll, other

OneSnap     == {a}
RankOfOne   == a :> 1
OnePoll     == {poll}
AllRequests == {tracked, installed, poll, other}
HomeKinds   == {"tracked", "list", "get", "install", "remove", "cancel"}
Free        == {"available"}

=============================================================================
