------------------------------ MODULE MCIcons ------------------------------
(***************************************************************************)
(* Instances of Icons for TLC: two revisions whose icons have one name,    *)
(* and a third whose icon has another.                                     *)
(***************************************************************************)
EXTENDS Icons, TLC

CONSTANTS r1, r2, f1, f2

OneRenamed == <<f1, f1, f2>>
AnyRequest == Permutations(Requests)

=============================================================================
