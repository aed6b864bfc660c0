----------------------------- MODULE SnapMarks ------------------------------
(***************************************************************************)
(* SnapOps implements OperationMarks: the mark of a snap is the request    *)
(* that wrote its entry, and a request is spent when it is over.           *)
(***************************************************************************)
EXTENDS SnapOps

markBar  == [n \in Snaps |-> IF states[n] = None THEN None ELSE states[n].by]
spentBar == {r \in Requests : pc[r] = "done"}

Marks == INSTANCE OperationMarks WITH mark <- markBar, spent <- spentBar

\* The tracker with its goroutines, its mutex and the requests around it is
\* one that marks and forgets: every request marks at most once, a mark that
\* was dropped (finished, cancelled, expired, lost in a restart) never comes
\* back, and each mark is dropped in the end.
ImplementsMarks == Marks!FairSpec

\* The part of it that does not depend on fairness.
ImplementsMarksSafely == Marks!Spec

=============================================================================
