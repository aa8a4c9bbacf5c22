---------------------------- MODULE MatrixStore ----------------------------
(***************************************************************************)
(* What submitting a matrix setting promises, seen from the list of rows   *)
(* stored at its path (spec 4.6): between submissions the list does not    *)
(* change.  A submission has a goal, the bag of complete rows the operator *)
(* submitted.  While it runs the list may be emptied, may grow by one row  *)
(* of the goal, or may be replaced by the goal as a whole; any remote call *)
(* may be refused, which leaves the list alone and marks the submission    *)
(* failed.  It ends only with the list holding exactly the goal's rows, or *)
(* failed.  The order of the rows and the reporting of a failure to the    *)
(* operator are not part of this promise.                                  *)
(***************************************************************************)
EXTENDS Sequences, Bags, SequencesExt

CONSTANTS
    Rows        \* the rows a list can hold

VARIABLES
    list,       \* the stored rows (<<>> when nothing is stored)
    busy,       \* a submission is running
    goal,       \* the bag of rows submitted
    failed      \* a remote call of the submission was refused

vars == <<list, busy, goal, failed>>

IsGoal(g) == IsABag(g) /\ DOMAIN g \subseteq Rows

Init ==
    /\ list \in Seq(Rows)
    /\ busy = FALSE
    /\ goal = EmptyBag
    /\ failed = FALSE

\* A form is opened or edited: the goal it would submit may change.
Prepare ==
    /\ ~busy
    /\ IsGoal(goal')
    /\ failed' = FALSE
    /\ UNCHANGED <<list, busy>>

\* The form is submitted with its goal.
Begin ==
    /\ ~busy
    /\ busy' = TRUE
    /\ IsGoal(goal')
    /\ UNCHANGED <<list, failed>>

\* The stored list is removed.
Clear ==
    /\ busy
    /\ list' = <<>>
    /\ UNCHANGED <<busy, goal, failed>>

\* One row of the goal is added at the end of the list.
Put ==
    /\ busy
    /\ \E r \in BagToSet(goal) : list' = Append(list, r)
    /\ UNCHANGED <<busy, goal, failed>>

\* The list is replaced by the goal's rows, in some order.
Replace ==
    /\ busy
    /\ list' \in Seq(Rows)
    /\ ToBag(list') = goal
    /\ UNCHANGED <<busy, goal, failed>>

\* A remote call is refused: the list stays as it is.
Refuse ==
    /\ busy
    /\ failed' = TRUE
    /\ UNCHANGED <<list, busy, goal>>

\* The submission ends with the goal stored, or failed.
End ==
    /\ busy
    /\ failed \/ ToBag(list) = goal
    /\ busy' = FALSE
    /\ UNCHANGED <<list, goal, failed>>

Next == Prepare \/ Begin \/ Clear \/ Put \/ Replace \/ Refuse \/ End

Spec == Init /\ [][Next]_vars

=============================================================================
