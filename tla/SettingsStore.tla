---------------------------- MODULE SettingsStore ----------------------------
(***************************************************************************)
(* What applying a properties form promises (spec 4.4 and 4.5), seen from  *)
(* the values the running module uses: eff[s] is the value in effect for   *)
(* field s.  Between submissions nothing changes it.  A submission fixes a *)
(* goal for some fields (the value the operator asked for); while it runs, *)
(* a field either takes its goal value or has its write refused, and       *)
(* refusals are reported.  It completes only when every field with a goal  *)
(* holds it or was reported refused.  A field without a goal never         *)
(* changes.  Fields change one at a time and no order is promised.         *)
(***************************************************************************)
CONSTANTS
    Settings,   \* the fields of the form
    Values      \* the values a field can be in effect with

VARIABLES
    eff,        \* the value in effect for every field
    busy,       \* a submission is being applied, or has been
    goal,       \* the submission's goal: a function on some of the fields
    refused,    \* the fields whose write was reported refused
    done        \* the submission has completed

vars == <<eff, busy, goal, refused, done>>

Goals == UNION {[F -> Values] : F \in SUBSET Settings}

Init ==
    /\ eff \in [Settings -> Values]
    /\ busy = FALSE
    /\ goal \in Goals
    /\ refused = {}
    /\ done = FALSE

\* The operator prepares a form: the goal it would submit may change.
Prepare ==
    /\ ~busy
    /\ goal' \in Goals
    /\ UNCHANGED <<eff, busy, refused, done>>

\* A submission starts with the prepared goal.
Begin ==
    /\ ~busy
    /\ busy' = TRUE
    /\ UNCHANGED <<eff, goal, refused, done>>

\* Field s takes its goal value.
Apply(s) ==
    /\ busy /\ ~done
    /\ s \in DOMAIN goal
    /\ eff' = [eff EXCEPT ![s] = goal[s]]
    /\ UNCHANGED <<busy, goal, refused, done>>

\* The write of field s is refused, and the refusal reported.
Refuse(s) ==
    /\ busy /\ ~done
    /\ refused' = refused \cup {s}
    /\ UNCHANGED <<eff, busy, goal, done>>

\* The submission completes: every goal is met or reported refused.
Complete ==
    /\ busy /\ ~done
    /\ \A s \in DOMAIN goal : s \in refused \/ eff[s] = goal[s]
    /\ done' = TRUE
    /\ UNCHANGED <<eff, busy, goal, refused>>

\* The form is opened again after a completed submission.
Close ==
    /\ done
    /\ busy' = FALSE /\ done' = FALSE /\ refused' = {}
    /\ goal' \in Goals
    /\ UNCHANGED eff

Next ==
    \/ Prepare \/ Begin \/ Complete \/ Close
    \/ \E s \in Settings : Apply(s) \/ Refuse(s)

Spec == Init /\ [][Next]_vars

=============================================================================
