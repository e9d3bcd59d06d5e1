----------------------------- MODULE MCTaskForms -----------------------------
(* Constants for model-checking TaskForms.                                 *)
EXTENDS TaskForms, TLC

ClientSymmetry == Permutations(Client)

Blank == [f \in Field |-> 0]
Dates(s, e) == "startDate" :> s @@ "endDate" :> e

(* Programs send any of the fields, with and without dates, valid or not.  *)
MCRequests == {m @@ Blank : m \in
    {"content" :> 1021, "content" :> 1022, Dates(1, 2) @@ "date" :> 1,
     "status" :> 1 @@ "priority" :> 3, "date" :> 1, Dates(2, 1), "startDate" :> 2,
     "endDate" :> 1, Dates(NoDate, 2), "priority" :> 4, "status" :> 4}}

(* A user changes nothing, one field, both dates, one date (to something   *)
(* that may not fit the other), or clears a field.                         *)
MCEdits == {<<>>, "content" :> 1021, "content" :> 0, Dates(1, 1), "endDate" :> 1,
            "startDate" :> 0}
=============================================================================
