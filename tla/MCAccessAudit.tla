---------------------------- MODULE MCAccessAudit ----------------------------
(* Constants for model-checking AccessAudit.                               *)
EXTENDS AccessAudit, TLC

ThreadSymmetry == Permutations(Thread)

AnyValue == CHOOSE v \in Value : TRUE

(* A list is created private and revised to any visibility. *)
SharingInfos ==
    {[fields |-> {"key", "value"}, visibility |-> "private", value |-> AnyValue]}
    \union {[fields |-> {"visibility"}, visibility |-> v, value |-> AnyValue] :
               v \in Visibility}
=============================================================================
