-------------------------------- MODULE MCDB --------------------------------
(* Constants for model-checking DB, and bounds on its instances.           *)
EXTENDS DBTree, TLC

ThreadSymmetry == Permutations(Thread)

AnyValue == CHOOSE v \in Value : TRUE

(* Create a node with its content; create a list with a visibility.        *)
CreateInfos == {[fields |-> {"key", "value"}, visibility |-> "private",
                 value |-> AnyValue]}

(* Lists are created shared, so that access can be granted at once, and    *)
(* closed or published later.                                              *)
SharedInfos == {[fields |-> {"key", "visibility", "value"},
                 visibility |-> "shared", value |-> AnyValue]}
               \union {[fields |-> {"visibility"}, visibility |-> v, value |-> AnyValue] :
                          v \in {"private", "public"}}

(* Two contents, a create and a revise with each, and an empty map, which   *)
(* every method refuses.                                                   *)
DataInfos == {[fields |-> F, visibility |-> "private", value |-> v] :
                F \in {{"key", "value"}, {"value"}}, v \in Value}
             \union {[fields |-> {}, visibility |-> "private", value |-> AnyValue]}
=============================================================================
