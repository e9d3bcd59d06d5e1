------------------------------- MODULE DBTree -------------------------------
(* DB implements the tree of lists and tasks its clients see.              *)
EXTENDS DB

ExistingLists == {l \in ListKey : list[l] # None}
ListedTasks   == {k \in TaskKey : Listed(k)}

Tree == INSTANCE TaskTree WITH lists <- ExistingLists, tasks <- ListedTasks

(* Every step of every method, failure and crash changes what the clients  *)
(* see the way TaskTree allows, or not at all.                             *)
ImplementsTree == Tree!Spec
=============================================================================
