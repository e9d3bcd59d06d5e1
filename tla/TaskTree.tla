------------------------------ MODULE TaskTree ------------------------------
(***************************************************************************)
(* What the clients of db/DB.cc see of the task lists: a two-level tree.   *)
(* lists are the lists that exist, tasks the tasks that getAllTaskNodes    *)
(* shows.  A task is shown only in a list that exists, comes and goes      *)
(* alone or with its whole list, and a list never disappears without the   *)
(* tasks it shows.  Nodes, relationships and queries in progress are       *)
(* invisible here.                                                         *)
(***************************************************************************)
CONSTANTS UserKey, ListName, TaskName

VARIABLES lists, tasks

ListKey == UserKey \X ListName
TaskKey == UserKey \X ListName \X TaskName

ListOf(k)  == <<k[1], k[2]>>
TasksOf(L) == {k \in TaskKey : ListOf(k) \in L}

Init == lists = {} /\ tasks = {}

AddList(l) == /\ l \notin lists
              /\ lists' = lists \union {l}
              /\ UNCHANGED tasks

AddTask(k) == /\ ListOf(k) \in lists
              /\ tasks' = tasks \union {k}
              /\ UNCHANGED lists

RemoveTask(k) == tasks' = tasks \ {k} /\ UNCHANGED lists

ClearLists(L) == tasks' = tasks \ TasksOf(L) /\ UNCHANGED lists

RemoveLists(L) == /\ lists' = lists \ L
                  /\ tasks' = tasks \ TasksOf(L)

Clear == lists' = {} /\ tasks' = {}

(* One user's lists are cleared and removed together (deleteUserNode). *)
Next == \/ \E l \in ListKey : AddList(l)
        \/ \E k \in TaskKey : AddTask(k) \/ RemoveTask(k)
        \/ \E u \in UserKey : \E L \in SUBSET ({u} \X ListName) :
               ClearLists(L) \/ RemoveLists(L)
        \/ Clear

Spec == Init /\ [][Next]_<<lists, tasks>>
=============================================================================
