--------------------------- MODULE DBListingProofs ---------------------------
(***************************************************************************)
(* Proofs about what the listings of DB show: no list or task that exists  *)
(* is hidden for good, under the conditions the properties name; creates   *)
(* never change the data of a node that exists, a task they left unlisted  *)
(* stays so, what they acknowledge is listed, and a task is created in a   *)
(* list.  Last, DB implements TaskTree: every step of every method changes *)
(* what clients see as one step of the tree, or not at all.                *)
(***************************************************************************)
EXTENDS DBTree, DBProofs

(* A thread's step leaves the calls of the other threads alone.            *)
LEMMA OthersWait ==
    ASSUME NEW t \in Thread, TypeOK,
           Query(t) \/ \E r \in Requests : Begin(t, r)
    PROVE  \A s \in Thread \ {t} : call'[s] = call[s] /\ step'[s] = step[s]
BY QueryApart, BeginApart DEF Apart

(* What a thread is executing is one of the methods in use.                *)
LEMMA MethodInUse ==
    ASSUME NEW t \in Thread, TypeOK
    PROVE  call[t].method \in Methods \union {"none"}
BY CallFields DEF TypeOK, Request

(* A thread that leaves a method, or enters one, is not in its middle.     *)
LEMMA OwnStep ==
    ASSUME NEW t \in Thread, TypeOK, Query(t)
    PROVE  (call'[t] = call[t] /\ step'[t] = step[t] + 1) \/ step'[t] = 0
BY QueryApart

(* No method in use deletes a user, or a list. *)
UsersStay == Methods \intersect {"deleteUserNode", "deleteEverything"} = {}
ListsStay == "deleteTaskListNode" \notin Methods

(* While no user is deleted, users stay, and every method but              *)
(* createTaskListNode leaves the lists that it does not delete linked.     *)
LEMMA ListsStayLinked ==
    ASSUME NEW t \in Thread, TypeOK, Query(t), UsersStay
    PROVE  /\ \A u \in UserKey : user[u] # None => user'[u] # None
           /\ \A l \in ListKey : list'[l] # None =>
                 \A e \in owns : e[2] = l => e \in owns'
           /\ call[t].method # "createTaskListNode" =>
                 \A l \in ListKey : list'[l] # None => list[l] # None
<1> USE DEF TypeOK, GraphTypeOK
<1>1. CASE Reads(t)
  BY <1>1, ReadsKeepGraph DEF graph
<1>2. CASE deleteUserNode(t) \/ deleteEverything(t)
  BY <1>2, MethodInUse DEF deleteUserNode, deleteEverything, At, UsersStay
<1>3. CASE deleteTaskListNode(t) \/ deleteTaskNode(t)
  BY <1>3 DEF deleteTaskListNode, deleteTaskNode, DetachTasks, DetachLists
<1>4. CASE \/ createUserNode(t) \/ createTaskNode(t) \/ reviseUserNode(t)
           \/ reviseTaskNode(t) \/ addAccess(t) \/ removeAccess(t)
  <2>1. list' = list /\ owns' = owns
    BY <1>4 DEF createUserNode, createTaskNode, reviseUserNode, reviseTaskNode,
                addAccess, removeAccess, MustExist, graph, nodes, edges, Taken,
                Duplicate, MergeContains, MergeAccess
  <2> QED
    BY <1>4, <2>1, NodesStay
<1>5. CASE reviseTaskListNode(t)
  <2>1. /\ owns' = owns
        /\ \A l \in ListKey : list[l] = None => list'[l] = None
    BY <1>5 DEF reviseTaskListNode, graph, edges
  <2> QED
    BY <1>5, <2>1, NodesStay
<1>6. CASE createTaskListNode(t)
  <2>1. owns \subseteq owns' /\ call[t].method = "createTaskListNode"
    BY <1>6 DEF createTaskListNode, MustExist, graph, edges, At, Taken,
                Duplicate, MergeOwns
  <2> QED
    BY <1>6, <2>1, NodesStay
<1> QED
  BY <1>1, <1>2, <1>3, <1>4, <1>5, <1>6 DEF Query, Reads

(* A createTaskListNode that is past its check still has its user.         *)
LinkersHaveUser ==
    \A t \in Thread : At(t, "createTaskListNode", 2) \/ At(t, "createTaskListNode", 3)
                         => user[call[t].user] # None

HiddenListInv == NoHiddenList /\ LinkersHaveUser

(* No query of a method in use hides a list.                               *)
LEMMA HiddenListQuery ==
    ASSUME TypeOK, HiddenListInv, UsersStay,
           NEW t \in Thread, Query(t)
    PROVE  HiddenListInv'
<1> DEFINE c == call[t]
<1>1. /\ c.user \in UserKey /\ Key(c) \in ListKey
      /\ \A s \in Thread : call[s].user \in UserKey
      /\ Key(c)[1] = c.user
  BY CallFields DEF TypeOK, Request, Key, ListKey
<1>2. \A s \in Thread \ {t} : call'[s] = call[s] /\ step'[s] = step[s]
  BY OthersWait
<1>3. (call'[t] = call[t] /\ step'[t] = step[t] + 1) \/ step'[t] = 0
  BY OwnStep
<1>4. /\ \A u \in UserKey : user[u] # None => user'[u] # None
      /\ \A l \in ListKey : list'[l] # None =>
            \A e \in owns : e[2] = l => e \in owns'
      /\ call[t].method # "createTaskListNode" =>
            \A l \in ListKey : list'[l] # None => list[l] # None
  BY ListsStayLinked
<1>5. \A l \in ListKey : list'[l] # None /\ <<l[1], l>> \in owns => <<l[1], l>> \in owns'
  BY <1>4
<1>6. CASE c.method # "createTaskListNode"
  <2>1. LinkersHaveUser'
    BY <1>1, <1>2, <1>3, <1>4, <1>6 DEF HiddenListInv, LinkersHaveUser, At
  <2>2. NoHiddenList'
    <3> SUFFICES ASSUME NEW l \in ListKey, list'[l] # None, <<l[1], l>> \notin owns'
                 PROVE  \E s \in Thread : At(s, "createTaskListNode", 3)'
                                          /\ Key(call'[s]) = l
      BY DEF NoHiddenList, Key
    <3>1. PICK s \in Thread : At(s, "createTaskListNode", 3) /\ Key(call[s]) = l
      BY <1>4, <1>5, <1>6 DEF HiddenListInv, NoHiddenList
    <3>2. s # t
      BY <1>6, <3>1 DEF At
    <3> QED
      BY <1>2, <3>1, <3>2 DEF At
  <2> QED
    BY <2>1, <2>2 DEF HiddenListInv
<1>7. CASE c.method = "createTaskListNode"
  <2>1. createTaskListNode(t)
    BY <1>7 DEF Query, At, createUserNode, createTaskNode, reviseUserNode,
                reviseTaskListNode, reviseTaskNode, deleteUserNode,
                deleteTaskListNode, deleteTaskNode, getUserNode,
                getTaskListNode, getTaskNode, getAllUserNodes,
                getAllTaskListNodes, getAllTaskNodes, addAccess, checkAccess,
                removeAccess, allAccess, allGrant, getAllPublic,
                deleteEverything
  <2>2. LinkersHaveUser'
    <3>1. step[t] = 1 /\ step'[t] # 0 => user[c.user] # None
      BY <1>7, <2>1 DEF createTaskListNode, At, MustExist, Return, Reply,
                        TypeOK, CallTypeOK, Taken, Duplicate, MergeOwns
    <3>2. step[t] \in 1..3
      BY <2>1 DEF createTaskListNode, At, Taken, Duplicate, MergeOwns
    <3> QED
      BY <1>1, <1>2, <1>3, <1>4, <1>7, <3>1, <3>2
         DEF HiddenListInv, LinkersHaveUser, At
  <2>3. ASSUME NEW l \in ListKey, list'[l] # None, <<l[1], l>> \notin owns'
        PROVE  \E s \in Thread : At(s, "createTaskListNode", 3)' /\ Key(call'[s]) = l
    <3>1. CASE list[l] = None
      BY <1>7, <2>1, <2>3, <3>1
         DEF createTaskListNode, At, MustExist, Advance, graph, nodes, TypeOK,
             GraphTypeOK, CallTypeOK, Taken, Duplicate, MergeOwns
    <3>2. CASE list[l] # None
      <4>1. PICK s \in Thread : At(s, "createTaskListNode", 3) /\ Key(call[s]) = l
        BY <1>5, <2>3, <3>2 DEF HiddenListInv, NoHiddenList
      <4>2. CASE s # t
        BY <1>2, <4>1, <4>2 DEF At
      <4>3. CASE s = t
        <5>1. user[c.user] # None
          BY <4>1, <4>3 DEF HiddenListInv, LinkersHaveUser
        <5>2. <<c.user, l>> \in owns'
          BY <2>1, <3>2, <4>1, <4>3, <5>1 DEF createTaskListNode, At, Taken,
                                              Duplicate, MergeOwns
        <5> QED
          BY <1>1, <2>3, <4>1, <4>3, <5>2
      <4> QED
        BY <4>2, <4>3
    <3> QED
      BY <3>1, <3>2
  <2> QED
    BY <2>2, <2>3 DEF HiddenListInv, NoHiddenList, Key
<1> QED
  BY <1>6, <1>7

(* With reliable queries and no user deletion, getAllTaskListNodes shows   *)
(* every list that exists and is not just being created.                   *)
THEOREM NoListIsHidden ==
    ASSUME ~Unreliable, UsersStay
    PROVE  Spec => []NoHiddenList
<1>1. Init => HiddenListInv
  BY DEF Init, HiddenListInv, NoHiddenList, LinkersHaveUser, At
<1>2. TypeOK /\ HiddenListInv /\ [Next]_vars => HiddenListInv'
  <2> SUFFICES ASSUME TypeOK, HiddenListInv, [Next]_vars PROVE HiddenListInv'
    OBVIOUS
  <2>1. ASSUME NEW t \in Thread, NEW r \in Requests, Begin(t, r)
        PROVE  HiddenListInv'
    <3>1. \A s \in Thread \ {t} : call'[s] = call[s] /\ step'[s] = step[s]
      BY <2>1, OthersWait
    <3>2. step[t] = 0 /\ step'[t] \in {0, 1} /\ UNCHANGED <<user, list, owns>>
      BY <2>1 DEF Begin, graph, TypeOK, CallTypeOK
    <3> QED
      BY <3>1, <3>2 DEF HiddenListInv, NoHiddenList, LinkersHaveUser, At
  <2>2. ASSUME NEW t \in Thread, Query(t) PROVE HiddenListInv'
    BY <2>2, HiddenListQuery
  <2>3. ASSUME NEW t \in Thread, QueryFails(t) PROVE FALSE
    BY <2>3 DEF QueryFails
  <2>4. ~Crash
    BY DEF Crash
  <2>5. CASE UNCHANGED vars
    BY <2>5 DEF vars, HiddenListInv, NoHiddenList, LinkersHaveUser, At
  <2> QED
    BY <2>1, <2>2, <2>3, <2>4, <2>5 DEF Next
<1>3. HiddenListInv => NoHiddenList
  BY DEF HiddenListInv
<1> QED
  BY <1>1, <1>2, <1>3, TypeCorrect, PTL DEF Spec

-----------------------------------------------------------------------------
(* The same argument one level down.  While no user and no list is         *)
(* deleted, lists stay, and every method but createTaskNode leaves the     *)
(* tasks that it does not delete in their lists.                           *)
LEMMA TasksStayListed ==
    ASSUME NEW t \in Thread, TypeOK, Query(t), UsersStay, ListsStay
    PROVE  /\ \A l \in ListKey : list[l] # None => list'[l] # None
           /\ \A k \in TaskKey : task'[k] # None =>
                 \A e \in contains : e[2] = k => e \in contains'
           /\ call[t].method # "createTaskNode" =>
                 \A k \in TaskKey : task'[k] # None => task[k] # None
<1> USE DEF TypeOK, GraphTypeOK
<1>1. CASE Reads(t)
  BY <1>1, ReadsKeepGraph DEF graph
<1>2. CASE deleteUserNode(t) \/ deleteTaskListNode(t) \/ deleteEverything(t)
  BY <1>2, MethodInUse DEF deleteUserNode, deleteTaskListNode,
                           deleteEverything, At, UsersStay, ListsStay
<1>3. CASE deleteTaskNode(t)
  BY <1>3 DEF deleteTaskNode, DetachTasks
<1>4. CASE \/ createUserNode(t) \/ createTaskListNode(t) \/ reviseUserNode(t)
           \/ reviseTaskListNode(t) \/ addAccess(t) \/ removeAccess(t)
  <2>1. task' = task /\ contains' = contains
    BY <1>4 DEF createUserNode, createTaskListNode, reviseUserNode,
                reviseTaskListNode, addAccess, removeAccess, MustExist, graph,
                nodes, edges, Taken, Duplicate, MergeOwns, MergeAccess
  <2> QED
    BY <1>4, <2>1, NodesStay
<1>5. CASE reviseTaskNode(t)
  <2>1. /\ contains' = contains
        /\ \A k \in TaskKey : task[k] = None => task'[k] = None
    BY <1>5 DEF reviseTaskNode, graph, edges
  <2> QED
    BY <1>5, <2>1, NodesStay
<1>6. CASE createTaskNode(t)
  <2>1. contains \subseteq contains' /\ call[t].method = "createTaskNode"
    BY <1>6 DEF createTaskNode, MustExist, graph, edges, At, Taken, Duplicate,
                MergeContains
  <2> QED
    BY <1>6, <2>1, NodesStay
<1> QED
  BY <1>1, <1>2, <1>3, <1>4, <1>5, <1>6 DEF Query, Reads

(* A createTaskNode that is past its checks still has its list.            *)
LinkersHaveList ==
    \A t \in Thread : At(t, "createTaskNode", 3) \/ At(t, "createTaskNode", 4)
                         => list[Key(call[t])] # None

-----------------------------------------------------------------------------
(* The graph changes in the queries of the threads only.                   *)
LEMMA GraphSteps ==
    ASSUME [Next]_vars, graph' # graph
    PROVE  \E t \in Thread : Query(t)
BY DEF Next, Begin, QueryFails, Crash, vars, graph

(* What a query does to the nodes that stay: only the query of a revise,   *)
(* on the node its call names, changes one.                                *)
LEMMA QueryKeepsData ==
    ASSUME NEW t \in Thread, TypeOK, Query(t)
    PROVE  LET c == call[t] IN
           /\ \A u \in UserKey : user[u] # None /\ user'[u] \notin {None, user[u]} =>
                 Revises(t, "reviseUserNode") /\ c.user = u
           /\ \A l \in ListKey : list[l] # None /\ list'[l] \notin {None, list[l]} =>
                 Revises(t, "reviseTaskListNode") /\ Key(c) = l
           /\ \A k \in TaskKey : task[k] # None /\ task'[k] \notin {None, task[k]} =>
                 Revises(t, "reviseTaskNode") /\ KeyTask(c) = k
<1> USE DEF TypeOK, GraphTypeOK
<1>1. CASE Reads(t)
  BY <1>1, ReadsKeepGraph DEF graph
<1>2. CASE addAccess(t) \/ removeAccess(t)
  BY <1>2 DEF addAccess, removeAccess, MustExist, MergeAccess, graph, nodes
<1>3. CASE deleteUserNode(t) \/ deleteTaskListNode(t)
  BY <1>3 DEF deleteUserNode, deleteTaskListNode, DetachTasks, DetachLists, DetachUser
<1>4. CASE deleteTaskNode(t) \/ deleteEverything(t)
  BY <1>4 DEF deleteTaskNode, deleteEverything, DetachTasks, DetachAll
<1>5. CASE createUserNode(t)
  BY <1>5 DEF createUserNode, Taken, Duplicate, graph, edges
<1>6. CASE createTaskListNode(t)
  BY <1>6 DEF createTaskListNode, MustExist, Taken, Duplicate, MergeOwns,
              graph, nodes, edges
<1>7. CASE createTaskNode(t)
  BY <1>7 DEF createTaskNode, MustExist, Taken, Duplicate, MergeContains,
              graph, nodes, edges
<1>8. CASE reviseUserNode(t)
  BY <1>8 DEF reviseUserNode, Revises, At, Finish, Return, Reply, CallTypeOK,
              graph, edges
<1>9. CASE reviseTaskListNode(t)
  BY <1>9 DEF reviseTaskListNode, Revises, At, Finish, Return, Reply, CallTypeOK,
              graph, edges
<1>10. CASE reviseTaskNode(t)
  BY <1>10 DEF reviseTaskNode, Revises, At, Finish, Return, Reply, CallTypeOK,
              graph, edges
<1> QED
  BY <1>1, <1>2, <1>3, <1>4, <1>5, <1>6, <1>7, <1>8, <1>9, <1>10 DEF Query, Reads

(* The data of a node that exists changes only in the step that finishes a *)
(* revise of it: two creates of one key never overwrite each other.        *)
THEOREM CreatesKeepData == Spec => CreateKeepsData
<1> DEFINE Kept ==
       /\ \A u \in UserKey : user[u] # None /\ user'[u] \notin {None, user[u]} =>
             \E t \in Thread : Revises(t, "reviseUserNode") /\ call[t].user = u
       /\ \A l \in ListKey : list[l] # None /\ list'[l] \notin {None, list[l]} =>
             \E t \in Thread : Revises(t, "reviseTaskListNode") /\ Key(call[t]) = l
       /\ \A k \in TaskKey : task[k] # None /\ task'[k] \notin {None, task[k]} =>
             \E t \in Thread : Revises(t, "reviseTaskNode") /\ KeyTask(call[t]) = k
<1>1. TypeOK /\ [Next]_vars => Kept
  <2> SUFFICES ASSUME TypeOK, [Next]_vars PROVE Kept
    OBVIOUS
  <2>1. CASE graph' = graph
    BY <2>1 DEF graph
  <2>2. CASE graph' # graph
    BY <2>2, GraphSteps, QueryKeepsData
  <2> QED
    BY <2>1, <2>2
<1> QED
  BY <1>1, TypeCorrect, PTL DEF Spec, CreateKeepsData

-----------------------------------------------------------------------------
(* A query links a task only at the end of its createTaskNode, and gets    *)
(* there only with a task that it has made.                                *)
LEMMA QueryLinks ==
    ASSUME NEW t \in Thread, TypeOK, Query(t)
    PROVE  LET c == call[t] IN
           /\ \A e \in contains' \ contains :
                 At(t, "createTaskNode", 4) /\ e = <<Key(c), KeyTask(c)>>
           /\ At(t, "createTaskNode", 4)' =>
                 /\ At(t, "createTaskNode", 3) /\ call'[t] = c
                 /\ task[KeyTask(c)] = None
<1>1. \A e \in contains' \ contains :
         At(t, "createTaskNode", 4) /\ e = <<Key(call[t]), KeyTask(call[t])>>
  <2>1. CASE Reads(t)
    BY <2>1, ReadsKeepGraph DEF graph
  <2>2. CASE createTaskNode(t)
    BY <2>2 DEF createTaskNode, MustExist, Duplicate, MergeContains, graph, edges
  <2>3. CASE \/ createUserNode(t) \/ createTaskListNode(t) \/ reviseUserNode(t)
             \/ reviseTaskListNode(t) \/ reviseTaskNode(t)
             \/ addAccess(t) \/ removeAccess(t)
    BY <2>3 DEF createUserNode, createTaskListNode, reviseUserNode,
                reviseTaskListNode, reviseTaskNode, addAccess, removeAccess,
                MustExist, Duplicate, MergeOwns, MergeAccess, graph, edges
  <2>4. CASE \/ deleteUserNode(t) \/ deleteTaskListNode(t) \/ deleteTaskNode(t)
             \/ deleteEverything(t)
    BY <2>4 DEF deleteUserNode, deleteTaskListNode, deleteTaskNode,
                deleteEverything, DetachTasks, DetachLists, DetachUser, DetachAll
  <2> QED
    BY <2>1, <2>2, <2>3, <2>4 DEF Query, Reads
<1>2. ASSUME At(t, "createTaskNode", 4)'
      PROVE  /\ At(t, "createTaskNode", 3) /\ call'[t] = call[t]
             /\ task[KeyTask(call[t])] = None
  <2>1. call'[t] = call[t] /\ step'[t] = step[t] + 1 /\ step'[t] = 4
    BY <1>2, OwnStep DEF At
  <2>2. step[t] = 3
    BY <2>1 DEF TypeOK, CallTypeOK
  <2>3. At(t, "createTaskNode", 3)
    BY <1>2, <2>1, <2>2 DEF At
  <2>4. createTaskNode(t)
    BY <2>3, QueryOf DEF At
  <2>5. ~Taken(task[KeyTask(call[t])])
    BY <2>1, <2>3, <2>4 DEF createTaskNode, At, Duplicate, Return, Reply,
                            TypeOK, CallTypeOK
  <2> QED
    BY <2>1, <2>3, <2>5 DEF Taken
<1> QED
  BY <1>1, <1>2

(* What createTaskNode, or any step, left unlisted never turns up again.   *)
THEOREM UnlistedStaysUnlisted == Spec => NoResurrection
<1>1. TypeOK /\ [Next]_vars =>
         \A k \in TaskKey : Hidden(k) /\ task'[k] # None => Hidden(k)'
  <2> SUFFICES ASSUME TypeOK, [Next]_vars, NEW k \in TaskKey,
                      task[k] # None, ~Listed(k), ~Linking(k)
               PROVE  ~Listed(k)' /\ ~Linking(k)'
    BY DEF Hidden
  <2>1. ASSUME NEW t \in Thread, Query(t) PROVE ~Listed(k)' /\ ~Linking(k)'
    <3>1. ~Listed(k)'
      BY <2>1, QueryLinks DEF Listed, Linking
    <3>2. ASSUME NEW s \in Thread, At(s, "createTaskNode", 4)',
                 KeyTask(call'[s]) = k
          PROVE  FALSE
      <4>1. CASE s = t
        BY <2>1, <3>2, <4>1, QueryLinks
      <4>2. CASE s # t
        BY <2>1, <3>2, <4>2, OthersWait DEF At, Linking
      <4> QED
        BY <4>1, <4>2
    <3>3. ~Linking(k)'
      BY <3>2 DEF Linking, KeyTask
    <3> QED
      BY <3>1, <3>3
  <2>2. ASSUME NEW t \in Thread, NEW r \in Requests, Begin(t, r)
        PROVE  ~Listed(k)' /\ ~Linking(k)'
    <3>1. \A s \in Thread \ {t} : call'[s] = call[s] /\ step'[s] = step[s]
      BY <2>2, OthersWait
    <3>2. step'[t] \in {0, 1} /\ contains' = contains
      BY <2>2 DEF Begin, graph, TypeOK, CallTypeOK
    <3> QED
      BY <3>1, <3>2 DEF Listed, Linking, At, KeyTask
  <2>3. ASSUME NEW t \in Thread, QueryFails(t) PROVE ~Listed(k)' /\ ~Linking(k)'
    BY <2>3 DEF QueryFails, Return, Reply, graph, Listed, Linking, At, KeyTask,
                TypeOK, CallTypeOK
  <2>4. CASE Crash
    BY <2>4 DEF Crash, graph, Listed, Linking, At, KeyTask
  <2>5. CASE UNCHANGED vars
    BY <2>5 DEF vars, Listed, Linking, At, KeyTask
  <2> QED
    BY <2>1, <2>2, <2>3, <2>4, <2>5 DEF Next
<1> QED
  BY <1>1, TypeCorrect, PTL DEF Spec, NoResurrection

-----------------------------------------------------------------------------
(* A create that is past its checks still has the node it hangs its own    *)
(* on, even if queries fail, as long as users and lists are not deleted.   *)
LinkersHaveParent == LinkersHaveUser /\ LinkersHaveList

(* Every step keeps that.                                                  *)
LEMMA ParentStays ==
    ASSUME UsersStay, ListsStay, TypeOK, LinkersHaveParent, [Next]_vars
    PROVE  LinkersHaveParent'
<1> USE DEF LinkersHaveParent
<1>1. \A s \in Thread : call[s].user \in UserKey /\ Key(call[s]) \in ListKey
  BY CallFields DEF TypeOK, Request, Key, ListKey
<1>2. ASSUME NEW t \in Thread, Query(t) PROVE LinkersHaveParent'
  <2>1. \A s \in Thread \ {t} : call'[s] = call[s] /\ step'[s] = step[s]
    BY <1>2, OthersWait
  <2>2. (call'[t] = call[t] /\ step'[t] = step[t] + 1) \/ step'[t] = 0
    BY <1>2, OwnStep
  <2>3. /\ \A u \in UserKey : user[u] # None => user'[u] # None
        /\ \A l \in ListKey : list[l] # None => list'[l] # None
    BY <1>2, ListsStayLinked, TasksStayListed
  <2>4. step[t] \in 0..4
    BY DEF TypeOK, CallTypeOK
  <2>5. ASSUME call[t].method = "createTaskListNode", step'[t] # 0
        PROVE  user[call[t].user] # None
    <3>1. createTaskListNode(t)
      BY <1>2, <2>5, QueryOf
    <3>2. CASE At(t, "createTaskListNode", 1)
      BY <2>5, <3>1, <3>2 DEF createTaskListNode, At, MustExist, Return, Reply,
                              TypeOK, CallTypeOK
    <3>3. CASE At(t, "createTaskListNode", 2) \/ At(t, "createTaskListNode", 3)
      BY <3>3 DEF LinkersHaveUser
    <3> QED
      BY <3>1, <3>2, <3>3 DEF createTaskListNode
  <2>6. ASSUME call[t].method = "createTaskNode", step'[t] \in {3, 4}
        PROVE  list[Key(call[t])] # None
    <3>1. createTaskNode(t) /\ step[t] \in {2, 3}
      BY <1>2, <2>2, <2>4, <2>6, QueryOf
    <3>2. CASE At(t, "createTaskNode", 2)
      BY <2>6, <3>1, <3>2 DEF createTaskNode, At, MustExist, Return, Reply,
                              TypeOK, CallTypeOK
    <3>3. CASE At(t, "createTaskNode", 3) \/ At(t, "createTaskNode", 4)
      BY <3>3 DEF LinkersHaveList
    <3> QED
      BY <3>1, <3>2, <3>3 DEF createTaskNode, At
  <2>7. ASSUME NEW s \in Thread, \/ At(s, "createTaskListNode", 2)'
                                 \/ At(s, "createTaskListNode", 3)'
        PROVE  user'[call'[s].user] # None
    <3>1. CASE s = t
      BY <1>1, <2>2, <2>3, <2>5, <2>7, <3>1 DEF At
    <3>2. CASE s # t
      BY <1>1, <2>1, <2>3, <2>7, <3>2 DEF At, LinkersHaveUser
    <3> QED
      BY <3>1, <3>2
  <2>8. ASSUME NEW s \in Thread, At(s, "createTaskNode", 3)' \/ At(s, "createTaskNode", 4)'
        PROVE  list'[Key(call'[s])] # None
    <3>1. CASE s = t
      BY <1>1, <2>2, <2>3, <2>6, <2>8, <3>1 DEF At
    <3>2. CASE s # t
      BY <1>1, <2>1, <2>3, <2>8, <3>2 DEF At, LinkersHaveList
    <3> QED
      BY <3>1, <3>2
  <2> QED
    BY <2>7, <2>8 DEF LinkersHaveUser, LinkersHaveList, Key
<1>3. ASSUME NEW t \in Thread, NEW r \in Requests, Begin(t, r)
      PROVE  LinkersHaveParent'
  <2>1. \A s \in Thread \ {t} : call'[s] = call[s] /\ step'[s] = step[s]
    BY <1>3, OthersWait
  <2>2. step'[t] \in {0, 1} /\ user' = user /\ list' = list
    BY <1>3 DEF Begin, graph, TypeOK, CallTypeOK
  <2> QED
    BY <2>1, <2>2 DEF LinkersHaveUser, LinkersHaveList, At, Key
<1>4. ASSUME NEW t \in Thread, QueryFails(t) PROVE LinkersHaveParent'
  BY <1>4 DEF QueryFails, Return, Reply, graph, LinkersHaveUser, LinkersHaveList,
              At, Key, TypeOK, CallTypeOK
<1>5. CASE Crash
  BY <1>5 DEF Crash, LinkersHaveUser, LinkersHaveList, At
<1>6. CASE UNCHANGED vars
  BY <1>6 DEF vars, LinkersHaveUser, LinkersHaveList, At, Key
<1> QED
  BY <1>2, <1>3, <1>4, <1>5, <1>6 DEF Next

(* What the last query of a create that reports SUCCESS has linked.        *)
LEMMA SuccessLinks ==
    ASSUME NEW t \in Thread, TypeOK, LinkersHaveParent, Query(t),
           step'[t] = 0, ret'[t] = "SUCCESS"
    PROVE  LET c == call[t] IN
           /\ c.method = "createTaskListNode" =>
                 <<c.user, Key(c)>> \in owns' \/ list'[Key(c)] = None
           /\ c.method = "createTaskNode" =>
                 <<Key(c), KeyTask(c)>> \in contains' \/ task'[KeyTask(c)] = None
<1> DEFINE c == call[t]
<1> USE DEF TypeOK, CallTypeOK
<1>1. ASSUME c.method = "createTaskListNode"
      PROVE  <<c.user, Key(c)>> \in owns' \/ list'[Key(c)] = None
  <2>1. createTaskListNode(t)
    BY <1>1, QueryOf
  <2>2. At(t, "createTaskListNode", 3)
    BY <2>1 DEF createTaskListNode, At, MustExist, Duplicate, Return, Reply, Advance
  <2>3. user[c.user] # None /\ MergeOwns(c.user, Key(c))
    BY <2>1, <2>2 DEF LinkersHaveParent, LinkersHaveUser, createTaskListNode, At
  <2> QED
    BY <2>3 DEF MergeOwns, nodes
<1>2. ASSUME c.method = "createTaskNode"
      PROVE  <<Key(c), KeyTask(c)>> \in contains' \/ task'[KeyTask(c)] = None
  <2>1. createTaskNode(t)
    BY <1>2, QueryOf
  <2>2. At(t, "createTaskNode", 4)
    BY <2>1 DEF createTaskNode, At, MustExist, Duplicate, Return, Reply, Advance
  <2>3. list[Key(c)] # None /\ MergeContains(Key(c), KeyTask(c))
    BY <2>1, <2>2 DEF LinkersHaveParent, LinkersHaveList, createTaskNode, At
  <2> QED
    BY <2>3 DEF MergeContains, nodes
<1> QED
  BY <1>1, <1>2

(* Where neither users nor lists are deleted, a create that reports        *)
(* SUCCESS is listed, whichever queries fail and whatever crashes.         *)
THEOREM SuccessIsListed ==
    ASSUME UsersStay, ListsStay
    PROVE  Spec => AcknowledgedIsListed
<1>1. Init => LinkersHaveParent
  BY DEF Init, LinkersHaveParent, LinkersHaveUser, LinkersHaveList, At
<1>2. TypeOK /\ LinkersHaveParent /\ [Next]_vars => LinkersHaveParent'
  BY ParentStays
<1>3. TypeOK /\ LinkersHaveParent /\ [Next]_vars =>
         \A t \in Thread :
            LET c == call[t] IN
            step[t] # 0 /\ step'[t] = 0 /\ ret'[t] = "SUCCESS" =>
               /\ c.method = "createTaskListNode" =>
                     <<c.user, Key(c)>> \in owns' \/ list'[Key(c)] = None
               /\ c.method = "createTaskNode" =>
                     <<Key(c), KeyTask(c)>> \in contains' \/ task'[KeyTask(c)] = None
  <2> SUFFICES ASSUME TypeOK, LinkersHaveParent, [Next]_vars, NEW t \in Thread,
                      step[t] # 0, step'[t] = 0, ret'[t] = "SUCCESS"
               PROVE  Query(t)
    BY SuccessLinks
  <2>1. ASSUME NEW s \in Thread, Query(s) \/ \E r \in Requests : Begin(s, r)
        PROVE  Query(t)
    <3>1. s = t
      BY <2>1, OthersWait
    <3> QED
      BY <2>1, <3>1 DEF Begin
  <2>2. ASSUME NEW s \in Thread PROVE ~QueryFails(s)
    BY DEF QueryFails, Return, Reply, TypeOK, CallTypeOK
  <2>3. ~Crash /\ ~UNCHANGED vars
    BY NoneAssumption DEF Crash, Code, vars
  <2> QED
    BY <2>1, <2>2, <2>3 DEF Next
<1> QED
  BY <1>1, <1>2, <1>3, TypeCorrect, PTL DEF Spec, AcknowledgedIsListed

(* A query hides no task: what it creates is about to be linked, what it   *)
(* ceases to link is linked, and what was listed and stays is listed.      *)
LEMMA QueryHidesNone ==
    ASSUME TypeOK, LinkersHaveParent, UsersStay, ListsStay,
           NEW t \in Thread, Query(t), NEW k \in TaskKey, Hidden(k)'
    PROVE  Hidden(k)
<1> DEFINE c == call[t]
<1>1. \A s \in Thread \ {t} : call'[s] = call[s] /\ step'[s] = step[s]
  BY OthersWait
<1>2. task'[k] # None /\ ~Listed(k)' /\ ~Linking(k)'
  BY DEF Hidden
<1>3. ~Listed(k)
  BY <1>2, TasksStayListed DEF Listed
<1>4. ASSUME task[k] = None PROVE FALSE
  <2>1. createTaskNode(t)
    BY <1>2, <1>4, TasksStayListed, QueryOf
  <2>2. At(t, "createTaskNode", 3) /\ KeyTask(c) = k /\ Advance(t)
    BY <1>2, <1>4, <2>1 DEF createTaskNode, MustExist, Duplicate, MergeContains,
                            graph, nodes, TypeOK, GraphTypeOK
  <2> QED
    BY <1>2, <2>2 DEF Advance, At, KeyTask, Linking, TypeOK, CallTypeOK
<1>5. ASSUME NEW s \in Thread, At(s, "createTaskNode", 4), KeyTask(call[s]) = k
      PROVE  FALSE
  <2>1. CASE s # t
    BY <1>1, <1>2, <1>5, <2>1 DEF At, KeyTask, Linking
  <2>2. CASE s = t
    <3>1. createTaskNode(t) /\ task[k] # None
      BY <1>4, <1>5, <2>2, QueryOf DEF At
    <3>2. list[Key(c)] # None /\ MergeContains(Key(c), k)
      BY <1>5, <2>2, <3>1 DEF LinkersHaveParent, LinkersHaveList, createTaskNode, At
    <3>3. Key(c) = <<k[1], k[2]>>
      BY <1>5, <2>2 DEF Key, KeyTask
    <3> QED
      BY <1>2, <3>1, <3>2, <3>3 DEF MergeContains, Listed
  <2> QED
    BY <2>1, <2>2
<1> QED
  BY <1>3, <1>4, <1>5 DEF Hidden, Linking

(* Where neither users nor lists are deleted, a task becomes hidden only   *)
(* in the step that ends its create without SUCCESS, before the MERGE.     *)
THEOREM HiddenAreTold ==
    ASSUME UsersStay, ListsStay
    PROVE  Spec => HiddenIsTold
<1>1. Init => LinkersHaveParent
  BY DEF Init, LinkersHaveParent, LinkersHaveUser, LinkersHaveList, At
<1>2. TypeOK /\ LinkersHaveParent /\ [Next]_vars => LinkersHaveParent'
  BY ParentStays
<1>3. TypeOK /\ LinkersHaveParent /\ [Next]_vars =>
         \A k \in TaskKey : Hidden(k)' =>
            \/ Hidden(k)
            \/ \E t \in Thread : /\ At(t, "createTaskNode", 4) /\ KeyTask(call[t]) = k
                                 /\ step'[t] = 0 /\ ret'[t] # "SUCCESS"
  <2> SUFFICES ASSUME TypeOK, LinkersHaveParent, [Next]_vars,
                      NEW k \in TaskKey, Hidden(k)', ~Hidden(k)
               PROVE  \E t \in Thread :
                         /\ At(t, "createTaskNode", 4) /\ KeyTask(call[t]) = k
                         /\ step'[t] = 0 /\ ret'[t] # "SUCCESS"
    OBVIOUS
  <2>1. ~\E t \in Thread : Query(t)
    BY QueryHidesNone
  <2>2. UNCHANGED graph
    BY <2>1, GraphSteps
  <2>3. PICK t \in Thread : At(t, "createTaskNode", 4) /\ KeyTask(call[t]) = k
    BY <2>2 DEF graph, Hidden, Listed, Linking
  <2>4. ~(At(t, "createTaskNode", 4)' /\ call'[t] = call[t])
    BY <2>3 DEF Hidden, Linking, KeyTask
  <2>5. ASSUME NEW s \in Thread, NEW r \in Requests, Begin(s, r) PROVE FALSE
    <3>1. s # t
      BY <2>3, <2>5 DEF Begin, At
    <3> QED
      BY <2>3, <2>4, <2>5, <3>1, OthersWait DEF At
  <2>6. ASSUME NEW s \in Thread, QueryFails(s)
        PROVE  step'[t] = 0 /\ ret'[t] # "SUCCESS"
    <3>1. s = t
      BY <2>3, <2>4, <2>6 DEF QueryFails, Return, Reply, At, TypeOK, CallTypeOK
    <3> QED
      BY <2>3, <2>6, <3>1 DEF QueryFails, Return, Reply, TypeOK, CallTypeOK
  <2>7. CASE Crash
    BY <2>3, <2>7, NoneAssumption DEF Crash, Code
  <2>8. ~UNCHANGED vars
    BY <2>3, <2>4 DEF vars, At
  <2> QED
    BY <2>1, <2>3, <2>5, <2>6, <2>7, <2>8 DEF Next
<1> QED
  BY <1>1, <1>2, <1>3, TypeCorrect, PTL DEF Spec, HiddenIsTold

(* With reliable queries, too, and no deletion of users or lists,          *)
(* getAllTaskNodes shows every task that exists and is not just being      *)
(* created.                                                                *)
THEOREM NoTaskIsHidden ==
    ASSUME ~Unreliable, UsersStay, ListsStay
    PROVE  Spec => []NoHiddenTask
<1>1. Init => NoHiddenTask /\ LinkersHaveParent
  BY DEF Init, NoHiddenTask, Hidden, LinkersHaveParent, LinkersHaveUser,
         LinkersHaveList, At
<1>2. TypeOK /\ NoHiddenTask /\ LinkersHaveParent /\ [Next]_vars =>
         (NoHiddenTask /\ LinkersHaveParent)'
  <2> SUFFICES ASSUME TypeOK, NoHiddenTask, LinkersHaveParent, [Next]_vars,
                      NEW k \in TaskKey
               PROVE  ~Hidden(k)'
    BY ParentStays DEF NoHiddenTask
  <2>1. ~Hidden(k)
    BY DEF NoHiddenTask
  <2>2. ASSUME NEW t \in Thread, Query(t) PROVE ~Hidden(k)'
    BY <2>1, <2>2, QueryHidesNone
  <2>3. ASSUME NEW t \in Thread, NEW r \in Requests, Begin(t, r)
        PROVE  ~Hidden(k)'
    <3>1. \A s \in Thread \ {t} : call'[s] = call[s] /\ step'[s] = step[s]
      BY <2>3, OthersWait
    <3>2. step[t] = 0 /\ UNCHANGED <<task, contains>>
      BY <2>3 DEF Begin, graph
    <3> QED
      BY <2>1, <3>1, <3>2 DEF Hidden, Listed, Linking, At, KeyTask
  <2>4. ~Crash /\ \A t \in Thread : ~QueryFails(t)
    BY DEF Crash, QueryFails
  <2>5. CASE UNCHANGED vars
    BY <2>1, <2>5 DEF vars, Hidden, Listed, Linking, At, KeyTask
  <2> QED
    BY <2>2, <2>3, <2>4, <2>5 DEF Next
<1> QED
  BY <1>1, <1>2, TypeCorrect, PTL DEF Spec

(* What is acknowledged belongs somewhere: as long as neither users nor    *)
(* lists are deleted, every task is in a list that exists, whoever creates *)
(* lists and tasks at once, whichever queries fail and whatever crashes.   *)
THEOREM TasksHaveLists ==
    ASSUME UsersStay, ListsStay
    PROVE  Spec => []TaskHasList
<1>1. Init => TaskHasList /\ LinkersHaveParent
  BY DEF Init, TaskHasList, LinkersHaveParent, LinkersHaveUser, LinkersHaveList, At
<1>2. TypeOK /\ TaskHasList /\ LinkersHaveParent /\ [Next]_vars =>
         (TaskHasList /\ LinkersHaveParent)'
  <2> SUFFICES ASSUME TypeOK, TaskHasList, LinkersHaveParent, [Next]_vars,
                      NEW k \in TaskKey, task'[k] # None
               PROVE  list'[<<k[1], k[2]>>] # None
    BY ParentStays DEF TaskHasList
  <2> DEFINE l == <<k[1], k[2]>>
  <2>1. l \in ListKey
    BY DEF TaskKey, ListKey
  <2>2. CASE graph' = graph
    BY <2>2 DEF graph, TaskHasList
  <2>3. ASSUME NEW t \in Thread, Query(t) PROVE list'[l] # None
    <3>1. list[l] # None => list'[l] # None
      BY <2>1, <2>3, TasksStayListed
    <3>2. CASE task[k] # None
      BY <3>1, <3>2 DEF TaskHasList
    <3>3. CASE task[k] = None
      <4>1. createTaskNode(t)
        BY <2>3, <3>3, TasksStayListed, QueryOf
      <4>2. At(t, "createTaskNode", 3) /\ KeyTask(call[t]) = k
        BY <3>3, <4>1 DEF createTaskNode, MustExist, Duplicate, MergeContains, graph, nodes,
                          TypeOK, GraphTypeOK
      <4>3. Key(call[t]) = l
        BY <4>2 DEF KeyTask, Key
      <4> QED
        BY <3>1, <4>2, <4>3 DEF LinkersHaveParent, LinkersHaveList
    <3> QED
      BY <3>2, <3>3
  <2> QED
    BY <2>2, <2>3, GraphSteps
<1> QED
  BY <1>1, <1>2, TypeCorrect, PTL DEF Spec

-----------------------------------------------------------------------------
view == <<ExistingLists, ListedTasks>>

(* What clients see is a function of the graph.                            *)
LEMMA ViewOfGraph == ASSUME UNCHANGED graph PROVE UNCHANGED view
BY DEF graph, view, ExistingLists, ListedTasks, Listed

(* A query that deletes lists with their tasks, tasks of lists, or a task. *)
LEMMA DetachListsView ==
    ASSUME TypeOK, GraphIntegrity, NEW L \in SUBSET ListKey, DetachLists(L)
    PROVE  Tree!RemoveLists(L)
<1>1. ExistingLists' = ExistingLists \ L
  BY DEF DetachLists, ExistingLists
<1>2. ListedTasks' = ListedTasks \ Tree!TasksOf(L)
  <2>1. \A k \in TaskKey : Listed(k)' <=> Listed(k) /\ <<k[1], k[2]>> \notin L
    BY DEF DetachLists, Listed
  <2> QED
    BY <2>1 DEF ListedTasks, Tree!TasksOf, Tree!ListOf, Tree!TaskKey, TaskKey
<1> QED
  BY <1>1, <1>2 DEF Tree!RemoveLists

(* Deleting tasks is seen as their disappearance.                          *)
LEMMA DetachTasksView ==
    ASSUME TypeOK, NEW K, DetachTasks(K)
    PROVE  ListedTasks' = ListedTasks \ K /\ UNCHANGED ExistingLists
BY DEF DetachTasks, ListedTasks, Listed, ExistingLists

(* The tasks a list contains are the listed tasks with its name.           *)
LEMMA ContainedListed ==
    ASSUME TypeOK, GraphIntegrity, NEW L \in SUBSET ListKey
    PROVE  ListedTasks \ Contained(L) = ListedTasks \ Tree!TasksOf(L)
<1>1. ASSUME NEW k \in ListedTasks
      PROVE  k \in Contained(L) <=> k \in Tree!TasksOf(L)
  <2>1. k \in TaskKey /\ <<<<k[1], k[2]>>, k>> \in contains
    BY <1>1 DEF ListedTasks, Listed
  <2>2. \A l \in L : <<l, k>> \in contains => l = <<k[1], k[2]>>
    BY DEF GraphIntegrity
  <2> QED
    BY <2>1, <2>2 DEF Contained, Tree!TasksOf, Tree!ListOf, Tree!TaskKey, TaskKey
<1> QED
  BY <1>1

(* One user's lists. *)
LEMMA OwnedLists ==
    ASSUME TypeOK, GraphIntegrity, NEW u \in UserKey
    PROVE  Owned(u) \in SUBSET ({u} \X ListName) /\ Owned(u) \subseteq ListKey
BY DEF Owned, GraphIntegrity, ListKey, TypeOK, GraphTypeOK

(* The queries of delete* are seen as ClearLists, RemoveLists, RemoveTask. *)
LEMMA DeleteView ==
    ASSUME TypeOK, GraphIntegrity, NEW t \in Thread,
           \/ deleteUserNode(t) \/ deleteTaskListNode(t)
           \/ deleteTaskNode(t) \/ deleteEverything(t)
    PROVE  [Tree!Next]_view
<1> DEFINE c == call[t]
<1>1. c.user \in UserKey /\ Key(c) \in ListKey /\ KeyTask(c) \in TaskKey
      /\ c.list \in ListName /\ Key(c) = <<c.user, c.list>>
  BY CallFields DEF TypeOK, Request, Key, KeyTask, ListKey, TaskKey
<1>2. ASSUME NEW u \in UserKey, NEW L \in SUBSET ({u} \X ListName),
             DetachTasks(Contained(L)) \/ DetachLists(L)
      PROVE  Tree!Next
  <2>1. L \in SUBSET ListKey
    BY DEF ListKey
  <2>2. CASE DetachTasks(Contained(L))
    <3>1. Tree!ClearLists(L)
      BY <2>1, <2>2, DetachTasksView, ContainedListed DEF Tree!ClearLists
    <3> QED
      BY <3>1 DEF Tree!Next
  <2>3. CASE DetachLists(L)
    BY <2>1, <2>3, DetachListsView DEF Tree!Next
  <2> QED
    BY <1>2, <2>2, <2>3
<1>3. CASE deleteUserNode(t)
  <2>1. DetachTasks(Contained(Owned(c.user))) \/ DetachLists(Owned(c.user))
        \/ DetachUser(c.user)
    BY <1>3 DEF deleteUserNode
  <2>2. ASSUME DetachUser(c.user) PROVE UNCHANGED view
    BY <2>2 DEF DetachUser, view, ExistingLists, ListedTasks, Listed
  <2> QED
    BY <1>1, <1>2, <2>1, <2>2, OwnedLists
<1>4. CASE deleteTaskListNode(t)
  <2>1. DetachTasks(Contained({Key(c)})) \/ DetachLists({Key(c)})
    BY <1>4 DEF deleteTaskListNode
  <2>2. {Key(c)} \in SUBSET ({c.user} \X ListName)
    BY <1>1
  <2> QED
    BY <1>1, <1>2, <2>1, <2>2
<1>5. CASE deleteTaskNode(t)
  <2>1. Tree!RemoveTask(KeyTask(c))
    BY <1>5, DetachTasksView DEF deleteTaskNode, Tree!RemoveTask
  <2> QED
    BY <1>1, <2>1 DEF Tree!Next, Tree!TaskKey, TaskKey
<1>6. CASE deleteEverything(t)
  <2>1. Tree!Clear
    BY <1>6 DEF deleteEverything, DetachAll, Tree!Clear, ExistingLists,
                ListedTasks, Listed
  <2> QED
    BY <2>1 DEF Tree!Next
<1> QED
  BY <1>3, <1>4, <1>5, <1>6

(* The queries of create* are seen as AddList, AddTask or nothing.         *)
LEMMA LinkView ==
    ASSUME TypeOK, GraphIntegrity, NEW t \in Thread,
           \/ createUserNode(t) \/ createTaskListNode(t) \/ createTaskNode(t)
           \/ reviseUserNode(t) \/ reviseTaskListNode(t) \/ reviseTaskNode(t)
           \/ addAccess(t) \/ removeAccess(t)
    PROVE  [Tree!Next]_view
<1> DEFINE c == call[t]
<1>1. Key(c) \in ListKey /\ KeyTask(c) \in TaskKey
      /\ Key(c) = <<KeyTask(c)[1], KeyTask(c)[2]>>
  BY CallFields DEF TypeOK, Request, Key, KeyTask, ListKey, TaskKey
<1> USE DEF TypeOK, GraphTypeOK
<1>2. CASE createTaskListNode(t)
  <2>1. contains' = contains
    BY <1>2 DEF createTaskListNode, MustExist, graph, edges, Taken, Duplicate,
                MergeOwns
  <2>2. ListedTasks' = ListedTasks
    BY <2>1 DEF ListedTasks, Listed
  <2>3. list' = list \/ (list[Key(c)] = None /\ ExistingLists' = ExistingLists \union {Key(c)})
    <3>1. CASE list' = list
      BY <3>1
    <3>2. CASE list' # list
      <4> DEFINE n == [visibility |-> SetField(c.info, "visibility", "private"),
                       value |-> SetField(c.info, "value", None)]
      <4>1. list[Key(c)] = None /\ list' = [list EXCEPT ![Key(c)] = n]
        BY <1>2, <3>2 DEF createTaskListNode, MustExist, graph, nodes, Taken,
                          Duplicate, MergeOwns
      <4>2. list' \in [ListKey -> ListNode \union {None}]
        BY <1>2, NodeTypes
      <4>3. n \in ListNode
        BY CallFields, InfoAssumption DEF Request, Info, SetField, ListNode, Visibility
      <4> QED
        BY <1>1, <4>1, <4>3, NodesExist DEF ExistingLists
    <3> QED
      BY <3>1, <3>2
  <2>4. CASE list' = list
    BY <2>2, <2>4 DEF view, ExistingLists
  <2>5. CASE list[Key(c)] = None /\ ExistingLists' = ExistingLists \union {Key(c)}
    <3>1. Tree!AddList(Key(c))
      BY <2>2, <2>5 DEF Tree!AddList, ExistingLists
    <3> QED
      BY <1>1, <3>1 DEF Tree!Next, Tree!ListKey, ListKey
  <2> QED
    BY <2>3, <2>4, <2>5
<1>3. CASE createTaskNode(t)
  <2>1. list' = list
    BY <1>3 DEF createTaskNode, MustExist, graph, nodes, Taken, Duplicate,
                MergeContains
  <2>2. \/ contains' = contains
        \/ contains' = contains \union {<<Key(c), KeyTask(c)>>} /\ list[Key(c)] # None
    BY <1>3 DEF createTaskNode, MustExist, graph, edges, Taken, Duplicate,
                MergeContains
  <2>3. CASE contains' = contains
    BY <2>1, <2>3 DEF view, ExistingLists, ListedTasks, Listed
  <2>4. CASE contains' = contains \union {<<Key(c), KeyTask(c)>>} /\ list[Key(c)] # None
    <3>1. ListedTasks' = ListedTasks \union {KeyTask(c)}
      BY <1>1, <2>4 DEF ListedTasks, Listed
    <3>2. Tree!AddTask(KeyTask(c))
      BY <1>1, <2>1, <2>4, <3>1 DEF Tree!AddTask, Tree!ListOf, ExistingLists
    <3> QED
      BY <1>1, <3>2 DEF Tree!Next, Tree!TaskKey, TaskKey
  <2> QED
    BY <2>2, <2>3, <2>4
<1>4. CASE reviseTaskListNode(t)
  <2>1. contains' = contains /\ \A l \in ListKey : list[l] = None => list'[l] = None
    BY <1>4 DEF reviseTaskListNode, graph, edges
  <2>2. \A l \in ListKey : list[l] # None => list'[l] # None
    BY <1>4, NodesStay
  <2> QED
    BY <2>1, <2>2 DEF view, ExistingLists, ListedTasks, Listed
<1>5. CASE \/ createUserNode(t) \/ reviseUserNode(t) \/ reviseTaskNode(t)
           \/ addAccess(t) \/ removeAccess(t)
  <2>1. list' = list /\ contains' = contains
    BY <1>5 DEF createUserNode, reviseUserNode, reviseTaskNode, addAccess,
                removeAccess, MustExist, graph, nodes, edges, Taken, Duplicate,
                MergeAccess
  <2> QED
    BY <2>1 DEF view, ExistingLists, ListedTasks, Listed
<1> QED
  BY <1>2, <1>3, <1>4, <1>5

(* What clients see of the lists and tasks behaves as TaskTree says, for   *)
(* any number of threads, users, lists and tasks, failures included.       *)
THEOREM Refinement == Spec => ImplementsTree
<1>1. Init => Tree!Init
  BY DEF Init, Tree!Init, ExistingLists, ListedTasks, Listed
<1>2. TypeOK /\ GraphIntegrity /\ [Next]_vars => [Tree!Next]_view
  <2> SUFFICES ASSUME TypeOK, GraphIntegrity, [Next]_vars PROVE [Tree!Next]_view
    OBVIOUS
  <2>1. ASSUME NEW t \in Thread, Query(t) PROVE [Tree!Next]_view
    <3>1. CASE Reads(t)
      BY <3>1, ReadsKeepGraph, ViewOfGraph
    <3> QED
      BY <2>1, <3>1, DeleteView, LinkView DEF Query, Reads
  <2>2. ASSUME NEW t \in Thread, NEW r \in Requests, Begin(t, r)
        PROVE  UNCHANGED view
    BY <2>2, ViewOfGraph DEF Begin
  <2>3. ASSUME NEW t \in Thread, QueryFails(t) PROVE UNCHANGED view
    BY <2>3, ViewOfGraph DEF QueryFails
  <2>4. CASE Crash \/ UNCHANGED vars
    BY <2>4, ViewOfGraph DEF Crash, vars, graph
  <2> QED
    BY <2>1, <2>2, <2>3, <2>4 DEF Next
<1> QED
  BY <1>1, <1>2, TypeCorrect, Integrity, PTL DEF Spec, ImplementsTree, Tree!Spec, view
=============================================================================
