------------------------------ MODULE DBProofs ------------------------------
(* Proofs about DB: type correctness and the integrity of the graph.       *)
EXTENDS DB, TLAPS

(* The parameters of every call a thread can make have their types.        *)
LEMMA BlankType == Blank \in Request
<1>1. (CHOOSE u \in UserKey : TRUE) \in UserKey
  BY KeyAssumption
<1>2. (CHOOSE l \in ListName : TRUE) \in ListName
  BY KeyAssumption
<1>3. (CHOOSE k \in TaskName : TRUE) \in TaskName
  BY KeyAssumption
<1>4. (CHOOSE i \in Infos : TRUE) \in Infos
  BY InfoAssumption
<1> QED
  BY <1>1, <1>2, <1>3, <1>4 DEF Blank, Request, Perm

(* The calls the callers make are calls with typed parameters.             *)
LEMMA RequestsType == Requests \subseteq Request
BY DEF Requests

(* So the parameters a method reads while it runs have their types.        *)
LEMMA CallFields ==
    ASSUME NEW t \in Thread, CallTypeOK
    PROVE  call[t] \in Request
BY BlankType, RequestsType DEF CallTypeOK

(* Returning and going on to the next query keep the types of the calls.   *)
LEMMA ReplyType ==
    ASSUME NEW t \in Thread, NEW code \in Code, NEW rows \in SUBSET Answer,
           CallTypeOK, Reply(t, code, rows)
    PROVE  CallTypeOK'
BY DEF CallTypeOK, Reply

(* Return is a Reply without rows.                                         *)
LEMMA ReturnType ==
    ASSUME NEW t \in Thread, NEW code \in Code, CallTypeOK, Return(t, code)
    PROVE  CallTypeOK'
BY ReplyType DEF Return

(* The number of a method's next query stays in range.                     *)
LEMMA AdvanceType ==
    ASSUME NEW t \in Thread, step[t] \in 0..3, CallTypeOK, Advance(t)
    PROVE  CallTypeOK'
BY DEF CallTypeOK, Advance

(* The ways a query of a method ends.                                      *)
LEMMA ProgressType ==
    ASSUME NEW t \in Thread, CallTypeOK,
           \/ Finish(t)
           \/ step[t] \in 0..3 /\ Written(t)
           \/ step[t] \in 0..3 /\ \E node : MustExist(t, node)
    PROVE  CallTypeOK'
BY ReturnType, AdvanceType DEF Finish, Written, MustExist, Code

(* The same for a query of each kind of method.                            *)
LEMMA CreateCalls ==
    ASSUME NEW t \in Thread, CallTypeOK,
           createUserNode(t) \/ createTaskListNode(t) \/ createTaskNode(t)
    PROVE  CallTypeOK'
<1>1. CASE createUserNode(t)
  BY <1>1, ReturnType DEF createUserNode, Code, Taken, Duplicate
<1>2. CASE createTaskListNode(t)
  BY <1>2, ReturnType, AdvanceType, ProgressType DEF createTaskListNode, Code,
                                                     At, Taken, Duplicate,
                                                     MergeOwns
<1>3. CASE createTaskNode(t)
  BY <1>3, ReturnType, AdvanceType, ProgressType DEF createTaskNode, Code, At,
                                                     Taken, Duplicate,
                                                     MergeContains
<1> QED
  BY <1>1, <1>2, <1>3

(* The queries of revise* and delete*.                                     *)
LEMMA ReviseDeleteCalls ==
    ASSUME NEW t \in Thread, CallTypeOK,
           \/ reviseUserNode(t) \/ reviseTaskListNode(t) \/ reviseTaskNode(t)
           \/ deleteUserNode(t) \/ deleteTaskListNode(t) \/ deleteTaskNode(t)
           \/ deleteEverything(t)
    PROVE  CallTypeOK'
<1>1. CASE reviseUserNode(t) \/ reviseTaskListNode(t) \/ reviseTaskNode(t)
  BY <1>1, ReturnType, ProgressType
     DEF reviseUserNode, reviseTaskListNode, reviseTaskNode, Code
<1>2. CASE deleteUserNode(t) \/ deleteTaskListNode(t) \/ deleteTaskNode(t)
  BY <1>2, ProgressType
     DEF deleteUserNode, deleteTaskListNode, deleteTaskNode, At
<1>3. CASE deleteEverything(t)
  BY <1>3, ProgressType DEF deleteEverything
<1> QED
  BY <1>1, <1>2, <1>3

(* The queries of get* and getAll*: the rows they return are typed.        *)
LEMMA GetCalls ==
    ASSUME NEW t \in Thread, TypeOK,
           \/ getUserNode(t) \/ getTaskListNode(t) \/ getTaskNode(t)
           \/ getAllUserNodes(t) \/ getAllTaskListNodes(t) \/ getAllTaskNodes(t)
           \/ getAllPublic(t)
    PROVE  CallTypeOK'
<1> DEFINE c == call[t]
<1> USE DEF TypeOK
<1>1. CASE getUserNode(t)
  <2>1. user[c.user] # None => {<<user[c.user].value>>} \subseteq Answer
    BY CallFields DEF GraphTypeOK, UserNode, Request, Answer, Row
  <2> QED
    BY <1>1, <2>1, ReturnType, ReplyType DEF getUserNode, List, Code
<1>2. CASE getTaskListNode(t)
  <2>1. Key(c) \in ListKey
    BY CallFields DEF Request, Key, ListKey
  <2>2. list[Key(c)] # None =>
           {<<list[Key(c)].visibility, list[Key(c)].value>>} \subseteq Answer
    BY <2>1 DEF GraphTypeOK, ListNode, Answer
  <2> QED
    BY <1>2, <2>2, ReturnType, ReplyType DEF getTaskListNode, List, Code
<1>3. CASE getTaskNode(t)
  <2>1. KeyTask(c) \in TaskKey
    BY CallFields DEF Request, KeyTask, TaskKey
  <2>2. task[KeyTask(c)] # None => {<<task[KeyTask(c)].value>>} \subseteq Answer
    BY <2>1 DEF GraphTypeOK, TaskNode, Answer, Row
  <2> QED
    BY <1>3, <2>2, ReturnType, ReplyType DEF getTaskNode, List, Code
<1>4. CASE getAllUserNodes(t)
  <2>1. Row({u \in UserKey : user[u] # None}) \subseteq Answer
    BY DEF Answer, Row
  <2> QED
    BY <1>4, <2>1, ReplyType DEF getAllUserNodes, List, Code
<1>5. CASE getAllTaskListNodes(t)
  <2>1. {<<l[2]>> : l \in Owned(c.user)} \subseteq Answer
    BY DEF Answer, Row, Owned, ListKey
  <2> QED
    BY <1>5, <2>1, ReplyType, ProgressType DEF getAllTaskListNodes, List, Code, At
<1>6. CASE getAllTaskNodes(t)
  <2>1. {<<k[3]>> : k \in Contained({Key(c)})} \subseteq Answer
    BY DEF Answer, Row, Contained, TaskKey
  <2>2. \/ step[t] \in 0..3 /\ \E node : MustExist(t, node)
        \/ Reply(t, "SUCCESS", {<<k[3]>> : k \in Contained({Key(c)})})
    BY <1>6 DEF getAllTaskNodes, List, At
  <2> QED
    BY <2>1, <2>2, ReplyType, ProgressType DEF Code
<1>7. CASE getAllPublic(t)
  <2>1. PublicLists \subseteq Answer
    BY DEF PublicLists, Answer
  <2> QED
    BY <1>7, <2>1, ReplyType DEF getAllPublic, List, Code
<1> QED
  BY <1>1, <1>2, <1>3, <1>4, <1>5, <1>6, <1>7

(* The queries of the access methods.                                      *)
LEMMA AccessCalls ==
    ASSUME NEW t \in Thread, TypeOK,
           \/ addAccess(t) \/ checkAccess(t) \/ removeAccess(t)
           \/ allAccess(t) \/ allGrant(t)
    PROVE  CallTypeOK'
<1> DEFINE c == call[t]
<1> USE DEF TypeOK
<1>1. CASE addAccess(t) \/ removeAccess(t)
  BY <1>1, ReturnType, AdvanceType, ProgressType DEF addAccess, removeAccess,
                                                     Code, At, MergeAccess
<1>2. CASE checkAccess(t)
  <2>1. /\ {<<"write">>} \subseteq Answer
        /\ Row(Granted(c.dst, Key(c))) \subseteq Answer
    BY DEF Answer, Row, Perm, Granted
  <2> QED
    BY <1>2, <2>1, ReturnType, ReplyType, AdvanceType, ProgressType
       DEF checkAccess, Code, At
<1>3. CASE allAccess(t)
  <2>1. AccessRows(c.dst) \subseteq Answer
    BY DEF AccessRows, Answer, GraphTypeOK, ListKey, Perm
  <2> QED
    BY <1>3, <2>1, ReplyType, ProgressType DEF allAccess, List, Code, At
<1>4. CASE allGrant(t)
  <2>1. {<<e[1], e[3]>> : e \in {e \in access : e[2] = Key(c)}} \subseteq Answer
    BY DEF Answer, GraphTypeOK
  <2> QED
    BY <1>4, <2>1, ReturnType, ReplyType, AdvanceType, ProgressType
       DEF allGrant, List, Code, At
<1> QED
  BY <1>1, <1>2, <1>3, <1>4

(* The queries keep the types of the graph.                                *)
LEMMA DetachTypes ==
    ASSUME GraphTypeOK, NEW K, NEW L, NEW u,
           DetachTasks(K) \/ DetachLists(L) \/ DetachUser(u) \/ DetachAll
    PROVE  GraphTypeOK'
BY DEF GraphTypeOK, DetachTasks, DetachLists, DetachUser, DetachAll

(* CREATE and SET write nodes of the right type.                           *)
LEMMA NodeTypes ==
    ASSUME NEW t \in Thread, TypeOK,
           \/ createUserNode(t) \/ createTaskListNode(t) \/ createTaskNode(t)
           \/ reviseUserNode(t) \/ reviseTaskListNode(t) \/ reviseTaskNode(t)
    PROVE  GraphTypeOK'
<1> DEFINE c == call[t]
<1>1. /\ c.user \in UserKey /\ Key(c) \in ListKey /\ KeyTask(c) \in TaskKey
      /\ c.info \in Info
  BY CallFields, InfoAssumption DEF TypeOK, Request, Key, KeyTask, ListKey, TaskKey
<1>2. /\ c.info.value \in Value
      /\ \A old : SetField(c.info, "value", old) \in Value \union {old}
      /\ \A old : SetField(c.info, "visibility", old) \in Visibility \union {old}
  BY <1>1 DEF Info, SetField
<1> USE DEF TypeOK, GraphTypeOK
<1>3. CASE createUserNode(t)
  BY <1>1, <1>2, <1>3 DEF createUserNode, graph, edges, UserNode, Taken,
                          Duplicate
<1>4. CASE createTaskListNode(t)
  <2>1. [visibility |-> SetField(c.info, "visibility", "private"),
         value |-> SetField(c.info, "value", None)] \in ListNode
    BY <1>2 DEF ListNode, Visibility
  <2> QED
    BY <1>1, <1>4, <2>1
       DEF createTaskListNode, MustExist, graph, edges, nodes, Taken,
           Duplicate, MergeOwns
<1>5. CASE createTaskNode(t)
  <2>1. [value |-> SetField(c.info, "value", None)] \in TaskNode
    BY <1>2 DEF TaskNode
  <2> QED
    BY <1>1, <1>5, <2>1 DEF createTaskNode, MustExist, graph, edges, nodes,
                            Taken, Duplicate, MergeContains
<1>6. CASE reviseUserNode(t)
  BY <1>1, <1>2, <1>6 DEF reviseUserNode, graph, edges, UserNode
<1>7. CASE reviseTaskListNode(t)
  BY <1>1, <1>2, <1>7 DEF reviseTaskListNode, graph, edges, ListNode
<1>8. CASE reviseTaskNode(t)
  BY <1>1, <1>2, <1>8 DEF reviseTaskNode, graph, edges, TaskNode
<1> QED
  BY <1>3, <1>4, <1>5, <1>6, <1>7, <1>8

(* MERGE and DELETE of an Access relationship.                             *)
LEMMA AccessTypes ==
    ASSUME NEW t \in Thread, TypeOK, addAccess(t) \/ removeAccess(t)
    PROVE  GraphTypeOK'
<1>1. <<call[t].dst, Key(call[t]), call[t].perm>> \in UserKey \X ListKey \X Perm
  BY CallFields DEF TypeOK, Request, Key, ListKey
<1> QED
  BY <1>1 DEF TypeOK, GraphTypeOK, addAccess, removeAccess, MustExist, graph,
              nodes, MergeAccess

(* The methods that only read.                                             *)
Reads(t) == \/ getUserNode(t) \/ getTaskListNode(t) \/ getTaskNode(t)
            \/ getAllUserNodes(t) \/ getAllTaskListNodes(t)
            \/ getAllTaskNodes(t) \/ checkAccess(t)
            \/ allAccess(t) \/ allGrant(t) \/ getAllPublic(t)

(* Their queries leave the graph alone.                                    *)
LEMMA ReadsKeepGraph == ASSUME NEW t \in Thread, Reads(t) PROVE UNCHANGED graph
BY DEF Reads, getUserNode, getTaskListNode, getTaskNode, getAllUserNodes,
       getAllTaskListNodes, getAllTaskNodes, checkAccess, allAccess, allGrant,
       getAllPublic, List, MustExist

(* Every reachable state is well typed, whatever the callers do.           *)
THEOREM TypeCorrect == Spec => []TypeOK
<1>1. Init => TypeOK
  BY DEF Init, TypeOK, GraphTypeOK, CallTypeOK
<1>2. TypeOK /\ [Next]_vars => TypeOK'
  <2> SUFFICES ASSUME TypeOK, [Next]_vars PROVE TypeOK'
    OBVIOUS
  <2>1. ASSUME NEW t \in Thread, NEW r \in Requests, Begin(t, r) PROVE TypeOK'
    <3>1. ArgumentError(r) \in Code \union {None}
      BY DEF ArgumentError, Code
    <3>2. {<<"write">>} \subseteq Answer
      BY DEF Answer, Row, Perm
    <3> QED
      BY <2>1, <3>1, <3>2
         DEF Begin, TypeOK, GraphTypeOK, CallTypeOK, graph, Code
  <2>2. ASSUME NEW t \in Thread, Query(t) PROVE TypeOK'
    <3>1. CallTypeOK'
      BY <2>2, CreateCalls, ReviseDeleteCalls, GetCalls, AccessCalls
         DEF Query, TypeOK
    <3>2. GraphTypeOK'
      <4>1. CASE Reads(t)
        BY <4>1, ReadsKeepGraph DEF TypeOK, GraphTypeOK, graph
      <4>2. CASE \/ deleteUserNode(t) \/ deleteTaskListNode(t)
                 \/ deleteTaskNode(t) \/ deleteEverything(t)
        BY <4>2, DetachTypes
           DEF TypeOK, deleteUserNode, deleteTaskListNode, deleteTaskNode,
               deleteEverything
      <4> QED
        BY <2>2, <4>1, <4>2, NodeTypes, AccessTypes DEF Query, Reads
    <3> QED
      BY <3>1, <3>2 DEF TypeOK
  <2>3. ASSUME NEW t \in Thread, QueryFails(t) PROVE TypeOK'
    BY <2>3, ReturnType DEF QueryFails, TypeOK, GraphTypeOK, graph, Code
  <2>4. CASE Crash
    BY <2>4 DEF Crash, TypeOK, GraphTypeOK, CallTypeOK, graph
  <2>5. CASE UNCHANGED vars
    BY <2>5 DEF vars, TypeOK, GraphTypeOK, CallTypeOK
  <2> QED
    BY <2>1, <2>2, <2>3, <2>4, <2>5 DEF Next
<1> QED
  BY <1>1, <1>2, PTL DEF Spec

-----------------------------------------------------------------------------
(* A node is never None, so what was found stays found when it is revised. *)
LEMMA NodesExist ==
    /\ \A n \in UserNode : n # None
    /\ \A n \in ListNode : n # None
    /\ \A n \in TaskNode : n # None
BY NoneAssumption

(* The existence of nodes under the methods that create and revise: no     *)
(* node disappears, and a user, list or task appears only in a create.     *)
LEMMA NodesStay ==
    ASSUME NEW t \in Thread, TypeOK,
           \/ createUserNode(t) \/ createTaskListNode(t) \/ createTaskNode(t)
           \/ reviseUserNode(t) \/ reviseTaskListNode(t) \/ reviseTaskNode(t)
           \/ addAccess(t) \/ removeAccess(t)
    PROVE  /\ \A u \in UserKey : user[u] # None => user'[u] # None
           /\ \A l \in ListKey : list[l] # None => list'[l] # None
           /\ \A k \in TaskKey : task[k] # None => task'[k] # None
<1> DEFINE c == call[t]
<1>1. c.user \in UserKey /\ Key(c) \in ListKey /\ KeyTask(c) \in TaskKey
  BY CallFields DEF TypeOK, Request, Key, KeyTask, ListKey, TaskKey
<1>2. /\ \A old \in Value \union {None} :
           SetField(c.info, "value", old) \in Value \union {None}
      /\ \A old \in Value : SetField(c.info, "value", old) \in Value
      /\ \A old \in Visibility : SetField(c.info, "visibility", old) \in Visibility
  BY CallFields, InfoAssumption DEF TypeOK, Request, Info, SetField
<1> USE DEF TypeOK, GraphTypeOK
<1>3. CASE createUserNode(t) \/ createTaskListNode(t) \/ createTaskNode(t)
  BY <1>1, <1>3 DEF createUserNode, createTaskListNode, createTaskNode,
                    MustExist, graph, edges, nodes, Taken, Duplicate,
                    MergeOwns, MergeContains
<1>4. CASE reviseUserNode(t)
  <2>1. UNCHANGED <<list, task>>
    BY <1>4 DEF reviseUserNode, graph
  <2>2. CASE user[c.user] = None
    BY <1>4, <2>1, <2>2 DEF reviseUserNode, graph
  <2>3. CASE user[c.user] # None
    <3>1. user'[c.user] \in UserNode
      BY <1>1, <1>2, <1>4, <2>3 DEF reviseUserNode, UserNode
    <3>2. \A u \in UserKey : u # c.user => user'[u] = user[u]
      BY <1>4, <2>3 DEF reviseUserNode
    <3> QED
      BY <2>1, <3>1, <3>2, NodesExist
  <2> QED
    BY <2>2, <2>3
<1>5. CASE reviseTaskListNode(t)
  <2>1. UNCHANGED <<user, task>>
    BY <1>5 DEF reviseTaskListNode, graph
  <2>2. CASE list[Key(c)] = None
    BY <1>5, <2>1, <2>2 DEF reviseTaskListNode, graph
  <2>3. CASE list[Key(c)] # None
    <3>1. list'[Key(c)] \in ListNode
      BY <1>1, <1>2, <1>5, <2>3 DEF reviseTaskListNode, ListNode
    <3>2. \A l \in ListKey : l # Key(c) => list'[l] = list[l]
      BY <1>5, <2>3 DEF reviseTaskListNode
    <3> QED
      BY <2>1, <3>1, <3>2, NodesExist
  <2> QED
    BY <2>2, <2>3
<1>6. CASE reviseTaskNode(t)
  <2>1. UNCHANGED <<user, list>>
    BY <1>6 DEF reviseTaskNode, graph
  <2>2. CASE task[KeyTask(c)] = None
    BY <1>6, <2>1, <2>2 DEF reviseTaskNode, graph
  <2>3. CASE task[KeyTask(c)] # None
    <3>1. task'[KeyTask(c)] \in TaskNode
      BY <1>1, <1>2, <1>6, <2>3 DEF reviseTaskNode, TaskNode
    <3>2. \A k \in TaskKey : k # KeyTask(c) => task'[k] = task[k]
      BY <1>6, <2>3 DEF reviseTaskNode
    <3> QED
      BY <2>1, <3>1, <3>2, NodesExist
  <2> QED
    BY <2>2, <2>3
<1>7. CASE addAccess(t) \/ removeAccess(t)
  BY <1>7 DEF addAccess, removeAccess, MustExist, graph, nodes, MergeAccess
<1> QED
  BY <1>3, <1>4, <1>5, <1>6, <1>7

(* DETACH DELETE takes the relationships of the nodes it deletes with it.  *)
LEMMA DetachKeepsIntegrity ==
    ASSUME TypeOK, GraphIntegrity, NEW K, NEW L, NEW u \in UserKey,
           DetachTasks(K) \/ DetachLists(L) \/ DetachUser(u) \/ DetachAll
    PROVE  GraphIntegrity'
<1> USE DEF TypeOK, GraphTypeOK, GraphIntegrity
<1>1. CASE DetachTasks(K)
  BY <1>1 DEF DetachTasks
<1>2. CASE DetachLists(L)
  BY <1>2 DEF DetachLists
<1>3. CASE DetachUser(u)
  BY <1>3 DEF DetachUser
<1>4. CASE DetachAll
  BY <1>4 DEF DetachAll
<1> QED
  BY <1>1, <1>2, <1>3, <1>4

(* The other methods join existing nodes of one owner, and keep one         *)
(* permission per user and list.                                           *)
LEMMA LinksKeepIntegrity ==
    ASSUME NEW t \in Thread, TypeOK, GraphIntegrity,
           \/ createUserNode(t) \/ createTaskListNode(t) \/ createTaskNode(t)
           \/ reviseUserNode(t) \/ reviseTaskListNode(t) \/ reviseTaskNode(t)
           \/ addAccess(t) \/ removeAccess(t)
    PROVE  GraphIntegrity'
<1> DEFINE c == call[t]
<1>1. c.user \in UserKey /\ Key(c) \in ListKey /\ KeyTask(c) \in TaskKey
      /\ c.dst \in UserKey
  BY CallFields DEF TypeOK, Request, Key, KeyTask, ListKey, TaskKey
<1>2. /\ \A u \in UserKey : user[u] # None => user'[u] # None
      /\ \A l \in ListKey : list[l] # None => list'[l] # None
      /\ \A k \in TaskKey : task[k] # None => task'[k] # None
  BY NodesStay
<1> USE DEF TypeOK, GraphTypeOK
<1>3. \A e \in owns' : /\ user'[e[1]] # None /\ list'[e[2]] # None
                      /\ e[1] = e[2][1]
  <2>1. owns' = owns \/ (owns' = owns \union {<<c.user, Key(c)>>}
                           /\ user[c.user] # None /\ list[Key(c)] # None)
    BY DEF createUserNode, createTaskListNode, createTaskNode, reviseUserNode,
           reviseTaskListNode, reviseTaskNode, addAccess, removeAccess,
           MustExist, graph, edges, Taken, Duplicate, MergeOwns, MergeContains,
           MergeAccess
  <2>2. Key(c)[1] = c.user
    BY DEF Key
  <2> QED
    BY <1>1, <1>2, <2>1, <2>2 DEF GraphIntegrity
<1>4. \A e \in contains' : /\ list'[e[1]] # None /\ task'[e[2]] # None
                          /\ e[1] = <<e[2][1], e[2][2]>>
  <2>1. contains' = contains \/ (contains' = contains \union {<<Key(c), KeyTask(c)>>}
                           /\ list[Key(c)] # None /\ task[KeyTask(c)] # None)
    BY DEF createUserNode, createTaskListNode, createTaskNode, reviseUserNode,
           reviseTaskListNode, reviseTaskNode, addAccess, removeAccess,
           MustExist, graph, edges, Taken, Duplicate, MergeOwns, MergeContains,
           MergeAccess
  <2>2. Key(c) = <<KeyTask(c)[1], KeyTask(c)[2]>>
    BY DEF Key, KeyTask
  <2> QED
    BY <1>1, <1>2, <2>1, <2>2 DEF GraphIntegrity
<1>5. /\ \A e \in access' : user'[e[1]] # None /\ list'[e[2]] # None
      /\ \A e, f \in access' : e[1] = f[1] /\ e[2] = f[2] => e[3] = f[3]
  <2>1. \/ access' \subseteq access
        \/ /\ access' = {e \in access : <<e[1], e[2]>> # <<c.dst, Key(c)>>}
                           \union {<<c.dst, Key(c), c.perm>>}
           /\ user[c.dst] # None /\ list[Key(c)] # None
    BY DEF createUserNode, createTaskListNode, createTaskNode, reviseUserNode,
           reviseTaskListNode, reviseTaskNode, addAccess, removeAccess,
           MustExist, graph, edges, Taken, Duplicate, MergeOwns, MergeContains,
           MergeAccess
  <2> QED
    BY <1>1, <1>2, <2>1 DEF GraphIntegrity
<1> QED
  BY <1>3, <1>4, <1>5 DEF GraphIntegrity

(* No interleaving, failure or crash breaks the graph.                     *)
THEOREM Integrity == Spec => []GraphIntegrity
<1>1. Init => GraphIntegrity
  BY DEF Init, GraphIntegrity
<1>2. TypeOK /\ GraphIntegrity /\ [Next]_vars => GraphIntegrity'
  <2> SUFFICES ASSUME TypeOK, GraphIntegrity, [Next]_vars PROVE GraphIntegrity'
    OBVIOUS
  <2>1. ASSUME UNCHANGED graph PROVE GraphIntegrity'
    BY <2>1 DEF graph, GraphIntegrity
  <2>2. ASSUME NEW t \in Thread, Query(t) PROVE GraphIntegrity'
    <3>1. CASE Reads(t)
      BY <3>1, <2>1, ReadsKeepGraph
    <3>2. CASE \/ deleteUserNode(t) \/ deleteTaskListNode(t)
               \/ deleteTaskNode(t) \/ deleteEverything(t)
      <4>1. call[t].user \in UserKey
        BY CallFields DEF TypeOK, Request
      <4> QED
        BY <3>2, <4>1, DetachKeepsIntegrity
           DEF deleteUserNode, deleteTaskListNode, deleteTaskNode,
               deleteEverything
    <3> QED
      BY <2>2, <3>1, <3>2, LinksKeepIntegrity DEF Query, Reads
  <2>3. ASSUME NEW t \in Thread, NEW r \in Requests, Begin(t, r)
        PROVE  GraphIntegrity'
    BY <2>1, <2>3 DEF Begin
  <2>4. ASSUME NEW t \in Thread, QueryFails(t) PROVE GraphIntegrity'
    BY <2>1, <2>4 DEF QueryFails
  <2>5. CASE Crash \/ UNCHANGED vars
    BY <2>1, <2>5 DEF Crash, vars, graph
  <2> QED
    BY <2>2, <2>3, <2>4, <2>5 DEF Next
<1> QED
  BY <1>1, <1>2, TypeCorrect, PTL DEF Spec

-----------------------------------------------------------------------------
(* A query ends its method or takes it to its next query.                  *)
LEMMA QueryProgress ==
    ASSUME NEW t \in Thread, Query(t)
    PROVE  /\ (\E code, rows : Reply(t, code, rows)) \/ Advance(t)
           /\ step[t] # 0
<1> USE DEF Finish, Written, MustExist, Duplicate, Return, List, At
<1>1. CASE createUserNode(t) \/ createTaskListNode(t) \/ createTaskNode(t)
  BY <1>1 DEF createUserNode, createTaskListNode, createTaskNode
<1>2. CASE reviseUserNode(t) \/ reviseTaskListNode(t) \/ reviseTaskNode(t)
  BY <1>2 DEF reviseUserNode, reviseTaskListNode, reviseTaskNode
<1>3. CASE \/ deleteUserNode(t) \/ deleteTaskListNode(t) \/ deleteTaskNode(t)
           \/ deleteEverything(t)
  BY <1>3 DEF deleteUserNode, deleteTaskListNode, deleteTaskNode, deleteEverything
<1>4. CASE getUserNode(t) \/ getTaskListNode(t) \/ getTaskNode(t)
  BY <1>4 DEF getUserNode, getTaskListNode, getTaskNode
<1>5. CASE \/ getAllUserNodes(t) \/ getAllTaskListNodes(t) \/ getAllTaskNodes(t)
           \/ getAllPublic(t)
  BY <1>5 DEF getAllUserNodes, getAllTaskListNodes, getAllTaskNodes, getAllPublic
<1>6. CASE addAccess(t)
  BY <1>6 DEF addAccess
<1>7. CASE checkAccess(t)
  BY <1>7 DEF checkAccess
<1>8. CASE removeAccess(t) \/ allAccess(t)
  BY <1>8 DEF removeAccess, allAccess
<1>9. CASE allGrant(t)
  BY <1>9 DEF allGrant
<1> QED
  BY <1>1, <1>2, <1>3, <1>4, <1>5, <1>6, <1>7, <1>8, <1>9 DEF Query

(* The other threads stay where they are.                                  *)
Apart(t) == \A s \in Thread \ {t} : /\ call'[s] = call[s] /\ step'[s] = step[s]
                                    /\ ret'[s] = ret[s] /\ out'[s] = out[s]

(* A query leaves the other threads alone.                               *)
LEMMA QueryApart ==
    ASSUME NEW t \in Thread, TypeOK, Query(t)
    PROVE  /\ Apart(t)
           /\ step[t] # 0
           /\ step'[t] = 0 \/ (step'[t] = step[t] + 1 /\ call'[t] = call[t])
<1> USE DEF TypeOK, CallTypeOK, Apart
<1>1. CASE \E code, rows : Reply(t, code, rows)
  BY <1>1, QueryProgress DEF Reply
<1>2. CASE Advance(t)
  BY <1>2, QueryProgress DEF Advance
<1> QED
  BY <1>1, <1>2, QueryProgress

(* So does entering a method.                                            *)
LEMMA BeginApart ==
    ASSUME NEW t \in Thread, TypeOK, NEW c \in Requests, Begin(t, c)
    PROVE  /\ Apart(t)
           /\ step'[t] = 0 \/ (step'[t] = 1 /\ call'[t] = c)
BY DEF TypeOK, CallTypeOK, Apart, Begin

(* So does a query that fails.                                           *)
LEMMA FailsApart ==
    ASSUME NEW t \in Thread, TypeOK, QueryFails(t)
    PROVE  Apart(t) /\ step'[t] = 0 /\ ret'[t] = "ERR_UNKNOWN"
BY DEF TypeOK, CallTypeOK, Apart, QueryFails, Return, Reply

(* The method of a call tells which query runs.                            *)
LEMMA QueryOf ==
    ASSUME NEW t \in Thread, Query(t)
    PROVE  CASE call[t].method = "checkAccess"        -> checkAccess(t)
             [] call[t].method = "createTaskNode"     -> createTaskNode(t)
             [] call[t].method = "reviseTaskNode"     -> reviseTaskNode(t)
             [] call[t].method = "deleteTaskNode"     -> deleteTaskNode(t)
             [] call[t].method = "createTaskListNode" -> createTaskListNode(t)
             [] call[t].method = "reviseTaskListNode" -> reviseTaskListNode(t)
             [] call[t].method = "deleteTaskListNode" -> deleteTaskListNode(t)
             [] call[t].method = "addAccess"          -> addAccess(t)
             [] call[t].method = "removeAccess"       -> removeAccess(t)
             [] call[t].method = "createUserNode"     -> createUserNode(t)
             [] call[t].method = "reviseUserNode"     -> reviseUserNode(t)
             [] call[t].method = "deleteUserNode"     -> deleteUserNode(t)
             [] call[t].method = "deleteEverything"   -> deleteEverything(t)
             [] OTHER -> Reads(t)
BY DEF Query, Reads, At, createUserNode, createTaskListNode, createTaskNode,
       reviseUserNode, reviseTaskListNode, reviseTaskNode, deleteUserNode,
       deleteTaskListNode, deleteTaskNode, deleteEverything, getUserNode,
       getTaskListNode, getTaskNode, getAllUserNodes, getAllTaskListNodes,
       getAllTaskNodes, addAccess, checkAccess, removeAccess, allAccess,
       allGrant, getAllPublic
=============================================================================
