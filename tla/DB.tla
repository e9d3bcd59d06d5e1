--------------------------------- MODULE DB ---------------------------------
(***************************************************************************)
(* The storage layer, db/DB.cc.  Users, task lists and tasks are nodes of  *)
(* a neo4j graph; Owns, Contains and Access are its relationships.  Every  *)
(* method of class DB is a short program of Cypher queries, each of them   *)
(* an auto-commit transaction of its own: a query is atomic, a method is   *)
(* not, and the httplib thread pool runs methods concurrently.             *)
(*                                                                         *)
(* A thread executes one call at a time.  call[t] is the call in progress  *)
(* (Blank: none), step[t] the query it runs next (0: none), ret[t] the     *)
(* code its last call returned and out[t] the rows that call wrote to its  *)
(* output parameter.                                                       *)
(***************************************************************************)
EXTENDS Naturals

CONSTANTS
    Thread,       \* threads of the server that call the DB object
    UserKey,      \* user emails
    Owners,       \* users whose lists the calls are about
    ListName,     \* task list names (a list's key is its user and its name)
    TaskName,     \* task names (a task's key: its user, list and name)
    Value,        \* a user's password, a list's or a task's content
    Infos,        \* field maps the callers pass to create* and revise*
    Methods,      \* methods the callers use
    Unreliable,   \* TRUE if queries may fail and the process may crash
    None          \* no such node, no such field, no code yet

Visibility == {"private", "shared", "public"}
Perm       == {"read", "write"}
ListKey    == UserKey \X ListName
TaskKey    == UserKey \X ListName \X TaskName

(***************************************************************************)
(* A std::map of fields: the set of its keys and a value for each.  "key"  *)
(* stands for the primary-key entry ("email" or "name"), "value" for the   *)
(* password or the content.                                                *)
(***************************************************************************)
Info == [fields: SUBSET {"key", "visibility", "value"},
         visibility: Visibility, value: Value]

UserNode == [value: Value]
ListNode == [visibility: Visibility, value: Value \union {None}]
TaskNode == [value: Value \union {None}]

Code == {"SUCCESS", "ERR_UNKNOWN", "ERR_KEY", "ERR_RFIELD", "ERR_NO_NODE",
         "ERR_DUP_NODE", "ERR_ACCESS"}

ASSUME KeyAssumption  == /\ UserKey # {} /\ ListName # {} /\ TaskName # {}
                         /\ Owners # {} /\ Owners \subseteq UserKey
ASSUME InfoAssumption == Infos # {} /\ Infos \subseteq Info
ASSUME NoneAssumption ==
    None \notin UserNode \union ListNode \union TaskNode \union Value \union Visibility
               \union Code
ASSUME UnreliableAssumption == Unreliable \in BOOLEAN

VARIABLES user, list, task,        \* the nodes, None where there is none
          owns, contains, access,  \* the relationships
          call, step, ret, out     \* the calls in progress, per thread

nodes == <<user, list, task>>
edges == <<owns, contains, access>>
graph == <<user, list, task, owns, contains, access>>
calls == <<call, step, ret, out>>
vars  == <<user, list, task, owns, contains, access, call, step, ret, out>>

-----------------------------------------------------------------------------
(* Calls.  Parameters a method does not have keep the values of Blank.     *)

Request == [method: Methods \union {"none"}, user: UserKey, dst: UserKey,
            list: ListName, task: TaskName, perm: Perm, info: Infos]

Blank == [method |-> "none", user |-> CHOOSE u \in UserKey : TRUE,
          dst |-> CHOOSE u \in UserKey : TRUE,
          list |-> CHOOSE l \in ListName : TRUE,
          task |-> CHOOSE k \in TaskName : TRUE,
          perm |-> "read", info |-> CHOOSE i \in Infos : TRUE]

Params(m) ==
    CASE m \in {"getUserNode", "deleteUserNode", "getAllTaskListNodes"} -> {"user"}
      [] m \in {"createUserNode", "reviseUserNode"} -> {"user", "info"}
      [] m \in {"getTaskListNode", "deleteTaskListNode",
                "getAllTaskNodes", "allGrant"} -> {"user", "list"}
      [] m \in {"createTaskListNode", "reviseTaskListNode"}
           -> {"user", "list", "info"}
      [] m \in {"getTaskNode", "deleteTaskNode"} -> {"user", "list", "task"}
      [] m \in {"createTaskNode", "reviseTaskNode"}
           -> {"user", "list", "task", "info"}
      [] m \in {"checkAccess", "removeAccess"} -> {"user", "dst", "list"}
      [] m = "addAccess" -> {"user", "dst", "list", "perm"}
      [] m = "allAccess" -> {"dst"}
      [] OTHER -> {}

Requests ==
    {r \in Request :
        /\ r.method \in Methods
        /\ "list" \in Params(r.method) => r.user \in Owners
        /\ \A f \in DOMAIN Blank \ {"method"} :
              f \in Params(r.method) \/ r[f] = Blank[f]}

(* The rows a method's output parameter may hold: fields of a node, names, *)
(* permissions, keys, or keys with a permission.                           *)
Row(S) == {<<x>> : x \in S}

Answer == Row(Value \union {None}) \union (Visibility \X (Value \union {None}))
   \union Row(UserKey) \union Row(ListName) \union Row(TaskName) \union Row(Perm)
   \union ListKey \union (UserKey \X Perm) \union (UserKey \X ListName \X Perm)

-----------------------------------------------------------------------------
(* Progress of a call.                                                     *)

At(t, m, i) == call[t].method = m /\ step[t] = i

Reply(t, code, rows) == /\ step' = [step EXCEPT ![t] = 0]
                        /\ ret'  = [ret EXCEPT ![t] = code]
                        /\ out'  = [out EXCEPT ![t] = rows]
                        /\ call' = [call EXCEPT ![t] = Blank]

Return(t, code) == Reply(t, code, {})

Advance(t) == step' = [step EXCEPT ![t] = @ + 1] /\ UNCHANGED <<call, ret, out>>

(* A query that wrote may still be reported as failed: the server has      *)
(* committed it and the reply was lost.                                    *)
Written(t) == Advance(t) \/ (Unreliable /\ Return(t, "ERR_UNKNOWN"))
Finish(t)  == Return(t, "SUCCESS") \/ (Unreliable /\ Return(t, "ERR_UNKNOWN"))

(* Mutants: no unique constraint; a duplicate taken for success half-way.  *)
TakenNever(node)    == FALSE
DuplicateIgnored(t) == Advance(t) /\ UNCHANGED graph

(* ensureConstraints makes the keys unique: a CREATE whose key is taken    *)
(* changes nothing.                                                        *)
Taken(node)  == node # None
Duplicate(t) == Return(t, "ERR_DUP_NODE") /\ UNCHANGED graph

(* Mutant: the result of the MATCH is not looked at. *)
MustExistUnchecked(t, node) == Advance(t) /\ UNCHANGED graph

(* A MATCH that must find a node before the method goes on. *)
MustExist(t, node) == /\ IF node = None THEN Return(t, "ERR_NO_NODE")
                                        ELSE Advance(t)
                      /\ UNCHANGED graph

-----------------------------------------------------------------------------
(* What the Cypher queries do to the graph.  DETACH DELETE removes nodes   *)
(* with every relationship they take part in.                              *)

SetField(i, f, old) == IF f \in i.fields THEN i[f] ELSE old

DetachTasks(K) == /\ task' = [k \in TaskKey |-> IF k \in K THEN None ELSE task[k]]
                  /\ contains' = {e \in contains : e[2] \notin K}
                  /\ UNCHANGED <<user, list, owns, access>>

(* Mutants: DELETE of the nodes without DETACH; DELETE of the relationship *)
(* without the nodes.                                                      *)
DeleteLists(L) == /\ list' = [l \in ListKey |-> IF l \in L THEN None ELSE list[l]]
                  /\ owns' = {e \in owns : e[2] \notin L}
                  /\ UNCHANGED <<user, task, contains, access>>

UnlinkLists(L) == /\ owns' = {e \in owns : e[2] \notin L}
                  /\ UNCHANGED <<nodes, contains, access>>

DetachLists(L) == /\ list' = [l \in ListKey |-> IF l \in L THEN None ELSE list[l]]
                  /\ owns'     = {e \in owns : e[2] \notin L}
                  /\ contains' = {e \in contains : e[1] \notin L}
                  /\ access'   = {e \in access : e[2] \notin L}
                  /\ UNCHANGED <<user, task>>

DetachUser(u) == /\ user'   = [user EXCEPT ![u] = None]
                 /\ owns'   = {e \in owns : e[1] # u}
                 /\ access' = {e \in access : e[1] # u}
                 /\ UNCHANGED <<list, task, contains>>

DetachAll == /\ user' = [u \in UserKey |-> None]
             /\ list' = [l \in ListKey |-> None]
             /\ task' = [k \in TaskKey |-> None]
             /\ owns' = {} /\ contains' = {} /\ access' = {}

VisibilityOf(l) == IF list[l] = None THEN None ELSE list[l].visibility

(* MATCH the two ends, MERGE the relationship: nothing happens unless both *)
(* ends exist.                                                             *)
MergeOwns(u, l) ==
    /\ owns' = owns \union IF user[u] # None /\ list[l] # None THEN {<<u, l>>} ELSE {}
    /\ UNCHANGED <<nodes, contains, access>>

(* Mutants: the task is linked blindly; or only to a list that is linked   *)
(* to its owner.                                                           *)
MergeContainsBlind(l, k) ==
    /\ contains' = contains \union {<<l, k>>}
    /\ UNCHANGED <<nodes, owns, access>>

MergeContainsOwned(l, k) ==
    /\ contains' = contains \union IF <<l[1], l>> \in owns THEN {<<l, k>>} ELSE {}
    /\ UNCHANGED <<nodes, owns, access>>

MergeContains(l, k) ==
    /\ contains' = contains \union
                     IF list[l] # None /\ task[k] # None THEN {<<l, k>>} ELSE {}
    /\ UNCHANGED <<nodes, owns, access>>

(* Mutant: MERGE without SET, the first permission sticks. *)
MergeAccessOnce(u, l, p) ==
    /\ access' = IF /\ user[u] # None /\ list[l] # None
                    /\ ~\E e \in access : <<e[1], e[2]>> = <<u, l>>
                 THEN access \union {<<u, l, p>>} ELSE access
    /\ UNCHANGED <<nodes, owns, contains>>

MergeAccess(u, l, p) ==
    /\ access' = IF user[u] # None /\ list[l] # None
                 THEN {e \in access : <<e[1], e[2]>> # <<u, l>>} \union {<<u, l, p>>}
                 ELSE access
    /\ UNCHANGED <<nodes, owns, contains>>

(* Mutant: anybody's permission counts. *)
GrantedToAny(u, l) == {p \in Perm : \E v \in UserKey : <<v, l, p>> \in access}

Granted(u, l) == {p \in Perm : <<u, l, p>> \in access}

Owned(u) == {l \in ListKey : <<u, l>> \in owns}

Contained(L) == {k \in TaskKey : \E l \in L : <<l, k>> \in contains}

-----------------------------------------------------------------------------
(* The methods, one disjunct per query, in the order the code runs them.   *)

Key(c)     == <<c.user, c.list>>
KeyTask(c) == <<c.user, c.list, c.task>>

createUserNode(t) ==
    LET c == call[t] IN
    /\ At(t, "createUserNode", 1)
    /\ IF Taken(user[c.user])
       THEN Duplicate(t)
       ELSE /\ user' = [user EXCEPT ![c.user] = [value |-> c.info.value]]
            /\ Return(t, "SUCCESS")
            /\ UNCHANGED <<list, task, edges>>

createTaskListNode(t) ==
    LET c == call[t]  l == Key(c) IN
    \/ At(t, "createTaskListNode", 1) /\ MustExist(t, user[c.user])
    \/ /\ At(t, "createTaskListNode", 2)
       /\ IF Taken(list[l])
          THEN Duplicate(t)
          ELSE /\ list' = [list EXCEPT ![l] =
                     [visibility |-> SetField(c.info, "visibility", "private"),
                      value |-> SetField(c.info, "value", None)]]
               /\ Advance(t)
               /\ UNCHANGED <<user, task, edges>>
    \/ /\ At(t, "createTaskListNode", 3)
       /\ MergeOwns(c.user, l)
       /\ Finish(t)

createTaskNode(t) ==
    LET c == call[t]  l == Key(c)  k == KeyTask(c) IN
    \/ At(t, "createTaskNode", 1) /\ MustExist(t, user[c.user])
    \/ At(t, "createTaskNode", 2) /\ MustExist(t, list[l])
    \/ /\ At(t, "createTaskNode", 3)
       /\ IF Taken(task[k])
          THEN Duplicate(t)
          ELSE /\ task' = [task EXCEPT ![k] =
                     [value |-> SetField(c.info, "value", None)]]
               /\ Advance(t)
               /\ UNCHANGED <<user, list, edges>>
    \/ /\ At(t, "createTaskNode", 4)
       /\ MergeContains(l, k)
       /\ Finish(t)

reviseUserNode(t) ==
    LET c == call[t] IN
    /\ At(t, "reviseUserNode", 1)
    /\ IF user[c.user] = None
       THEN Return(t, "ERR_NO_NODE") /\ UNCHANGED graph
       ELSE /\ user' = [user EXCEPT ![c.user].value = SetField(c.info, "value", @)]
            /\ Finish(t)
            /\ UNCHANGED <<list, task, edges>>

reviseTaskListNode(t) ==
    LET c == call[t]  l == Key(c) IN
    /\ At(t, "reviseTaskListNode", 1)
    /\ IF list[l] = None
       THEN Return(t, "ERR_NO_NODE") /\ UNCHANGED graph
       ELSE /\ list' = [list EXCEPT
                  ![l].visibility = SetField(c.info, "visibility", @),
                  ![l].value = SetField(c.info, "value", @)]
            /\ Finish(t)
            /\ UNCHANGED <<user, task, edges>>

reviseTaskNode(t) ==
    LET c == call[t]  k == KeyTask(c) IN
    /\ At(t, "reviseTaskNode", 1)
    /\ IF task[k] = None
       THEN Return(t, "ERR_NO_NODE") /\ UNCHANGED graph
       ELSE /\ task' = [task EXCEPT ![k].value = SetField(c.info, "value", @)]
            /\ Finish(t)
            /\ UNCHANGED <<user, list, edges>>

deleteUserNode(t) ==
    LET u == call[t].user IN
    \/ /\ At(t, "deleteUserNode", 1)
       /\ DetachTasks(Contained(Owned(u)))
       /\ Written(t)
    \/ At(t, "deleteUserNode", 2) /\ DetachLists(Owned(u)) /\ Written(t)
    \/ At(t, "deleteUserNode", 3) /\ DetachUser(u) /\ Finish(t)

deleteTaskListNode(t) ==
    LET l == Key(call[t]) IN
    \/ At(t, "deleteTaskListNode", 1) /\ DetachTasks(Contained({l})) /\ Written(t)
    \/ At(t, "deleteTaskListNode", 2) /\ DetachLists({l}) /\ Finish(t)

deleteTaskNode(t) ==
    At(t, "deleteTaskNode", 1) /\ DetachTasks({KeyTask(call[t])}) /\ Finish(t)

(* For the tests only: they start from an empty database. *)
deleteEverything(t) == At(t, "deleteEverything", 1) /\ DetachAll /\ Finish(t)

List(t, rows) == Reply(t, "SUCCESS", rows) /\ UNCHANGED graph

getUserNode(t) ==
    LET n == user[call[t].user] IN
    /\ At(t, "getUserNode", 1)
    /\ IF n = None THEN Return(t, "ERR_NO_NODE") /\ UNCHANGED graph
                   ELSE List(t, {<<n.value>>})

getTaskListNode(t) ==
    LET n == list[Key(call[t])] IN
    /\ At(t, "getTaskListNode", 1)
    /\ IF n = None THEN Return(t, "ERR_NO_NODE") /\ UNCHANGED graph
                   ELSE List(t, {<<n.visibility, n.value>>})

getTaskNode(t) ==
    LET n == task[KeyTask(call[t])] IN
    /\ At(t, "getTaskNode", 1)
    /\ IF n = None THEN Return(t, "ERR_NO_NODE") /\ UNCHANGED graph
                   ELSE List(t, {<<n.value>>})

getAllUserNodes(t) ==
    At(t, "getAllUserNodes", 1) /\ List(t, Row({u \in UserKey : user[u] # None}))

getAllTaskListNodes(t) ==
    LET u == call[t].user IN
    \/ At(t, "getAllTaskListNodes", 1) /\ MustExist(t, user[u])
    \/ At(t, "getAllTaskListNodes", 2) /\ List(t, {<<l[2]>> : l \in Owned(u)})

getAllTaskNodes(t) ==
    LET c == call[t]  l == Key(c) IN
    \/ At(t, "getAllTaskNodes", 1) /\ MustExist(t, user[c.user])
    \/ At(t, "getAllTaskNodes", 2) /\ MustExist(t, list[l])
    \/ At(t, "getAllTaskNodes", 3) /\ List(t, {<<k[3]>> : k \in Contained({l})})

(* The MERGE of the fourth query is sent and never fetched: a MATCH in it  *)
(* that finds nothing is still SUCCESS.                                    *)
addAccess(t) ==
    LET c == call[t]  l == Key(c) IN
    \/ At(t, "addAccess", 1) /\ MustExist(t, user[c.user])
    \/ At(t, "addAccess", 2) /\ MustExist(t, user[c.dst])
    \/ /\ At(t, "addAccess", 3)
       /\ CASE VisibilityOf(l) = None -> Return(t, "ERR_NO_NODE")
            [] VisibilityOf(l) = "private" -> Return(t, "ERR_ACCESS")
            [] OTHER -> Advance(t)
       /\ UNCHANGED graph
    \/ At(t, "addAccess", 4) /\ MergeAccess(c.dst, l, c.perm) /\ Finish(t)

checkAccess(t) ==
    LET c == call[t]  l == Key(c)
        granted == Granted(c.dst, l) IN
    \/ At(t, "checkAccess", 1) /\ MustExist(t, user[c.user])
    \/ At(t, "checkAccess", 2) /\ MustExist(t, user[c.dst])
    \/ /\ At(t, "checkAccess", 3)
       /\ CASE VisibilityOf(l) = None -> Return(t, "ERR_NO_NODE")
            [] VisibilityOf(l) = "private" -> Return(t, "ERR_ACCESS")
            [] VisibilityOf(l) = "public" -> Reply(t, "SUCCESS", {<<"write">>})
            [] OTHER -> Advance(t)
       /\ UNCHANGED graph
    \/ /\ At(t, "checkAccess", 4)
       /\ IF granted = {} THEN Return(t, "ERR_ACCESS")
                          ELSE Reply(t, "SUCCESS", Row(granted))
       /\ UNCHANGED graph

removeAccess(t) ==
    LET c == call[t] IN
    /\ At(t, "removeAccess", 1)
    /\ access' = {e \in access : <<e[1], e[2]>> # <<c.dst, Key(c)>>}
    /\ Finish(t)
    /\ UNCHANGED <<nodes, owns, contains>>

(* Lists shared with u, and the permission reported for each. *)
AccessRows(u) ==
    {<<e[2][1], e[2][2], IF VisibilityOf(e[2]) = "public" THEN "write" ELSE e[3]>> :
        e \in {e \in access : e[1] = u /\ VisibilityOf(e[2]) # "private"}}

allAccess(t) ==
    LET u == call[t].dst IN
    \/ At(t, "allAccess", 1) /\ MustExist(t, user[u])
    \/ At(t, "allAccess", 2) /\ List(t, AccessRows(u))

(* Mutant: a list that is public counts as shared. *)
allGrantOpen(t) ==
    LET c == call[t]  l == Key(c) IN
    \/ At(t, "allGrant", 1) /\ MustExist(t, user[c.user])
    \/ /\ At(t, "allGrant", 2)
       /\ CASE VisibilityOf(l) = None -> Return(t, "ERR_NO_NODE")
            [] VisibilityOf(l) = "private" -> Return(t, "SUCCESS")
            [] OTHER -> Advance(t)
       /\ UNCHANGED graph
    \/ /\ At(t, "allGrant", 3)
       /\ List(t, {<<e[1], e[3]>> : e \in {e \in access : e[2] = l}})

allGrant(t) ==
    LET c == call[t]  l == Key(c) IN
    \/ At(t, "allGrant", 1) /\ MustExist(t, user[c.user])
    \/ /\ At(t, "allGrant", 2)
       /\ CASE VisibilityOf(l) = None -> Return(t, "ERR_NO_NODE")
            [] VisibilityOf(l) \in {"private", "public"} -> Return(t, "SUCCESS")
            [] OTHER -> Advance(t)
       /\ UNCHANGED graph
    \/ /\ At(t, "allGrant", 3)
       /\ List(t, {<<e[1], e[3]>> : e \in {e \in access : e[2] = l}})

PublicLists == {l \in ListKey : VisibilityOf(l) = "public"}

getAllPublic(t) == At(t, "getAllPublic", 1) /\ List(t, PublicLists)

-----------------------------------------------------------------------------
(* Entering a method: the checks of its arguments come before the          *)
(* connection to the database is opened.                                   *)

ArgumentError(r) ==
    CASE r.method \in {"createUserNode", "createTaskListNode", "createTaskNode"}
         /\ "key" \notin r.info.fields -> "ERR_KEY"
      [] r.method = "createUserNode"
         /\ "key" \in r.info.fields /\ "value" \notin r.info.fields -> "ERR_RFIELD"
      [] r.method \in {"reviseUserNode", "reviseTaskListNode", "reviseTaskNode"}
         /\ "key" \in r.info.fields -> "ERR_KEY"
      [] r.method \in {"reviseUserNode", "reviseTaskListNode", "reviseTaskNode"}
         /\ r.info.fields = {} -> "ERR_RFIELD"
      [] OTHER -> None

Begin(t, r) ==
    /\ step[t] = 0
    /\ IF ArgumentError(r) # None
       THEN /\ ret' = [ret EXCEPT ![t] = ArgumentError(r)]
            /\ out' = [out EXCEPT ![t] = {}]
            /\ UNCHANGED <<call, step>>
       ELSE IF r.method = "checkAccess" /\ r.user = r.dst
       THEN /\ ret' = [ret EXCEPT ![t] = "SUCCESS"]
            /\ out' = [out EXCEPT ![t] = {<<"write">>}]
            /\ UNCHANGED <<call, step>>
       ELSE /\ ret' = [ret EXCEPT ![t] = None]
            /\ out' = [out EXCEPT ![t] = {}]
            /\ step' = [step EXCEPT ![t] = 1]
            /\ call' = [call EXCEPT ![t] = r]
    /\ UNCHANGED graph

Query(t) ==
    \/ createUserNode(t) \/ createTaskListNode(t) \/ createTaskNode(t)
    \/ reviseUserNode(t) \/ reviseTaskListNode(t) \/ reviseTaskNode(t)
    \/ deleteUserNode(t) \/ deleteTaskListNode(t) \/ deleteTaskNode(t)
    \/ deleteEverything(t)
    \/ getUserNode(t) \/ getTaskListNode(t) \/ getTaskNode(t)
    \/ getAllUserNodes(t) \/ getAllTaskListNodes(t) \/ getAllTaskNodes(t)
    \/ addAccess(t) \/ checkAccess(t) \/ removeAccess(t)
    \/ allAccess(t) \/ allGrant(t) \/ getAllPublic(t)

(* Mutant: the failure is not told to the caller. *)
QueryFailsUntold(t) == /\ Unreliable
                       /\ step[t] # 0
                       /\ Return(t, "SUCCESS")
                       /\ UNCHANGED graph

(* neo4j_check_failure: the query had no effect, the method returns.       *)
QueryFails(t) == /\ Unreliable
                 /\ step[t] # 0
                 /\ Return(t, "ERR_UNKNOWN")
                 /\ UNCHANGED graph

(* connectDB throws inside a noexcept handler, an I/O failure of a CREATE  *)
(* leaves neo4j_error_code NULL, or the process is killed: every call in   *)
(* progress stops where it is and the graph keeps what was committed.      *)
Crash == /\ Unreliable
         /\ call' = [t \in Thread |-> Blank]
         /\ step' = [t \in Thread |-> 0]
         /\ ret'  = [t \in Thread |-> None]
         /\ out'  = [t \in Thread |-> {}]
         /\ UNCHANGED graph

-----------------------------------------------------------------------------
Init == /\ user   = [u \in UserKey |-> None]
        /\ list   = [l \in ListKey |-> None]
        /\ task   = [k \in TaskKey |-> None]
        /\ owns   = {}
        /\ contains = {}
        /\ access = {}
        /\ call   = [t \in Thread |-> Blank]
        /\ step   = [t \in Thread |-> 0]
        /\ ret    = [t \in Thread |-> None]
        /\ out    = [t \in Thread |-> {}]

Next == \/ \E t \in Thread : \/ \E r \in Requests : Begin(t, r)
                            \/ Query(t)
                            \/ QueryFails(t)
        \/ Crash

Spec == Init /\ [][Next]_vars

-----------------------------------------------------------------------------
(* Correctness.                                                            *)

(* Every variable has its type.                                            *)
GraphTypeOK == /\ user \in [UserKey -> UserNode \union {None}]
               /\ list \in [ListKey -> ListNode \union {None}]
               /\ task \in [TaskKey -> TaskNode \union {None}]
               /\ owns \subseteq UserKey \X ListKey
               /\ contains \subseteq ListKey \X TaskKey
               /\ access \subseteq UserKey \X ListKey \X Perm

CallTypeOK == /\ call \in [Thread -> Requests \union {Blank}]
              /\ step \in [Thread -> 0..4]
              /\ ret  \in [Thread -> Code \union {None}]
              /\ out  \in [Thread -> SUBSET Answer]

TypeOK == GraphTypeOK /\ CallTypeOK

(* Whatever methods interleave, fail or are cut short by a crash, no       *)
(* relationship points at a deleted node or joins nodes of different       *)
(* owners, and a user holds at most one permission on a list (DETACH       *)
(* DELETE in the delete methods, MERGE in the create methods, addAccess).  *)
GraphIntegrity ==
    /\ \A e \in owns : /\ user[e[1]] # None /\ list[e[2]] # None
                       /\ e[1] = e[2][1]
    /\ \A e \in contains : /\ list[e[1]] # None /\ task[e[2]] # None
                           /\ e[1] = <<e[2][1], e[2][2]>>
    /\ \A e \in access : /\ user[e[1]] # None /\ list[e[2]] # None
    /\ \A e, f \in access : e[1] = f[1] /\ e[2] = f[2] => e[3] = f[3]

(* While queries are reliable and users are not deleted, a list node that  *)
(* getAllTaskListNodes does not show is one that a createTaskListNode is   *)
(* about to link (the CREATE and the MERGE are two queries).               *)
NoHiddenList ==
    \A l \in ListKey : list[l] # None =>
        \/ <<l[1], l>> \in owns
        \/ \E t \in Thread : At(t, "createTaskListNode", 3) /\ Key(call[t]) = l

(* The same for tasks, as long as no list is deleted either.               *)
Linking(k) == \E t \in Thread : At(t, "createTaskNode", 4) /\ KeyTask(call[t]) = k

Listed(k) == <<<<k[1], k[2]>>, k>> \in contains

Hidden(k) == task[k] # None /\ ~Listed(k) /\ ~Linking(k)

NoHiddenTask == \A k \in TaskKey : ~Hidden(k)

(* Where neither users nor lists are deleted but queries fail, a task      *)
(* that getAllTaskNodes does not show is one whose createTaskNode is about *)
(* to link it, or ended without SUCCESS: the MERGE failed, or the process  *)
(* crashed before it.  No query of another call hides a task, nor does a   *)
(* MERGE that was answered.                                                *)
HiddenIsTold ==
    [][\A k \in TaskKey : Hidden(k)' =>
          \/ Hidden(k)
          \/ \E t \in Thread : /\ At(t, "createTaskNode", 4) /\ KeyTask(call[t]) = k
                               /\ step'[t] = 0 /\ ret'[t] # "SUCCESS"
      ]_vars

(* A task that a failed or overtaken createTaskNode left unlisted (or that *)
(* outlived its list) never turns up later, in its list or in a new list   *)
(* of that name: it stays as it is until it is deleted.                    *)
NoResurrection ==
    [][\A k \in TaskKey :
          Hidden(k) /\ task'[k] # None => Hidden(k)']_vars

(* A create never changes the data of a node that exists, whoever created  *)
(* it in the meantime: only the query of a revise does, and it finishes    *)
(* the revise (the unique constraints of ensureConstraints decide the race *)
(* of two creates).                                                        *)
Revises(t, m) == At(t, m, 1) /\ step'[t] # 1

CreateKeepsData ==
    [][/\ \A u \in UserKey : user[u] # None /\ user'[u] \notin {None, user[u]} =>
             \E t \in Thread : Revises(t, "reviseUserNode") /\ call[t].user = u
       /\ \A l \in ListKey : list[l] # None /\ list'[l] \notin {None, list[l]} =>
             \E t \in Thread : Revises(t, "reviseTaskListNode") /\ Key(call[t]) = l
       /\ \A k \in TaskKey : task[k] # None /\ task'[k] \notin {None, task[k]} =>
             \E t \in Thread : Revises(t, "reviseTaskNode") /\ KeyTask(call[t]) = k
      ]_vars

(* Where neither users nor lists are deleted, a create that reports        *)
(* SUCCESS has made its node visible in the listing of its parent, unless  *)
(* it was deleted again, although the MERGE that links it is never looked  *)
(* at.                                                                     *)
AcknowledgedIsListed ==
    [][\A t \in Thread :
          LET c == call[t] IN
          step[t] # 0 /\ step'[t] = 0 /\ ret'[t] = "SUCCESS" =>
             /\ c.method = "createTaskListNode" =>
                   <<c.user, Key(c)>> \in owns' \/ list'[Key(c)] = None
             /\ c.method = "createTaskNode" =>
                   <<Key(c), KeyTask(c)>> \in contains' \/ task'[KeyTask(c)] = None
      ]_vars

(* "Ensure delete the task list node with all tasks"                       *)
(* (test/unit-test/test_DB.cc): no task outlives its list, and none is     *)
(* created without one.  Not so where lists are deleted meanwhile.         *)
TaskHasList ==
    \A k \in TaskKey : task[k] # None => list[<<k[1], k[2]>>] # None
=============================================================================
