---------------------------- MODULE WorkersAudit ----------------------------
(***************************************************************************)
(* Workers with a history variable: what has been true of the list that a  *)
(* request is about, at some instant since the request was taken up, and   *)
(* what the request itself has done.                                       *)
(***************************************************************************)
EXTENDS Workers

VARIABLE seen   \* seen[t]: facts, as tuples that begin with their kind
auditVars == <<workerVars, seen>>

Foreign(j) == /\ j.op \in TaskOps \union {"ListsQuery", "ListsRevise"}
              /\ j.other \notin {None, j.user}

(* Another user's list is open, and what may be done with it if shared.    *)
Grounds(j) ==
    LET l == <<j.other, j.list>> IN
    IF ~Foreign(j) THEN {}
    ELSE {<<"open", v>> : v \in {VisibilityOf(l)} \intersect {"shared", "public"}}
         \union {<<"may", p>> : p \in {p \in Perm : <<j.user, l, p>> \in access}}

(* The names of a create that are taken.                                   *)
TakenNames(j) ==
    CASE j.op = "TasksCreate" ->
            LET of == IF j.other = None THEN j.user ELSE j.other IN
            {<<"taken", k>> : k \in {k \in TaskName : task[<<of, j.list, k>>] # None}}
      [] j.op = "ListsCreate" ->
            {<<"taken", l>> : l \in {l \in ListName : list[<<j.user, l>>] # None}}
      [] OTHER -> {}

(* The permissions on a list that is being shared, or that it is gone.     *)
Grants(j) ==
    LET l == <<j.user, j.list>> IN
    IF j.op # "ReviseGrantTaskList" THEN {}
    ELSE {<<"granted", e[1], e[3]>> : e \in {e \in access : e[2] = l}}
         \union {<<"gone">> : v \in {VisibilityOf(l)} \intersect {None}}

Facts(j) == IF j = NoJob THEN {} ELSE Grounds(j) \union TakenNames(j) \union Grants(j)

(* What the step of a thread made: names of new nodes, new permissions.    *)
Moves(t) == step'[t] # step[t] /\ graph' # graph

Made ==
    {<<"made", k[3]>> : k \in {k \in TaskKey : task[k] = None /\ task'[k] # None}}
    \union {<<"made", l[2]>> : l \in {l \in ListKey : list[l] = None /\ list'[l] # None}}
    \union {<<"gave", e[1], e[3]>> : e \in access' \ access}

Observe ==
    seen' = [t \in Thread |->
               IF job'[t] = NoJob THEN {}
               ELSE seen[t] \union Facts(job[t])'
                            \union IF Moves(t) THEN Made ELSE {}]

AuditInit == WorkersInit /\ seen = [t \in Thread |-> {}]

AuditNext == \/ \E t \in Thread : \/ Handle(t) /\ Observe
                                  \/ Query(t) /\ UNCHANGED work /\ Observe
                                  \/ QueryFails(t) /\ UNCHANGED work /\ Observe
             \/ Die /\ Observe

AuditSpec == AuditInit /\ [][AuditNext]_auditVars

AuditFairSpec ==
    AuditSpec /\ \A t \in Thread : WF_auditVars(
       /\ stage[t] # "idle"
       /\ Handle(t) \/ (Query(t) /\ UNCHANGED work)
       /\ Observe)

-----------------------------------------------------------------------------
(* A request is answered, which the end of the process does not do.        *)
Answers(t, op) == /\ job[t] # NoJob /\ job[t].op = op /\ job'[t] = NoJob
                  /\ answer'[t][1] # None

Allowed(t, p) == \/ <<"open", "public">> \in seen[t]
                 \/ <<"open", "shared">> \in seen[t] /\ <<"may", p>> \in seen[t]

(* What a thread changes, and what it tells about another user's list, has *)
(* a ground.                                                               *)
ChangeHasGround(t) ==
    Moves(t) =>
        LET j == job[t]
            mine(l) == l[1] = j.user
            its(l)  == Foreign(j) /\ l = <<j.other, j.list>> /\ Allowed(t, "write") IN
        /\ \A l \in ListKey : list'[l] # list[l] =>
              mine(l) \/ (its(l) /\ VisibilityOf(l)' = VisibilityOf(l))
        /\ \A k \in TaskKey : task'[k] # task[k] =>
              mine(<<k[1], k[2]>>) \/ its(<<k[1], k[2]>>)
        /\ \A e \in (access \ access') \union (access' \ access) : mine(e[2])

ReadHasGround(t) ==
    \A op \in {"TasksQuery", "GetAllTasksName", "ListsQuery"} :
        Answers(t, op) /\ Foreign(job[t]) /\ answer'[t][1] = "SUCCESS" =>
            Allowed(t, "read") \/ Allowed(t, "write")

(* Who changes what: a request changes lists, tasks and permissions of its *)
(* own user only, except that a task, or the content of a list, of another *)
(* user is changed when at some instant of the request that list was       *)
(* public, or at one it was shared and at one (not necessarily the same)   *)
(* the user had the permission to write on it.  (The gate, its two queries *)
(* and the change are transactions apart; the change has no other          *)
(* protection.)                                                            *)
ChangesHadGround == [][\A t \in Thread : ChangeHasGround(t)]_auditVars

(* Who reads what: nothing of another user's list is returned unless at    *)
(* some instant of the request the list was public, or at one it was       *)
(* shared and at one (not necessarily the same) the user had a permission  *)
(* on it.                                                                  *)
ReadsHadGround == [][\A t \in Thread : ReadHasGround(t)]_auditVars

(* "If the name is duplicated, a number suffix will be automatically       *)
(* added" (documents/meeting-10-10.md): the name a create returns is the   *)
(* node it made, every smaller suffix was taken at some instant of the     *)
(* request, and a create that reports an error made nothing, unless a      *)
(* query of it failed.                                                     *)
CreatedAsTold ==
    [][\A t \in Thread : \A op \in Creates :
        Answers(t, op) =>
          LET j == job[t]
              name == IF op = "TasksCreate" THEN j.task ELSE j.list
              made == {f \in seen[t] : f[1] = "made"} IN
          CASE answer'[t][1] = "SUCCESS" ->
                 /\ made = {<<"made", answer'[t][2]>>}
                 /\ \E n \in 0..MaxCreates[op] :
                       /\ answer'[t][2] = Rename(name, n)
                       /\ \A i \in 0..(n - 1) : <<"taken", Rename(name, i)>> \in seen[t]
            [] answer'[t][1] = "ERR_UNKNOWN" -> TRUE
            [] OTHER -> made = {}]_auditVars

(* "It is guaranteed that all operations on users before errUser in the    *)
(* in_list are successful" (tasklistsWorker.h): each of those permissions  *)
(* was in force during the request, unless the list was gone; so was every *)
(* one of a request that was answered with success.                        *)
ShareAsTold ==
    [][\A t \in Thread : Answers(t, "ReviseGrantTaskList") =>
        LET share == job[t].share
            granted(i) == \/ <<"granted", share[i].user, share[i].perm>> \in seen[t]
                          \/ <<"gone">> \in seen[t] IN
        /\ answer'[t][1] = "SUCCESS" => \A i \in DOMAIN share : granted(i)
        /\ answer'[t][2] # None =>
              \E n \in DOMAIN share : /\ share[n].user = answer'[t][2]
                                      /\ \A i \in 1..(n - 1) : granted(i)]_auditVars

(* ShareCreate answers "falied all users" when errUser is empty            *)
(* (api.cpp): then no user of the list was given anything.                 *)
FailedAllGaveNothing ==
    [][\A t \in Thread :
        Answers(t, "ReviseGrantTaskList")
        /\ answer'[t][1] # "SUCCESS" /\ answer'[t][2] = None =>
            \A f \in seen[t] : f[1] # "gave"]_auditVars

(* The rename loop does not run for ever: a pass of it is used up only by  *)
(* a node that another request has created.                                *)
PassesBounded ==
    \A t \in Thread : stage[t] = "act" /\ job[t].op \in Creates =>
        pass[t] < creates[job[t].op]

(* Every request is answered: a thread is free again and again.            *)
Answered == \A t \in Thread : []<>(stage[t] = "idle")
=============================================================================
