-------------------------- MODULE WorkersLoopsProofs --------------------------
(***************************************************************************)
(* Proofs about the loops of the workers: the suffixes a create tries, and *)
(* the users a list is shared with.                                        *)
(***************************************************************************)
EXTENDS WorkersProofs, FiniteSetTheorems

Loops == Creates \union {"ReviseGrantTaskList"}

(* The call of pass n of a loop.                                           *)
LoopCall(j, n) ==
    CASE j.op = "TasksCreate" -> CreateTask(j, n)
      [] j.op = "ListsCreate" -> CreateList(j, n)
      [] OTHER -> [OwnCall(j, "addAccess") EXCEPT !.dst = j.share[n].user,
                                                  !.perm = j.share[n].perm]

(* What the loop goes on after, and the number of its first pass.          *)
Again(j)     == IF j.op \in Creates THEN "ERR_DUP_NODE" ELSE "SUCCESS"
FirstPass(j) == IF j.op \in Creates THEN 0 ELSE 1

(* The steps of a handler, by what they do to the request: it is taken up, *)
(* it makes its next call, it is answered, or it is refused at the door.   *)
TakesUp(t, j, stg, c) == /\ stage[t] = "idle" /\ Begin(t, c)
                         /\ job'   = [job EXCEPT ![t] = j]
                         /\ stage' = [stage EXCEPT ![t] = stg]
                         /\ pass' = pass /\ Count(j)

Acts(t, n, c) == stage[t] # "idle" /\ step[t] = 0 /\ Call(t, "act", n, c)

Tells(t, code, note) == stage[t] # "idle" /\ step[t] = 0 /\ Tell(t, code, note)

Refused(t) == UNCHANGED <<vars, job, stage, pass, creates>>

(* The steps of a method without a loop.                                   *)
Elsewhere(t) == /\ job[t].op \notin Loops /\ job'[t].op \notin Loops
                /\ creates' = creates

Steps(t, op) ==
    \/ \E j \in Sent(t, op) : \E first : Receive(t, j, first)
    \/ /\ \E stg : Back(t, op, stg)
       /\ \/ \E stg, n, c : Call(t, stg, n, c)
          \/ \E code, note : Tell(t, code, note)

(* The methods without a loop take up a request, make a call or answer.    *)
LEMMA OtherSteps ==
    ASSUME NEW t \in Thread, Handle(t)
    PROVE  \/ TasksCreate(t) \/ ListsCreate(t) \/ ReviseGrantTaskList(t)
           \/ ShareDeleteUsers(t)
           \/ \E op \in Op \ Loops : Steps(t, op)
<1>0. {"TasksQuery", "TasksDelete", "TasksRevise", "GetAllTasksName", "ListsQuery",
       "ListsDelete", "ListsRevise", "GetAllTasklist", "GetAllAccessTaskList",
       "GetAllPublicTaskList", "GetAllGrantTaskList", "RemoveGrantTaskList",
       "Register"} \subseteq Op \ Loops
  BY DEF Op, Loops, Creates, TaskOps, TaskWrites, ListOps, ShareOps
<1> USE DEF Steps
<1>a. ASSUME NEW op, NEW writes, NEW c, Gated(t, op, writes, c) PROVE Steps(t, op)
  BY <1>a DEF Gated
<1>b. ASSUME NEW op, Done(t, op) PROVE Steps(t, op)
  BY <1>b DEF Done
<1> HIDE DEF Steps
<1>c. ASSUME NEW op, NEW j \in Sent(t, op), NEW first, Receive(t, j, first)
      PROVE  Steps(t, op)
  BY <1>c DEF Steps
<1>1. TasksQuery(t) => Steps(t, "TasksQuery")
  BY <1>a, <1>b, <1>c DEF TasksQuery
<1>2. TasksDelete(t) => Steps(t, "TasksDelete")
  BY <1>a, <1>b, <1>c DEF TasksDelete
<1>3. TasksRevise(t) => Steps(t, "TasksRevise")
  BY <1>a, <1>b, <1>c DEF TasksRevise
<1>4. GetAllTasksName(t) => Steps(t, "GetAllTasksName")
  BY <1>a, <1>b, <1>c DEF GetAllTasksName
<1>5. ListsQuery(t) => Steps(t, "ListsQuery")
  BY <1>a, <1>b, <1>c DEF ListsQuery
<1>6. ListsDelete(t) => Steps(t, "ListsDelete")
  BY <1>a, <1>b, <1>c DEF ListsDelete
<1>7. ListsRevise(t) => Steps(t, "ListsRevise")
  BY <1>a, <1>b, <1>c DEF ListsRevise
<1>8. GetAllTasklist(t) => Steps(t, "GetAllTasklist")
  BY <1>a, <1>b, <1>c DEF GetAllTasklist
<1>9. GetAllAccessTaskList(t) => Steps(t, "GetAllAccessTaskList")
  BY <1>a, <1>b, <1>c DEF GetAllAccessTaskList
<1>10. GetAllPublicTaskList(t) => Steps(t, "GetAllPublicTaskList")
  BY <1>a, <1>b, <1>c DEF GetAllPublicTaskList
<1>11. GetAllGrantTaskList(t) => Steps(t, "GetAllGrantTaskList")
  <2>1. ASSUME Back(t, "GetAllGrantTaskList", "gate"),
               \/ \E code : Tell(t, code, None)
               \/ Call(t, "act", 0, OwnCall(job[t], "allGrant"))
        PROVE  Steps(t, "GetAllGrantTaskList")
    BY <2>1 DEF Steps
  <2> QED
    BY <1>b, <1>c, <2>1 DEF GetAllGrantTaskList
<1>12. RemoveGrantTaskList(t) => Steps(t, "RemoveGrantTaskList")
  <2>1. ASSUME NEW stg, Back(t, "RemoveGrantTaskList", stg),
               (\E code : Tell(t, code, None)) \/ (\E next, c : Call(t, next, 0, c))
        PROVE  Steps(t, "RemoveGrantTaskList")
    BY <2>1 DEF Steps
  <2> QED
    BY <1>b, <1>c, <2>1 DEF RemoveGrantTaskList
<1>13. Register(t) => Steps(t, "Register")
  <2>1. ASSUME NEW stg, Back(t, "Register", stg),
               (\E code : Tell(t, code, None)) \/ (\E next, c : Call(t, next, 0, c))
        PROVE  Steps(t, "Register")
    BY <2>1 DEF Steps
  <2> QED
    BY <1>b, <1>c, <2>1 DEF Register
<1> QED
  BY <1>0, <1>1, <1>2, <1>3, <1>4, <1>5, <1>6, <1>7, <1>8, <1>9, <1>10, <1>11, <1>12,
     <1>13 DEF Handle

(* They do not touch what the loops live on.                               *)
LEMMA OtherHandles ==
    ASSUME NEW t \in Thread, WorkTypeOK, creates \in [Creates -> Nat], Handle(t)
    PROVE  \/ TasksCreate(t) \/ ListsCreate(t) \/ ReviseGrantTaskList(t)
           \/ Elsewhere(t) \/ Refused(t)
<1>0. NoJob.op \notin Loops
  BY DEF NoJob, Loops, Creates
<1>1. ASSUME ShareDeleteUsers(t) PROVE Refused(t)
  BY <1>1 DEF ShareDeleteUsers, Refused
<1>2. ASSUME NEW op \in Op \ Loops, Steps(t, op) PROVE Elsewhere(t) \/ Refused(t)
  <2>1. CASE \E j \in Sent(t, op) : \E first : Receive(t, j, first)
    <3>1. PICK j \in Sent(t, op) : \E first : Receive(t, j, first)
      BY <2>1
    <3>2. j \in Jobs /\ j.op = op /\ stage[t] = "idle" /\ job[t] = NoJob
      BY DEF Sent, WorkTypeOK
    <3>3. CASE Fault(j) # None
      BY <3>1, <3>3 DEF Receive, Refused
    <3>4. CASE Fault(j) = None
      <4>1. job'[t] = j /\ Count(j)
        BY <3>1, <3>4 DEF Receive, WorkTypeOK
      <4>2. creates' = creates
        <5>1. \A o \in Creates : o # j.op /\ creates[o] \in Nat
          BY <3>2 DEF Loops
        <5>2. creates' = [o \in Creates |-> creates[o]]
          BY <4>1, <5>1 DEF Count
        <5> QED
          BY <5>2
      <4> QED
        BY <1>0, <3>2, <4>1, <4>2 DEF Elsewhere
    <3> QED
      BY <3>3, <3>4
  <2>2. CASE /\ \E stg : Back(t, op, stg)
             /\ \/ \E stg, n, c : Call(t, stg, n, c)
                \/ \E code, note : Tell(t, code, note)
    <3>1. job[t].op = op
      BY <2>2 DEF Back
    <3>2. job'[t] \in {job[t], NoJob} /\ creates' = creates
      BY <2>2 DEF Call, Tell, WorkTypeOK
    <3> QED
      BY <1>0, <3>1, <3>2 DEF Elsewhere
  <2> QED
    BY <1>2, <2>1, <2>2 DEF Steps
<1> QED
  BY <1>1, <1>2, OtherSteps

-----------------------------------------------------------------------------
(* The calls of the loops.                                                 *)

(* The node that a create asks for in pass n.                              *)
KeyAt(j, n) == IF j.op = "TasksCreate"
               THEN <<Owner(j), j.list, Rename(j.task, n)>>
               ELSE <<j.user, Rename(j.list, n)>>

KeyOf(c) == IF c.method = "createTaskNode" THEN KeyTask(c) ELSE Key(c)

(* A create asks for the node of its pass, with the content of its request.*)
LEMMA CreateCallFields ==
    ASSUME NEW j \in Jobs, j.op \in Creates, NEW n
    PROVE  LET c == LoopCall(j, n) IN
           /\ c.method = IF j.op = "TasksCreate" THEN "createTaskNode"
                                                 ELSE "createTaskListNode"
           /\ KeyOf(c) = KeyAt(j, n) /\ c.info = j.info
<1>1. CASE j.op = "TasksCreate"
  <2> DEFINE q == ListCall(j, "createTaskNode")
             x == Rename(j.task, n)
             i == j.info
             r == [q EXCEPT !.task = x, !.info = i]
  <2>1. q \in Request /\ q.method = "createTaskNode" /\ q.user = Owner(j) /\ q.list = j.list
    BY ListCallFields DEF Called
  <2>2. LoopCall(j, n) = r
    BY <1>1 DEF LoopCall, CreateTask
  <2> HIDE DEF q, x, i
  <2>3. /\ r.method = "createTaskNode" /\ r.user = Owner(j) /\ r.list = j.list
        /\ r.task = x /\ r.info = i
    BY <2>1 DEF Request
  <2> HIDE DEF r
  <2>4. KeyOf(r) = <<Owner(j), j.list, x>>
    BY <2>3 DEF KeyOf, KeyTask
  <2> QED
    BY <1>1, <2>2, <2>3, <2>4 DEF KeyAt, x, i
<1>2. CASE j.op = "ListsCreate"
  <2> DEFINE q == UserCall(j, "createTaskListNode")
             x == Rename(j.list, n)
             i == j.info
             r == [q EXCEPT !.list = x, !.info = i]
  <2>1. q \in Request /\ q.method = "createTaskListNode" /\ q.user = j.user
    BY UserCallFields DEF Called
  <2>2. LoopCall(j, n) = r
    BY <1>2 DEF LoopCall, CreateList
  <2> HIDE DEF q, x, i
  <2>3. /\ r.method = "createTaskListNode" /\ r.user = j.user
        /\ r.list = x /\ r.info = i
    BY <2>1 DEF Request
  <2> HIDE DEF r
  <2>4. KeyOf(r) = <<j.user, x>>
    BY <2>3 DEF KeyOf, Key
  <2> QED
    BY <1>2, <2>2, <2>3, <2>4 DEF KeyAt, x, i
<1> QED
  BY <1>1, <1>2 DEF Creates

(* A share grants the entry of its pass on the list of its request.        *)
LEMMA GrantCallFields ==
    ASSUME NEW j \in Jobs, j.op = "ReviseGrantTaskList", NEW n
    PROVE  LET c == LoopCall(j, n) IN
           /\ c.method = "addAccess" /\ Key(c) = <<j.user, j.list>>
           /\ c.dst = j.share[n].user /\ c.perm = j.share[n].perm
<1> DEFINE q == OwnCall(j, "addAccess")
           u == j.share[n].user
           p == j.share[n].perm
           r == [q EXCEPT !.dst = u, !.perm = p]
<1>1. q \in Request /\ q.method = "addAccess" /\ q.user = j.user /\ q.list = j.list
  BY OwnCallFields DEF Called
<1>2. LoopCall(j, n) = r
  BY DEF LoopCall
<1> HIDE DEF q, u, p
<1>3. /\ r.method = "addAccess" /\ r.user = j.user /\ r.list = j.list
      /\ r.dst = u /\ r.perm = p
  BY <1>1 DEF Request
<1> HIDE DEF r
<1> QED
  BY <1>2, <1>3 DEF Key, u, p

(* DB does not refuse their arguments.                                     *)
LEMMA LoopBegins ==
    ASSUME NEW t \in Thread, TypeOK, NEW j \in Jobs, j.op \in Loops, Fault(j) = None,
           NEW n, Begin(t, LoopCall(j, n))
    PROVE  step'[t] = 1 /\ call'[t] = LoopCall(j, n)
<1> DEFINE c == LoopCall(j, n)
<1>1. j.op \in Creates => "key" \in j.info.fields
  BY NoneAssumption DEF Fault, Code
<1>2. c.method \in {"createTaskNode", "createTaskListNode", "addAccess"}
      /\ (c.method \in {"createTaskNode", "createTaskListNode"} => "key" \in c.info.fields)
  BY <1>1, CreateCallFields, GrantCallFields DEF Loops
<1> HIDE DEF c
<1>3. ArgumentError(c) = None /\ c.method # "checkAccess"
  BY <1>2 DEF ArgumentError
<1> QED
  BY <1>3 DEF Begin, TypeOK, CallTypeOK, c

-----------------------------------------------------------------------------
(* The part of the invariant that every loop needs: where its request is,  *)
(* and that the call in progress is that of its pass.                      *)
Looping(t) ==
    /\ job[t] = NoJob => pass[t] = 0
    /\ job[t].op \in Loops =>
          /\ stage[t] \in {"gate", "act"}
          /\ stage[t] = "gate" => pass[t] = 0
          /\ stage[t] = "act" /\ step[t] # 0 => call[t] = LoopCall(job[t], pass[t])

LoopInv == creates \in [Creates -> Nat] /\ \A t \in Thread : Looping(t)

(* The pass that comes next, and what a request is told.                   *)
NextPass(t, n) ==
    \/ stage[t] = "gate" /\ n = FirstPass(job[t])
    \/ /\ stage[t] = "act" /\ n = pass[t] + 1 /\ ret[t] = Again(job[t])
       /\ job[t].op \in Creates => n < MaxCreates[job[t].op]

CreateTold(t, code, note) ==
    LET j == job[t]
        name == IF j.op = "TasksCreate" THEN j.task ELSE j.list IN
    \/ stage[t] = "gate" /\ code # "SUCCESS"
    \/ /\ stage[t] = "act" /\ ret[t] # "ERR_DUP_NODE" /\ code = ret[t]
       /\ note = IF code = "SUCCESS" THEN Rename(name, pass[t]) ELSE None

ShareTold(t, code, note) ==
    \/ /\ code = "SUCCESS" /\ note = None
       /\ \A i \in DOMAIN job[t].share : i <= pass[t]
       /\ stage[t] = "act" => ret[t] = "SUCCESS"
    \/ code # "SUCCESS" /\ note = None
    \/ code # "SUCCESS" /\ stage[t] = "act" /\ note = job[t].share[pass[t]].user

Told(t, code, note) == IF job[t].op \in Creates THEN CreateTold(t, code, note)
                                                ELSE ShareTold(t, code, note)

(* The steps of a loop.                                                    *)
LoopTakesUp(t) == \E j \in Jobs, stg \in {"gate", "act"}, c \in Requests :
    /\ TakesUp(t, j, stg, c) /\ j.op \in Loops /\ Fault(j) = None
    /\ stg = "act" => j.op \in Creates /\ c = LoopCall(j, 0)

LoopActs(t) == \E n \in Nat :
    /\ job[t].op \in Loops /\ NextPass(t, n)
    /\ Acts(t, n, LoopCall(job[t], n))

LoopTells(t) == \E code, note :
    job[t].op \in Loops /\ Tells(t, code, note) /\ Told(t, code, note)

(* A loop begins with its gate, or with its first call.                    *)
LEMMA LoopReceives ==
    ASSUME NEW t \in Thread, WorkTypeOK, NEW op \in Loops, NEW j \in Sent(t, op),
           NEW stg \in {"gate", "act"}, NEW c \in Requests, Receive(t, j, <<stg, c>>),
           stg = "act" => j.op \in Creates /\ c = LoopCall(j, 0)
    PROVE  LoopTakesUp(t) \/ Refused(t)
<1>1. j \in Jobs /\ j.op = op /\ stage[t] = "idle"
  BY DEF Sent
<1>2. CASE Fault(j) # None
  BY <1>2 DEF Receive, Refused
<1>3. CASE Fault(j) = None
  <2>1. TakesUp(t, j, stg, c)
    BY <1>1, <1>3 DEF Receive, TakesUp
  <2> QED
    BY <1>1, <1>3, <2>1 DEF LoopTakesUp
<1> QED
  BY <1>2, <1>3

(* The steps of the two creates.                                           *)
LEMMA CreateSteps ==
    ASSUME NEW t \in Thread, WorkTypeOK, Looping(t), TasksCreate(t) \/ ListsCreate(t)
    PROVE  LoopTakesUp(t) \/ LoopActs(t) \/ LoopTells(t) \/ Refused(t)
<1> DEFINE j == job[t]
<1>0. pass[t] + 1 \in Nat /\ pass[t] \in Nat /\ "TasksCreate" \in Loops /\ "ListsCreate" \in Loops
  BY DEF WorkTypeOK, Loops, Creates
<1>1. ASSUME stage[t] = "act", step[t] = 0, j.op \in Creates,
             NextName(t, LoopCall(j, pass[t] + 1),
                      Rename(IF j.op = "TasksCreate" THEN j.task ELSE j.list, pass[t]))
      PROVE  LoopActs(t) \/ LoopTells(t)
  <2>1. CASE ret[t] = "ERR_DUP_NODE"
    BY <1>0, <1>1, <2>1 DEF NextName, LoopActs, Acts, NextPass, Again, Loops
  <2>2. CASE ret[t] # "ERR_DUP_NODE"
    BY <1>1, <2>2 DEF NextName, LoopTells, Tells, Told, CreateTold, Loops
  <2> QED
    BY <2>1, <2>2
<1>2. CASE TasksCreate(t)
  <2>1. CASE \E k \in Sent(t, "TasksCreate") : Receive(t, k, GateFirst(k))
    <3>1. PICK k \in Sent(t, "TasksCreate") : Receive(t, k, GateFirst(k))
      BY <2>1
    <3>2. GateFirst(k) = <<"gate", GateFirst(k)[2]>>
      BY DEF GateFirst
    <3>3. GateFirst(k)[2] \in Requests
      BY GateFirstCall DEF Sent
    <3> QED
      BY <1>0, <3>1, <3>2, <3>3, LoopReceives
  <2>2. CASE Gated(t, "TasksCreate", TRUE, CreateTask(j, 0))
    <3>1. j.op = "TasksCreate" /\ stage[t] = "gate" /\ step[t] = 0
      BY <2>2 DEF Gated, Back
    <3>2. CASE Refusal(t, TRUE) = None
      <4>1. Acts(t, 0, LoopCall(j, 0))
        BY <2>2, <3>1, <3>2 DEF Gated, Acts, LoopCall
      <4>2. NextPass(t, 0)
        BY <3>1 DEF NextPass, FirstPass, Creates
      <4> QED
        BY <1>0, <3>1, <4>1, <4>2 DEF LoopActs
    <3>3. CASE Refusal(t, TRUE) # None
      <4>1. Tells(t, Refusal(t, TRUE), None)
        BY <2>2, <3>1, <3>3 DEF Gated, Tells
      <4>2. Told(t, Refusal(t, TRUE), None)
        BY <3>1, RefusalIsNoSuccess DEF Told, CreateTold, Creates
      <4> QED
        BY <1>0, <3>1, <4>1, <4>2 DEF LoopTells
    <3> QED
      BY <3>2, <3>3
  <2>3. CASE /\ Back(t, "TasksCreate", "act")
             /\ NextName(t, CreateTask(j, pass[t] + 1), Rename(j.task, pass[t]))
    <3>1. j.op = "TasksCreate" /\ stage[t] = "act" /\ step[t] = 0
      BY <2>3 DEF Back
    <3>2. LoopCall(j, pass[t] + 1) = CreateTask(j, pass[t] + 1)
      BY <3>1 DEF LoopCall
    <3> QED
      BY <1>1, <2>3, <3>1, <3>2 DEF Creates
  <2> QED
    BY <1>2, <2>1, <2>2, <2>3 DEF TasksCreate
<1>3. CASE ListsCreate(t)
  <2>1. CASE \E k \in Sent(t, "ListsCreate") : Receive(t, k, <<"act", CreateList(k, 0)>>)
    <3>1. PICK k \in Sent(t, "ListsCreate") : Receive(t, k, <<"act", CreateList(k, 0)>>)
      BY <2>1
    <3>2. k \in Jobs /\ k.op = "ListsCreate"
      BY DEF Sent
    <3>3. CreateList(k, 0) \in Requests
      BY <3>2, FitsWrites, JobFields DEF Fits, Rename
    <3>4. CreateList(k, 0) = LoopCall(k, 0)
      BY <3>2 DEF LoopCall
    <3> QED
      BY <1>0, <3>1, <3>2, <3>3, <3>4, LoopReceives DEF Creates
  <2>2. CASE /\ Back(t, "ListsCreate", "act")
             /\ NextName(t, CreateList(j, pass[t] + 1), Rename(j.list, pass[t]))
    <3>1. j.op = "ListsCreate" /\ stage[t] = "act" /\ step[t] = 0
      BY <2>2 DEF Back
    <3>2. LoopCall(j, pass[t] + 1) = CreateList(j, pass[t] + 1)
      BY <3>1 DEF LoopCall
    <3> QED
      BY <1>1, <2>2, <3>1, <3>2 DEF Creates
  <2> QED
    BY <1>3, <2>1, <2>2 DEF ListsCreate
<1> QED
  BY <1>2, <1>3

(* The steps of a share.                                                   *)
LEMMA GrantSteps ==
    ASSUME NEW t \in Thread, WorkTypeOK, Looping(t), ReviseGrantTaskList(t)
    PROVE  LoopTakesUp(t) \/ LoopActs(t) \/ LoopTells(t) \/ Refused(t)
<1> DEFINE j == job[t]
           o == "ReviseGrantTaskList"
<1>0. pass[t] + 1 \in Nat /\ pass[t] \in Nat /\ o \in Loops \ Creates
  BY DEF WorkTypeOK, Loops, Creates
<1>1. CASE \E k \in Sent(t, o) : Receive(t, k, VisibilityFirst(k))
  <2>1. PICK k \in Sent(t, o) : Receive(t, k, VisibilityFirst(k))
    BY <1>1
  <2>2. VisibilityFirst(k) = <<"gate", OwnCall(k, "getTaskListNode")>>
    BY DEF VisibilityFirst
  <2>3. OwnCall(k, "getTaskListNode") \in Requests
    BY FitsVisibility DEF Sent, Fits, ShareOps
  <2> QED
    BY <1>0, <2>1, <2>2, <2>3, LoopReceives
<1>2. ASSUME j.op = o, stage[t] \in {"gate", "act"}, step[t] = 0, NextGrant(t),
             stage[t] = "act" => ret[t] = "SUCCESS"
      PROVE  LoopActs(t) \/ LoopTells(t)
  <2> DEFINE n == pass[t] + 1
  <2>0. j \in Jobs /\ j.share \in Seq(ShareInfo)
    BY <1>2, AtWork, JobFields
  <2>1. CASE n > Len(j.share)
    <3>1. \A i \in DOMAIN j.share : i <= pass[t]
      BY <1>0, <2>0, <2>1
    <3>2. Tells(t, "SUCCESS", None)
      BY <1>2, <2>1 DEF NextGrant, Tells
    <3>3. Told(t, "SUCCESS", None)
      BY <1>0, <1>2, <3>1 DEF Told, ShareTold
    <3> QED
      BY <1>0, <1>2, <3>2, <3>3 DEF LoopTells
  <2>2. CASE ~(n > Len(j.share)) /\ j.share[n].user = None
    <3>1. Tells(t, "ERR_RFIELD", None)
      BY <1>2, <2>2 DEF NextGrant, Tells
    <3>2. Told(t, "ERR_RFIELD", None)
      BY <1>0, <1>2 DEF Told, ShareTold
    <3> QED
      BY <1>0, <1>2, <3>1, <3>2 DEF LoopTells
  <2>3. CASE ~(n > Len(j.share)) /\ j.share[n].user # None
    <3>1. LoopCall(j, n) = [OwnCall(j, "addAccess") EXCEPT
                              !.dst = j.share[n].user, !.perm = j.share[n].perm]
      BY <1>2 DEF LoopCall
    <3>2. Acts(t, n, LoopCall(j, n))
      BY <1>2, <2>3, <3>1 DEF NextGrant, Acts
    <3>3. NextPass(t, n)
      BY <1>0, <1>2 DEF Looping, NextPass, FirstPass, Again
    <3> QED
      BY <1>0, <1>2, <3>2, <3>3 DEF LoopActs
  <2> QED
    BY <2>1, <2>2, <2>3
<1>3. CASE Back(t, o, "gate") /\ Tell(t, "ERR_ACCESS", None)
  <2>1. Tells(t, "ERR_ACCESS", None) /\ Told(t, "ERR_ACCESS", None)
    BY <1>0, <1>3 DEF Back, Tells, Told, ShareTold
  <2> QED
    BY <1>0, <1>3, <2>1 DEF LoopTells, Back
<1>4. CASE Back(t, o, "act") /\ ret[t] # "SUCCESS" /\ Tell(t, ret[t], ErrUser(t))
  <2>1. Tells(t, ret[t], ErrUser(t)) /\ Told(t, ret[t], ErrUser(t))
    BY <1>0, <1>4 DEF Back, Tells, Told, ShareTold, ErrUser
  <2> QED
    BY <1>0, <1>4, <2>1 DEF LoopTells, Back
<1> QED
  BY <1>1, <1>2, <1>3, <1>4 DEF ReviseGrantTaskList, Back

(* Every step of a handler.                                                *)
LEMMA LoopSteps ==
    ASSUME NEW t \in Thread, WorkTypeOK, LoopInv, Handle(t)
    PROVE  LoopTakesUp(t) \/ LoopActs(t) \/ LoopTells(t) \/ Elsewhere(t) \/ Refused(t)
BY CreateSteps, GrantSteps, OtherHandles DEF LoopInv

-----------------------------------------------------------------------------
(* What a step leaves alone.                                               *)
Still(s) == /\ job'[s] = job[s] /\ stage'[s] = stage[s] /\ pass'[s] = pass[s]
            /\ call'[s] = call[s] /\ step'[s] = step[s] /\ ret'[s] = ret[s]

Alone(t) == \A s \in Thread \ {t} : Still(s)

Runs(t) == UNCHANGED work /\ (Query(t) \/ QueryFails(t))

(* A step is one of one thread, or the end of the process.                 *)
LEMMA Turns ==
    ASSUME Known, [AuditNext]_auditVars
    PROVE  \/ UNCHANGED auditVars
           \/ Die /\ Observe
           \/ \E t \in Thread : Observe /\ Alone(t) /\ (Handle(t) \/ Runs(t))
<1>1. ASSUME NEW t \in Thread, Handle(t) PROVE Alone(t)
  <2>1. CASE Asks(t)
    <3>1. Apart(t)
      BY <2>1, BeginApart DEF Known, Asks, Starts
    <3> QED
      BY <2>1, <3>1 DEF Known, Asks, Starts, Moved, WorkTypeOK, Apart, Alone, Still
  <2>2. CASE Ends(t) \/ Refuses(t)
    BY <2>2 DEF Ends, Refuses, Known, Moved, WorkTypeOK, vars, Alone, Still
  <2> QED
    BY <1>1, <2>1, <2>2, HandleStep DEF Known
<1>2. ASSUME NEW t \in Thread, Runs(t) PROVE Alone(t)
  BY <1>2, QueryApart, FailsApart DEF Runs, Known, Apart, Alone, Still, work
<1> QED
  BY <1>1, <1>2 DEF AuditNext, Runs

(* A query goes on with its call or ends it.                               *)
LEMMA RunsOn ==
    ASSUME Known, NEW t \in Thread, Runs(t)
    PROVE  /\ UNCHANGED <<job, stage, pass, creates>> /\ step[t] # 0 /\ job[t] # NoJob
           /\ \/ step'[t] = 0
              \/ step'[t] = step[t] + 1 /\ call'[t] = call[t]
<1>1. step[t] # 0
  BY QueryProgress DEF Runs, QueryFails
<1> QED
  BY <1>1, QueryApart, FailsApart DEF Runs, Known, AuditInv, Sound, work

(* The handlers of the other methods.                                      *)
LEMMA ElsewherePass ==
    ASSUME Known, NEW t \in Thread, Handle(t), job[t] = NoJob => pass[t] = 0
    PROVE  job'[t] = NoJob => pass'[t] = 0
<1>1. NoJob \notin Jobs
  BY JobsAssumption DEF NoJob, Job, Op, TaskOps, TaskWrites, ListOps, ShareOps
<1>2. CASE Asks(t)
  BY <1>1, <1>2 DEF Asks, Starts, Moved, Known, WorkTypeOK
<1>3. CASE Ends(t) \/ Refuses(t)
  BY <1>3 DEF Ends, Refuses, Moved, Known, WorkTypeOK
<1> QED
  BY <1>2, <1>3, HandleStep DEF Known

(* A step of a loop keeps to the call of its pass.                         *)
LEMMA LoopKeeps ==
    ASSUME Known, LoopInv, NEW t \in Thread, Handle(t)
    PROVE  Looping(t)' /\ creates' \in [Creates -> Nat]
<1> USE DEF Looping
<1>0. Looping(t) /\ TypeOK /\ WorkTypeOK /\ NoJob.op \notin Loops
      /\ creates \in [Creates -> Nat]
  BY DEF LoopInv, Known, NoJob, Loops, Creates
<1>1. CASE LoopTakesUp(t)
  <2>1. PICK j \in Jobs, stg \in {"gate", "act"}, c \in Requests :
           /\ TakesUp(t, j, stg, c) /\ j.op \in Loops
           /\ stg = "act" => j.op \in Creates /\ c = LoopCall(j, 0)
    BY <1>1 DEF LoopTakesUp
  <2>2. pass'[t] = 0 /\ job'[t] = j /\ stage'[t] = stg /\ j # NoJob
    BY <1>0, <2>1 DEF TakesUp, WorkTypeOK
  <2>3. step'[t] = 0 \/ call'[t] = c
    BY <1>0, <2>1, BeginApart DEF TakesUp
  <2>4. creates' \in [Creates -> Nat]
    BY <1>0, <2>1 DEF TakesUp, Count
  <2> QED
    BY <2>1, <2>2, <2>3, <2>4
<1>2. CASE LoopActs(t)
  <2>1. PICK n \in Nat : Acts(t, n, LoopCall(job[t], n)) /\ job[t].op \in Loops
    BY <1>2 DEF LoopActs
  <2>2. job' = job /\ stage'[t] = "act" /\ pass'[t] = n /\ creates' = creates
    BY <1>0, <2>1 DEF Acts, Call, WorkTypeOK
  <2>3. step'[t] = 0 \/ call'[t] = LoopCall(job[t], n)
    BY <1>0, <2>1 DEF Acts, Call, Begin, TypeOK, CallTypeOK
  <2> QED
    BY <1>0, <2>1, <2>2, <2>3 DEF WorkTypeOK
<1>3. CASE LoopTells(t)
  BY <1>0, <1>3 DEF LoopTells, Tells, Tell, WorkTypeOK
<1>4. CASE Elsewhere(t)
  BY <1>0, <1>4, ElsewherePass DEF Elsewhere
<1>5. CASE Refused(t)
  BY <1>0, <1>5 DEF Refused, vars
<1> QED
  BY <1>0, <1>1, <1>2, <1>3, <1>4, <1>5, LoopSteps

(* So the loops are where they should be in every state.                   *)
LEMMA LoopNext == Known /\ LoopInv /\ [AuditNext]_auditVars => LoopInv'
<1> SUFFICES ASSUME Known, LoopInv, [AuditNext]_auditVars PROVE LoopInv'
  OBVIOUS
<1>1. CASE UNCHANGED auditVars
  BY <1>1 DEF auditVars, workerVars, work, vars, LoopInv, Looping
<1>2. CASE Die
  BY <1>2 DEF Die, Crash, LoopInv, Looping, NoJob, Loops, Creates
<1>3. ASSUME NEW t \in Thread, Alone(t), Handle(t) \/ Runs(t) PROVE LoopInv'
  <2>1. \A s \in Thread \ {t} : Looping(s)'
    BY <1>3 DEF LoopInv, Looping, Alone, Still
  <2>2. Looping(t)' /\ creates' \in [Creates -> Nat]
    <3>1. CASE Runs(t)
      BY <3>1, RunsOn DEF LoopInv, Looping
    <3> QED
      BY <1>3, <3>1, LoopKeeps
  <2> QED
    BY <2>1, <2>2 DEF LoopInv
<1> QED
  BY <1>1, <1>2, <1>3, Turns

(* In every state of the program.                                          *)
LEMMA LoopsKnown == AuditSpec => []LoopInv
<1>1. AuditInit => LoopInv
  BY DEF AuditInit, WorkersInit, LoopInv, Looping, NoJob, Loops, Creates
<1> QED
  BY <1>1, LoopNext, AllKnown, PTL DEF AuditSpec

-----------------------------------------------------------------------------
(* The nodes that a create makes.                                          *)
NodeKeys(o)  == IF o = "TasksCreate" THEN TaskKey ELSE ListKey
Exists(o, k) == IF o = "TasksCreate" THEN task[k] # None ELSE list[k] # None
Busy(t, o)   == job[t].op = o
Node(t)      == KeyAt(job[t], pass[t])

(* The query after the CREATE, which links the node.                       *)
LinkStep(o) == IF o = "TasksCreate" THEN 4 ELSE 3

(* Different suffixes give different nodes.                                *)
LEMMA KeyAtInjective ==
    ASSUME NEW j \in Jobs, NEW i \in Nat, NEW n \in Nat, KeyAt(j, i) = KeyAt(j, n)
    PROVE  i = n
<1>1. ASSUME NEW s \in Seq(Nat), Rename(s, i) = Rename(s, n) PROVE i = n
  <2>1. \A m \in Nat : /\ Len(Append(s, m)) = Len(s) + 1
                        /\ Append(s, m)[Len(s) + 1] = m
    OBVIOUS
  <2>2. Len(s) # Len(s) + 1
    OBVIOUS
  <2>3. CASE i = 0 \/ n = 0
    BY <1>1, <2>1, <2>2, <2>3 DEF Rename
  <2>4. CASE i # 0 /\ n # 0
    <3>1. Append(s, i) = Append(s, n)
      BY <1>1, <2>4 DEF Rename
    <3> QED
      BY <2>1, <3>1, Zenon
  <2> QED
    BY <2>3, <2>4
<1>2. j.task \in Seq(Nat) /\ j.list \in Seq(Nat)
  BY JobFields, NamesAssumption
<1> QED
  BY <1>1, <1>2 DEF KeyAt

(* Only the two creates make lists and tasks.                              *)
LEMMA NoNewNode ==
    ASSUME NEW t \in Thread, TypeOK, Query(t)
    PROVE  /\ call[t].method # "createTaskNode" =>
                 \A k \in TaskKey : task'[k] # None => task[k] # None
           /\ call[t].method # "createTaskListNode" =>
                 \A l \in ListKey : list'[l] # None => list[l] # None
<1>0. GraphTypeOK
  BY DEF TypeOK
<1>1. CASE Reads(t)
  BY <1>1, ReadsKeepGraph DEF graph
<1>2. CASE createTaskNode(t) \/ reviseTaskNode(t) \/ deleteTaskNode(t)
  <2>1. list' = list
    BY <1>2, TaskChange
  <2>2. createTaskNode(t) => call[t].method = "createTaskNode"
    BY DEF createTaskNode, At
  <2>3. CASE reviseTaskNode(t)
    BY <1>0, <2>1, <2>3 DEF reviseTaskNode, GraphTypeOK, graph
  <2>4. CASE deleteTaskNode(t)
    BY <1>0, <2>1, <2>4 DEF deleteTaskNode, DetachTasks
  <2> QED
    BY <1>2, <2>1, <2>2, <2>3, <2>4
<1>3. CASE createTaskListNode(t) \/ reviseTaskListNode(t)
  <2>1. task' = task
    BY <1>3, ListChange
  <2>2. createTaskListNode(t) => call[t].method = "createTaskListNode"
    BY DEF createTaskListNode, At
  <2>3. CASE reviseTaskListNode(t)
    BY <1>0, <2>1, <2>3 DEF reviseTaskListNode, GraphTypeOK, graph
  <2> QED
    BY <1>3, <2>1, <2>2, <2>3
<1>4. CASE createUserNode(t) \/ reviseUserNode(t)
  BY <1>4 DEF createUserNode, reviseUserNode, Duplicate, graph
<1>5. CASE addAccess(t) \/ removeAccess(t)
  BY <1>5, AccessChange
<1>6. CASE \/ deleteUserNode(t) \/ deleteTaskListNode(t) \/ deleteEverything(t)
  BY <1>6 DEF deleteUserNode, deleteTaskListNode, deleteEverything, DetachTasks,
              DetachLists, DetachUser, DetachAll
<1> QED
  BY <1>1, <1>2, <1>3, <1>4, <1>5, <1>6 DEF Query, Reads

(* So requests for other things do not.                                    *)
LEMMA OthersMakeNone ==
    ASSUME Known, NEW t \in Thread, Runs(t), NEW o \in Creates,
           ~(Busy(t, o) /\ stage[t] = "act" /\ Query(t))
    PROVE  \A k \in NodeKeys(o) : Exists(o, k)' => Exists(o, k)
<1>1. CASE QueryFails(t)
  BY <1>1 DEF QueryFails, graph, Exists
<1>2. CASE Query(t)
  <2>1. TypeOK /\ Fits(job[t], stage[t], call[t]) /\ stage[t] \in Stage /\ stage[t] # "idle"
    BY RunsOn DEF Known, AuditInv, Sound, WorkTypeOK
  <2>2. /\ call[t].method = "createTaskNode" => stage[t] = "act" /\ Busy(t, "TasksCreate")
        /\ call[t].method = "createTaskListNode" => stage[t] = "act" /\ Busy(t, "ListsCreate")
    BY <2>1 DEF Fits, Stage, Busy
  <2> QED
    BY <1>2, <2>1, <2>2, NoNewNode DEF Creates, NodeKeys, Exists
<1> QED
  BY <1>1, <1>2 DEF Runs

(* The queries of a create: before the CREATE, which finds its name taken  *)
(* or makes the node, and after it.                                        *)
Before(t, o) == /\ UNCHANGED graph
                /\ step[t] # LinkStep(o) /\ step'[t] # LinkStep(o)
                /\ step'[t] = 0 => ret'[t] = "ERR_NO_NODE"

FindsTaken(t, o) == /\ UNCHANGED graph /\ Exists(o, Node(t))
                    /\ step[t] # LinkStep(o) /\ step'[t] = 0 /\ ret'[t] = "ERR_DUP_NODE"

MakesNode(t, o) == /\ ~Exists(o, Node(t))
                   /\ \A k \in NodeKeys(o) :
                         Exists(o, k)' <=> Exists(o, k) \/ k = Node(t)
                   /\ step[t] # LinkStep(o) /\ step'[t] = LinkStep(o)

LinksNode(t, o) == /\ UNCHANGED nodes /\ step[t] = LinkStep(o) /\ step'[t] = 0
                   /\ ret'[t] \in {"SUCCESS", "ERR_UNKNOWN"}

(* There is no other query of a create.                                    *)
LEMMA CreateQueries ==
    ASSUME Known, LoopInv, NEW t \in Thread, NEW o \in Creates, Busy(t, o),
           stage[t] = "act", Query(t), UNCHANGED work
    PROVE  /\ Node(t) \in NodeKeys(o)
           /\ Before(t, o) \/ FindsTaken(t, o) \/ MakesNode(t, o) \/ LinksNode(t, o)
           /\ UNCHANGED <<user, access>>
           /\ o = "TasksCreate" => list' = list
           /\ o = "ListsCreate" => task' = task
<1> DEFINE c == call[t]
<1>1. TypeOK /\ job[t] \in Jobs /\ step[t] # 0
  BY QueryProgress DEF Known, WorkTypeOK
<1>2. c = LoopCall(job[t], pass[t])
  BY <1>1 DEF LoopInv, Looping, Busy, Loops
<1>3. KeyOf(c) = Node(t)
      /\ c.method = IF o = "TasksCreate" THEN "createTaskNode" ELSE "createTaskListNode"
  BY <1>1, <1>2, CreateCallFields DEF Busy, Node
<1>4. c \in Request
  BY <1>1, CallFields DEF TypeOK
<1>5. KeyTask(c) \in TaskKey /\ Key(c) \in ListKey
  BY <1>4 DEF Request, Key, KeyTask, ListKey, TaskKey
<1> USE DEF TypeOK, GraphTypeOK, CallTypeOK
<1>6. CASE o = "TasksCreate"
  <2>1. createTaskNode(t) /\ Node(t) = KeyTask(c)
    BY <1>3, <1>6, QueryOf DEF KeyOf
  <2>2. CASE At(t, "createTaskNode", 1) \/ At(t, "createTaskNode", 2)
    <3>1. (MustExist(t, user[c.user]) \/ MustExist(t, list[Key(c)])) /\ step[t] \in {1, 2}
      BY <2>1, <2>2 DEF createTaskNode, At
    <3>2. Before(t, o)
      BY <1>1, <1>6, <3>1 DEF MustExist, Return, Reply, Advance, Before, LinkStep
    <3> QED
      BY <1>5, <1>6, <2>1, <3>2 DEF NodeKeys, Before, graph
  <2>3. CASE At(t, "createTaskNode", 3)
    <3>1. CASE Taken(task[KeyTask(c)])
      BY <1>1, <1>5, <1>6, <2>1, <2>3, <3>1
         DEF createTaskNode, At, Taken, Duplicate, Return, Reply, FindsTaken, LinkStep,
             Exists, NodeKeys, graph
    <3>2. CASE ~Taken(task[KeyTask(c)])
      <4>1. /\ task' = [task EXCEPT ![KeyTask(c)] =
                           [value |-> SetField(c.info, "value", None)]]
            /\ Advance(t) /\ UNCHANGED <<user, list, edges>> /\ step[t] = 3
        BY <2>1, <2>3, <3>2 DEF createTaskNode, At
      <4>2. task'[KeyTask(c)] # None
        <5>1. SetField(c.info, "value", None) \in Value \union {None}
          BY <1>4, InfoAssumption DEF Request, Info, SetField
        <5>2. task'[KeyTask(c)] \in TaskNode
          BY <1>1, <1>5, <4>1, <5>1 DEF TaskNode
        <5> QED
          BY <5>2, NodesExist
      <4> QED
        BY <1>1, <1>5, <1>6, <2>1, <3>2, <4>1, <4>2
           DEF Taken, Advance, MakesNode, LinkStep, Exists, NodeKeys, edges
    <3> QED
      BY <3>1, <3>2
  <2>4. CASE At(t, "createTaskNode", 4)
    BY <1>1, <1>5, <1>6, <2>1, <2>4
       DEF createTaskNode, At, MergeContains, Finish, Return, Reply, LinksNode, LinkStep,
           NodeKeys, nodes
  <2> QED
    BY <2>1, <2>2, <2>3, <2>4 DEF createTaskNode
<1>7. CASE o = "ListsCreate"
  <2>1. createTaskListNode(t) /\ Node(t) = Key(c)
    BY <1>3, <1>7, QueryOf DEF KeyOf
  <2>2. CASE At(t, "createTaskListNode", 1)
    <3>1. MustExist(t, user[c.user]) /\ step[t] = 1
      BY <2>1, <2>2 DEF createTaskListNode, At
    <3>2. Before(t, o)
      BY <1>1, <1>7, <3>1 DEF MustExist, Return, Reply, Advance, Before, LinkStep
    <3> QED
      BY <1>5, <1>7, <2>1, <3>2 DEF NodeKeys, Before, graph
  <2>3. CASE At(t, "createTaskListNode", 2)
    <3>1. CASE Taken(list[Key(c)])
      BY <1>1, <1>5, <1>7, <2>1, <2>3, <3>1
         DEF createTaskListNode, At, Taken, Duplicate, Return, Reply, FindsTaken, LinkStep,
             Exists, NodeKeys, graph
    <3>2. CASE ~Taken(list[Key(c)])
      <4>1. /\ list' = [list EXCEPT ![Key(c)] =
                           [visibility |-> SetField(c.info, "visibility", "private"),
                            value |-> SetField(c.info, "value", None)]]
            /\ Advance(t) /\ UNCHANGED <<user, task, edges>> /\ step[t] = 2
        BY <2>1, <2>3, <3>2 DEF createTaskListNode, At
      <4>2. list'[Key(c)] # None
        <5>1. /\ SetField(c.info, "value", None) \in Value \union {None}
              /\ SetField(c.info, "visibility", "private") \in Visibility
          BY <1>4, InfoAssumption DEF Request, Info, SetField, Visibility
        <5>2. list'[Key(c)] \in ListNode
          BY <1>1, <1>5, <4>1, <5>1 DEF ListNode
        <5> QED
          BY <5>2, NodesExist
      <4> QED
        BY <1>1, <1>5, <1>7, <2>1, <3>2, <4>1, <4>2
           DEF Taken, Advance, MakesNode, LinkStep, Exists, NodeKeys, edges
    <3> QED
      BY <3>1, <3>2
  <2>4. CASE At(t, "createTaskListNode", 3)
    BY <1>1, <1>5, <1>7, <2>1, <2>4
       DEF createTaskListNode, At, MergeOwns, Finish, Return, Reply, LinksNode, LinkStep,
           NodeKeys, nodes
  <2> QED
    BY <2>1, <2>2, <2>3, <2>4 DEF createTaskListNode
<1> QED
  BY <1>6, <1>7 DEF Creates

-----------------------------------------------------------------------------
(* Why the rename loop ends.  Number the creates in the order they were    *)
(* taken up: id is the number of the create a thread works on, mk that of  *)
(* the create that made a node, or last made it, and 0 where there never   *)
(* was one.  No create has made two nodes, nor a node at all before its    *)
(* CREATE went through, and each name that a create found taken had been   *)
(* made: by another create, therefore, and each by one of its own.         *)
Closed(t) == /\ stage[t] = "act" /\ step[t] \in {0, LinkStep(job[t].op)}
             /\ ~(step[t] = 0 /\ ret[t] = "ERR_DUP_NODE")

Passed(t) == pass[t] + IF step[t] = 0 /\ ret[t] = "ERR_DUP_NODE" THEN 1 ELSE 0

Entry(t, o, id, mk) ==
    /\ id[t] \in 1..creates[o]
    /\ \A s \in Thread \ {t} : Busy(s, o) => id[s] # id[t]
    /\ \A k \in NodeKeys(o) : mk[k] = id[t] => Closed(t) /\ k = Node(t)
    /\ stage[t] = "act" =>
          \A i \in Nat : i < Passed(t) => /\ KeyAt(job[t], i) \in NodeKeys(o)
                                        /\ mk[KeyAt(job[t], i)] # 0

Ledger(o, id, mk) ==
    /\ id \in [Thread -> Nat] /\ mk \in [NodeKeys(o) -> Nat]
    /\ \A k \in NodeKeys(o) : mk[k] <= creates[o] /\ (Exists(o, k) => mk[k] # 0)
    /\ \A k, l \in NodeKeys(o) : mk[k] = mk[l] /\ mk[k] # 0 => k = l
    /\ \A t \in Thread : Busy(t, o) => Entry(t, o, id, mk)

LedgerInv == \A o \in Creates : \E id, mk : Ledger(o, id, mk)

(* The creates in progress, where a step takes up none and makes no node.  *)
Keeps(t, o) ==
    Busy(t, o)' =>
      /\ Busy(t, o) /\ job'[t] = job[t]
      /\ Closed(t) => Closed(t)' /\ pass'[t] = pass[t]
      /\ stage'[t] = "act" => \A i \in Nat : i < Passed(t)' =>
            \/ stage[t] = "act" /\ i < Passed(t)
            \/ KeyAt(job[t], i) \in NodeKeys(o) /\ Exists(o, KeyAt(job[t], i))

NoNew(o) == \A k \in NodeKeys(o) : Exists(o, k)' => Exists(o, k)

(* Nothing is entered into the ledger.                                     *)
LEMMA LedgerStays ==
    ASSUME NEW o \in Creates, NEW id, NEW mk, Ledger(o, id, mk),
           creates[o] \in Nat, creates'[o] = creates[o], NoNew(o),
           \A t \in Thread : Keeps(t, o)
    PROVE  Ledger(o, id, mk)'
<1>1. ASSUME NEW t \in Thread, Busy(t, o)' PROVE Entry(t, o, id, mk)'
  <2>1. /\ Entry(t, o, id, mk) /\ job'[t] = job[t]
        /\ Closed(t) => Closed(t)' /\ pass'[t] = pass[t]
    BY <1>1 DEF Keeps, Ledger
  <2>2. id[t] \in 1..creates'[o]
    BY <2>1 DEF Entry
  <2>3. \A s \in Thread \ {t} : Busy(s, o)' => id[s] # id[t]
    BY <2>1 DEF Entry, Keeps
  <2>4. \A k \in NodeKeys(o) : mk[k] = id[t] => Closed(t)' /\ k = Node(t)'
    BY <2>1 DEF Entry, Node
  <2>5. ASSUME stage'[t] = "act", NEW i \in Nat, i < Passed(t)'
        PROVE  KeyAt(job[t], i) \in NodeKeys(o) /\ mk[KeyAt(job[t], i)] # 0
    <3>1. CASE stage[t] = "act" /\ i < Passed(t)
      BY <2>1, <3>1 DEF Entry
    <3>2. CASE KeyAt(job[t], i) \in NodeKeys(o) /\ Exists(o, KeyAt(job[t], i))
      BY <3>2 DEF Ledger
    <3> QED
      BY <1>1, <2>5, <3>1, <3>2 DEF Keeps
  <2> QED
    BY <2>1, <2>2, <2>3, <2>4, <2>5 DEF Entry, NodeKeys
<1>2. \A k \in NodeKeys(o) : mk[k] <= creates'[o] /\ (Exists(o, k)' => mk[k] # 0)
  BY DEF Ledger, NoNew
<1> QED
  BY <1>1, <1>2 DEF Ledger, NodeKeys

(* A create is taken up: it has a new number.                              *)
LEMMA LedgerTakesUp ==
    ASSUME NEW o \in Creates, NEW id, NEW mk, Ledger(o, id, mk),
           creates[o] \in Nat, creates'[o] = creates[o] + 1, NoNew(o),
           NEW t \in Thread, ~Busy(t, o), Passed(t)' = 0,
           \A s \in Thread \ {t} : Keeps(s, o),
           NEW new, new = [id EXCEPT ![t] = creates[o] + 1]
    PROVE  Ledger(o, new, mk)'
<1>1. /\ new \in [Thread -> Nat] /\ new[t] = creates[o] + 1
      /\ \A s \in Thread \ {t} : new[s] = id[s]
  BY DEF Ledger
<1>2. \A k \in NodeKeys(o) : mk[k] \in Nat /\ mk[k] <= creates[o]
  BY DEF Ledger
<1>3. ASSUME NEW s \in Thread \ {t}, Busy(s, o)' PROVE Entry(s, o, new, mk)'
  <2>1. /\ Entry(s, o, id, mk) /\ job'[s] = job[s]
        /\ Closed(s) => Closed(s)' /\ pass'[s] = pass[s]
    BY <1>3 DEF Keeps, Ledger
  <2>2. new[s] \in 1..creates'[o] /\ new[s] # new[t]
    BY <1>1, <2>1 DEF Entry
  <2>3. \A r \in Thread \ {s} : Busy(r, o)' => new[r] # new[s]
    BY <1>1, <2>1, <2>2 DEF Entry, Keeps
  <2>4. \A k \in NodeKeys(o) : mk[k] = new[s] => Closed(s)' /\ k = Node(s)'
    BY <1>1, <2>1 DEF Entry, Node
  <2>5. ASSUME stage'[s] = "act", NEW i \in Nat, i < Passed(s)'
        PROVE  KeyAt(job[s], i) \in NodeKeys(o) /\ mk[KeyAt(job[s], i)] # 0
    <3>1. CASE stage[s] = "act" /\ i < Passed(s)
      BY <2>1, <3>1 DEF Entry
    <3>2. CASE KeyAt(job[s], i) \in NodeKeys(o) /\ Exists(o, KeyAt(job[s], i))
      BY <3>2 DEF Ledger
    <3> QED
      BY <1>3, <2>5, <3>1, <3>2 DEF Keeps
  <2> QED
    BY <2>1, <2>2, <2>3, <2>4, <2>5 DEF Entry, NodeKeys
<1>4. Entry(t, o, new, mk)'
  <2>1. new[t] \in 1..creates'[o]
    BY <1>1
  <2>2. \A s \in Thread \ {t} : Busy(s, o)' => new[s] # new[t]
    BY <1>1 DEF Keeps, Ledger, Entry
  <2>3. \A k \in NodeKeys(o) : mk[k] # new[t]
    BY <1>1, <1>2
  <2> QED
    BY <2>1, <2>2, <2>3 DEF Entry, NodeKeys
<1>5. \A k \in NodeKeys(o) : mk[k] <= creates'[o] /\ (Exists(o, k)' => mk[k] # 0)
  BY <1>2 DEF Ledger, NoNew
<1> QED
  BY <1>1, <1>3, <1>4, <1>5 DEF Ledger, NodeKeys

(* A create makes its node.                                                *)
LEMMA LedgerMakes ==
    ASSUME NEW o \in Creates, NEW id, NEW mk, Ledger(o, id, mk),
           creates[o] \in Nat, creates'[o] = creates[o],
           NEW t \in Thread, Busy(t, o), Node(t) \in NodeKeys(o), ~Closed(t),
           Closed(t)', UNCHANGED work, step'[t] # 0,
           \A k \in NodeKeys(o) : Exists(o, k)' => Exists(o, k) \/ k = Node(t),
           pass[t] \in Nat,
           \A s \in Thread \ {t} : Keeps(s, o),
           NEW n, n = Node(t), NEW new, new = [mk EXCEPT ![n] = id[t]]
    PROVE  Ledger(o, id, new)'
<1>0. /\ Entry(t, o, id, mk) /\ id[t] \in 1..creates[o] /\ Node(t)' = n
      /\ mk \in [NodeKeys(o) -> Nat] /\ id \in [Thread -> Nat]
      /\ job'[t] = job[t] /\ stage'[t] = stage[t] /\ pass'[t] = pass[t]
  BY DEF Ledger, Entry, Node, work
<1>1. /\ new \in [NodeKeys(o) -> Nat] /\ new[n] = id[t] /\ id[t] # 0
      /\ \A k \in NodeKeys(o) \ {n} : new[k] = mk[k]
  BY <1>0
<1>2. \A k \in NodeKeys(o) : mk[k] # id[t]
  BY <1>0 DEF Entry
<1>3. ASSUME NEW s \in Thread \ {t}, Busy(s, o)' PROVE Entry(s, o, id, new)'
  <2>1. /\ Entry(s, o, id, mk) /\ job'[s] = job[s]
        /\ Closed(s) => Closed(s)' /\ pass'[s] = pass[s]
    BY <1>3 DEF Keeps, Ledger
  <2>2. id[s] \in 1..creates'[o] /\ id[s] # id[t]
    BY <2>1 DEF Entry
  <2>3. \A r \in Thread \ {s} : Busy(r, o)' => id[r] # id[s]
    BY <1>0, <2>1 DEF Entry, Keeps
  <2>4. \A k \in NodeKeys(o) : new[k] = id[s] => Closed(s)' /\ k = Node(s)'
    BY <1>1, <2>1, <2>2 DEF Entry, Node
  <2>5. ASSUME stage'[s] = "act", NEW i \in Nat, i < Passed(s)'
        PROVE  KeyAt(job[s], i) \in NodeKeys(o) /\ new[KeyAt(job[s], i)] # 0
    <3>1. CASE stage[s] = "act" /\ i < Passed(s)
      BY <1>1, <2>1, <3>1 DEF Entry
    <3>2. CASE KeyAt(job[s], i) \in NodeKeys(o) /\ Exists(o, KeyAt(job[s], i))
      BY <1>1, <3>2 DEF Ledger
    <3> QED
      BY <1>3, <2>5, <3>1, <3>2 DEF Keeps
  <2> QED
    BY <2>1, <2>2, <2>3, <2>4, <2>5 DEF Entry, NodeKeys
<1>4. Entry(t, o, id, new)'
  <2>1. \A s \in Thread \ {t} : Busy(s, o)' => id[s] # id[t]
    BY <1>0 DEF Entry, Keeps
  <2>2. \A k \in NodeKeys(o) : new[k] = id[t] => Closed(t)' /\ k = Node(t)'
    BY <1>0, <1>1, <1>2
  <2>3. stage'[t] = "act" /\ Passed(t)' = pass[t]
    BY <1>0 DEF Closed, Passed
  <2>4. ASSUME NEW i \in Nat, i < pass[t]
        PROVE  KeyAt(job[t], i) \in NodeKeys(o) /\ new[KeyAt(job[t], i)] # 0
    <3>1. i < Passed(t)
      BY <2>4 DEF Passed
    <3> QED
      BY <1>0, <1>1, <2>3, <3>1 DEF Entry
  <2> QED
    BY <1>0, <2>1, <2>2, <2>3, <2>4 DEF Entry, NodeKeys
<1>5. \A k \in NodeKeys(o) : new[k] <= creates'[o] /\ (Exists(o, k)' => new[k] # 0)
  BY <1>0, <1>1 DEF Ledger
<1>6. \A k, l \in NodeKeys(o) : new[k] = new[l] /\ new[k] # 0 => k = l
  BY <1>1, <1>2 DEF Ledger
<1>7. \A s \in Thread : Busy(s, o)' => Entry(s, o, id, new)'
  BY <1>3, <1>4
<1> QED
  BY <1>0, <1>1, <1>5, <1>6, <1>7 DEF Ledger, NodeKeys

(* A thread that does not take the step.                                   *)
LEMMA StillKeeps ==
    ASSUME NEW t \in Thread, Still(t), NEW o \in Creates
    PROVE  Keeps(t, o)
BY DEF Still, Keeps, Busy, Closed, Passed

(* No name is taken before a query has found it so.                        *)
LEMMA BeginsUntaken ==
    ASSUME NEW t \in Thread, TypeOK, NEW c, Begin(t, c)
    PROVE  ~(step'[t] = 0 /\ ret'[t] = "ERR_DUP_NODE")
<1>1. ArgumentError(c) \in {"ERR_KEY", "ERR_RFIELD", None}
  BY DEF ArgumentError
<1> QED
  BY <1>1 DEF Begin, TypeOK, CallTypeOK

(* Handlers change no node.                                                *)
LEMMA HandlersKeepGraph ==
    ASSUME WorkTypeOK, NEW t \in Thread, Handle(t)
    PROVE  UNCHANGED graph
BY HandleStep DEF Asks, Starts, Begin, Ends, Refuses, vars, graph

(* The steps of the handlers, and the ledger.                              *)
LEMMA HandleKeeps ==
    ASSUME Known, LoopInv, NEW t \in Thread, Handle(t), NEW o \in Creates
    PROVE  /\ NoNew(o)
           /\ \/ Keeps(t, o) /\ creates'[o] = creates[o]
              \/ ~Busy(t, o) /\ Passed(t)' = 0 /\ creates'[o] = creates[o] + 1
<1>0. /\ TypeOK /\ WorkTypeOK /\ Looping(t) /\ NoJob.op \notin Loops /\ o \in Loops
      /\ creates \in [Creates -> Nat]
  BY DEF LoopInv, Known, NoJob, Loops, Creates
<1>1. NoNew(o)
  BY <1>0, HandlersKeepGraph DEF graph, NoNew, Exists
<1>2. CASE LoopTakesUp(t)
  <2>1. PICK j \in Jobs, stg \in {"gate", "act"}, c \in Requests : TakesUp(t, j, stg, c)
    BY <1>2 DEF LoopTakesUp
  <2>2. job[t] = NoJob /\ job'[t] = j /\ pass'[t] = 0
    BY <1>0, <2>1 DEF TakesUp, WorkTypeOK, Looping
  <2>3. creates'[o] = creates[o] + IF o = j.op THEN 1 ELSE 0
    BY <2>1 DEF TakesUp, Count
  <2>4. CASE o = j.op
    <3>1. Passed(t)' = 0
      BY <1>0, <2>1, <2>2, BeginsUntaken DEF TakesUp, Passed
    <3> QED
      BY <1>0, <1>1, <2>2, <2>3, <2>4, <3>1 DEF Busy
  <2>5. CASE o # j.op
    BY <1>0, <1>1, <2>2, <2>3, <2>5 DEF Busy, Keeps
  <2> QED
    BY <2>4, <2>5
<1>3. CASE LoopActs(t)
  <2>1. PICK n \in Nat : Acts(t, n, LoopCall(job[t], n)) /\ NextPass(t, n)
    BY <1>3 DEF LoopActs
  <2> DEFINE c == LoopCall(job[t], n)
  <2>2. /\ job' = job /\ creates' = creates /\ pass'[t] = n /\ stage'[t] = "act"
        /\ Begin(t, c)
    BY <1>0, <2>1 DEF Acts, Call, WorkTypeOK
  <2>3. ASSUME Busy(t, o) PROVE Keeps(t, o)
    <3>1. ~(step'[t] = 0 /\ ret'[t] = "ERR_DUP_NODE")
      BY <1>0, <2>2, BeginsUntaken
    <3>2. Passed(t)' = n
      BY <2>2, <3>1 DEF Passed
    <3>3. \/ stage[t] = "gate" /\ n = 0
          \/ /\ stage[t] = "act" /\ n = pass[t] + 1 /\ step[t] = 0
             /\ ret[t] = "ERR_DUP_NODE"
      BY <2>1, <2>3 DEF NextPass, FirstPass, Again, Busy, Acts
    <3>4. ~Closed(t) /\ (stage[t] = "act" => Passed(t) = n)
      BY <3>3 DEF Closed, Passed
    <3> QED
      BY <2>2, <2>3, <3>2, <3>3, <3>4 DEF Keeps
  <2>4. ASSUME ~Busy(t, o) PROVE Keeps(t, o)
    BY <2>2, <2>4 DEF Keeps, Busy
  <2> QED
    BY <1>1, <2>2, <2>3, <2>4
<1>4. CASE LoopTells(t)
  <2>1. job'[t] = NoJob /\ creates' = creates
    BY <1>0, <1>4 DEF LoopTells, Tells, Tell, WorkTypeOK
  <2> QED
    BY <1>0, <1>1, <2>1 DEF Keeps, Busy
<1>5. CASE Elsewhere(t)
  BY <1>0, <1>1, <1>5 DEF Elsewhere, Keeps, Busy
<1>6. CASE Refused(t)
  <2>1. Still(t) /\ creates' = creates
    BY <1>6 DEF Refused, vars, Still
  <2> QED
    BY <1>1, <2>1, StillKeeps
<1> QED
  BY <1>0, <1>2, <1>3, <1>4, <1>5, <1>6, LoopSteps

(* The steps of the queries, and the ledger.                               *)
LEMMA RunsKeep ==
    ASSUME Known, LoopInv, NEW t \in Thread, Runs(t), NEW o \in Creates
    PROVE  \/ NoNew(o) /\ Keeps(t, o)
           \/ /\ Busy(t, o) /\ stage[t] = "act" /\ Node(t) \in NodeKeys(o)
              /\ MakesNode(t, o)
<1>0. /\ UNCHANGED <<job, stage, pass, creates>> /\ step[t] # 0 /\ pass[t] \in Nat
      /\ Passed(t) = pass[t] /\ WorkTypeOK /\ TypeOK
  BY RunsOn DEF Passed, Known, WorkTypeOK
<1>1. CASE Busy(t, o) /\ stage[t] = "act" /\ Query(t)
  <2>0. UNCHANGED work
    BY DEF Runs
  <2>1. CASE Before(t, o)
    <3>1. ~Closed(t) /\ Passed(t)' = pass[t]
      BY <1>0, <1>1, <2>1 DEF Before, Closed, Passed, Busy
    <3> QED
      BY <1>0, <1>1, <2>1, <3>1 DEF Before, graph, NoNew, Exists, Keeps
  <2>2. CASE FindsTaken(t, o)
    <3>1. ~Closed(t) /\ Passed(t)' = pass[t] + 1
      BY <1>0, <1>1, <2>2 DEF FindsTaken, Closed, Passed, Busy
    <3>2. \A i \in Nat : i < Passed(t)' => i < Passed(t) \/ i = pass[t]
      BY <1>0, <3>1
    <3>3. Node(t) \in NodeKeys(o) /\ Exists(o, Node(t))
      BY <1>1, <2>0, <2>2, CreateQueries DEF FindsTaken
    <3>4. Keeps(t, o)
      BY <1>0, <1>1, <3>1, <3>2, <3>3 DEF Keeps, Node
    <3> QED
      BY <2>2, <3>4 DEF FindsTaken, graph, NoNew, Exists
  <2>3. CASE MakesNode(t, o)
    BY <1>1, <2>0, <2>3, CreateQueries
  <2>4. CASE LinksNode(t, o)
    <3>1. Closed(t)' /\ Passed(t)' = pass[t]
      BY <1>0, <1>1, <2>4 DEF LinksNode, Closed, Passed
    <3>2. NoNew(o)
      BY <2>4 DEF LinksNode, nodes, NoNew, Exists
    <3> QED
      BY <1>0, <1>1, <3>1, <3>2 DEF Keeps
  <2> QED
    BY <1>1, <2>0, <2>1, <2>2, <2>3, <2>4, CreateQueries
<1>2. CASE ~(Busy(t, o) /\ stage[t] = "act" /\ Query(t))
  <2>1. NoNew(o)
    BY <1>2, OthersMakeNone DEF NoNew
  <2>2. ASSUME Busy(t, o), stage[t] = "act" PROVE Closed(t)' /\ Passed(t)' = pass[t]
    <3>1. step'[t] = 0 /\ ret'[t] = "ERR_UNKNOWN"
      BY <1>0, <1>2, <2>2, FailsApart DEF Runs
    <3> QED
      BY <1>0, <2>2, <3>1 DEF Closed, Passed
  <2> QED
    BY <1>0, <2>1, <2>2 DEF Keeps, Closed, Busy
<1> QED
  BY <1>1, <1>2

(* So there is a ledger in every state.                                    *)
LEMMA LedgerNext == Known /\ LoopInv /\ LedgerInv /\ [AuditNext]_auditVars => LedgerInv'
<1> SUFFICES ASSUME Known, LoopInv, LedgerInv, [AuditNext]_auditVars,
                    NEW o \in Creates
             PROVE  \E id, mk : Ledger(o, id, mk)'
  BY DEF LedgerInv
<1>0. PICK id, mk : Ledger(o, id, mk)
  BY DEF LedgerInv
<1>1. creates[o] \in Nat /\ \A t \in Thread : pass[t] \in Nat
  BY DEF LoopInv, Known, WorkTypeOK
<1>2. CASE UNCHANGED auditVars
  <2>1. NoNew(o) /\ creates' = creates /\ \A t \in Thread : Still(t)
    BY <1>2 DEF auditVars, workerVars, work, vars, NoNew, Exists, Still
  <2> QED
    BY <1>0, <1>1, <2>1, StillKeeps, LedgerStays
<1>3. CASE Die
  <2>1. NoNew(o) /\ creates' = creates
    BY <1>3 DEF Die, Crash, graph, NoNew, Exists
  <2>2. \A t \in Thread : ~Busy(t, o)'
    BY <1>3 DEF Die, Busy, NoJob, Creates
  <2> QED
    BY <1>0, <1>1, <2>1, <2>2, LedgerStays DEF Keeps
<1>4. ASSUME NEW t \in Thread, Alone(t), Handle(t) \/ Runs(t)
      PROVE  \E x, y : Ledger(o, x, y)'
  <2>1. \A s \in Thread \ {t} : Keeps(s, o)
    BY <1>4, StillKeeps DEF Alone
  <2>2. CASE NoNew(o) /\ Keeps(t, o) /\ creates'[o] = creates[o]
    BY <1>0, <1>1, <2>1, <2>2, LedgerStays
  <2>3. CASE NoNew(o) /\ ~Busy(t, o) /\ Passed(t)' = 0 /\ creates'[o] = creates[o] + 1
    BY <1>0, <1>1, <2>1, <2>3, LedgerTakesUp
  <2>4. CASE /\ Runs(t) /\ Busy(t, o) /\ stage[t] = "act" /\ Node(t) \in NodeKeys(o)
             /\ MakesNode(t, o)
    <3>1. UNCHANGED work /\ creates' = creates /\ step[t] # 0
      BY <2>4, RunsOn DEF Runs
    <3>2. ~Closed(t) /\ Closed(t)' /\ step'[t] # 0
      BY <2>4, <3>1 DEF MakesNode, Closed, work, Busy, LinkStep
    <3>3. \A k \in NodeKeys(o) : Exists(o, k)' => Exists(o, k) \/ k = Node(t)
      BY <2>4 DEF MakesNode
    <3> QED
      BY <1>0, <1>1, <2>1, <2>4, <3>1, <3>2, <3>3, LedgerMakes
  <2>5. CASE Handle(t)
    BY <2>2, <2>3, <2>5, HandleKeeps
  <2>6. CASE Runs(t)
    BY <2>2, <2>4, <2>6, RunsKeep, RunsOn
  <2> QED
    BY <1>4, <2>5, <2>6
<1> QED
  BY <1>2, <1>3, <1>4, Turns

(* From the ledger: a create in pass n has met n nodes of other creates.   *)
LEMMA LedgerBounds == Known /\ LoopInv /\ LedgerInv => PassesBounded
<1> SUFFICES ASSUME Known, LoopInv, LedgerInv, NEW t \in Thread,
                    stage[t] = "act", job[t].op \in Creates
             PROVE  pass[t] < creates[job[t].op]
  BY DEF PassesBounded
<1> DEFINE o == job[t].op
           n == pass[t]
           j == job[t]
<1>1. PICK id, mk : Ledger(o, id, mk)
  BY DEF LedgerInv
<1>2. /\ j \in Jobs /\ n \in Nat /\ creates[o] \in Nat
      /\ Entry(t, o, id, mk)
  BY <1>1 DEF Known, WorkTypeOK, LoopInv, Ledger, Busy
<1> DEFINE f == [i \in 0..(n - 1) |-> mk[KeyAt(j, i)]]
           T == (1..creates[o]) \ {id[t]}
<1>3. ASSUME NEW i \in 0..(n - 1)
      PROVE  /\ i \in Nat /\ KeyAt(j, i) \in NodeKeys(o)
             /\ mk[KeyAt(j, i)] # 0 /\ mk[KeyAt(j, i)] \in T
  <2>1. i \in Nat /\ i < n /\ i < Passed(t)
    BY <1>2 DEF Passed
  <2>2. KeyAt(j, i) \in NodeKeys(o) /\ mk[KeyAt(j, i)] # 0
    BY <1>2, <2>1 DEF Entry
  <2>3. mk[KeyAt(j, i)] \in Nat /\ mk[KeyAt(j, i)] <= creates[o]
    BY <1>1, <2>2 DEF Ledger
  <2>4. KeyAt(j, i) # Node(t)
    BY <1>2, <2>1, KeyAtInjective DEF Node
  <2>5. mk[KeyAt(j, i)] # id[t]
    BY <1>2, <2>2, <2>4 DEF Entry
  <2> QED
    BY <1>2, <2>1, <2>2, <2>3, <2>5
<1>4. f \in Injection(0..(n - 1), T)
  <2>1. f \in [0..(n - 1) -> T]
    BY <1>3
  <2>2. ASSUME NEW a \in 0..(n - 1), NEW b \in 0..(n - 1), f[a] = f[b] PROVE a = b
    <3>1. KeyAt(j, a) = KeyAt(j, b)
      BY <1>1, <1>3, <2>2 DEF Ledger
    <3> QED
      BY <1>2, <1>3, <3>1, KeyAtInjective
  <2> QED
    BY <2>1, <2>2 DEF Injection, IsInjective
<1>5. id[t] \in 1..creates[o]
  BY <1>2 DEF Entry
<1> HIDE DEF f, o, n
<1>6. IsFiniteSet(1..creates[o]) /\ Cardinality(1..creates[o]) = creates[o]
  BY <1>2, FS_Interval
<1>7. IsFiniteSet(T) /\ Cardinality(T) = creates[o] - 1
  BY <1>5, <1>6, FS_RemoveElement
<1>8. IsFiniteSet(0..(n - 1)) /\ Cardinality(0..(n - 1)) = n
  <2>1. n - 1 \in Int /\ (0 > n - 1 <=> n = 0) /\ (n - 1) - 0 + 1 = n
    BY <1>2
  <2> QED
    BY <2>1, FS_Interval
<1>9. n <= creates[o] - 1
  BY <1>4, <1>7, <1>8, FS_Injection
<1> QED
  BY <1>2, <1>9 DEF n, o

(* The rename loop of a create does not run for ever: whoever creates,     *)
(* deletes or crashes meanwhile, it has always run less often than creates *)
(* have been started.                                                      *)
THEOREM LoopsEnd == AuditSpec => []PassesBounded
<1>1. AuditInit => LedgerInv
  <2> SUFFICES ASSUME AuditInit, NEW o \in Creates PROVE \E id, mk : Ledger(o, id, mk)
    BY DEF LedgerInv
  <2>1. Ledger(o, [t \in Thread |-> 0], [k \in NodeKeys(o) |-> 0])
    BY DEF AuditInit, WorkersInit, Init, Ledger, Busy, NoJob, Creates, NodeKeys, Exists
  <2> QED
    BY <2>1
<1> QED
  BY <1>1, LedgerNext, LedgerBounds, LoopsKnown, AllKnown, PTL DEF AuditSpec

-----------------------------------------------------------------------------
(* What a create is told.  Each smaller suffix has been seen taken, and a  *)
(* create has made nothing but the node of its present pass, once its      *)
(* CREATE went through.                                                    *)
Name(j)   == IF j.op = "TasksCreate" THEN j.task ELSE j.list
MadeBy(t) == {f \in seen[t] : f[1] = "made"}

Naming(t) ==
    /\ pass[t] <= MaxCreates[job[t].op]
    /\ \A i \in Nat : i < Passed(t) => <<"taken", Rename(Name(job[t]), i)>> \in seen[t]
    /\ \/ MadeBy(t) = {}
       \/ /\ Closed(t) /\ MadeBy(t) = {<<"made", Rename(Name(job[t]), pass[t])>>}
          /\ step[t] = 0 => ret[t] \in {"SUCCESS", "ERR_UNKNOWN"}
    /\ Closed(t) /\ (step[t] # 0 \/ ret[t] = "SUCCESS") => MadeBy(t) # {}

Remembers(t) ==
    /\ job[t] = NoJob => seen[t] = {}
    /\ job[t].op \in Creates =>
          /\ stage[t] = "gate" => MadeBy(t) = {}
          /\ stage[t] = "act"  => Naming(t)

NameInv == \A t \in Thread : Remembers(t)

(* What a request sees is what it has seen before, how things stand, and   *)
(* what it makes itself.                                                   *)
LEMMA SeenStep ==
    ASSUME NEW t \in Thread, Observe
    PROVE  /\ job'[t] = NoJob => seen'[t] = {}
           /\ job'[t] # NoJob =>
                 /\ seen'[t] = seen[t] \union Facts(job[t])' \union
                                  IF Moves(t) THEN Made ELSE {}
                 /\ MadeBy(t)' = MadeBy(t) \union
                        IF Moves(t) THEN {f \in Made : f[1] = "made"} ELSE {}
<1>1. \A f \in Facts(job[t])' : f[1] # "made"
  <2>1. \A f \in Grounds(job[t])' : f[1] # "made"
    <3>1. \A f \in Grounds(job[t])' : \E v : f = <<"open", v>> \/ f = <<"may", v>>
      BY DEF Grounds
    <3> QED
      BY <3>1
  <2>2. \A f \in TakenNames(job[t])' : f[1] # "made"
    <3>1. \A f \in TakenNames(job[t])' : \E k : f = <<"taken", k>>
      BY DEF TakenNames
    <3> QED
      BY <3>1
  <2>3. \A f \in Grants(job[t])' : f[1] # "made"
    BY DEF Grants
  <2> QED
    BY <2>1, <2>2, <2>3 DEF Facts
<1>2. job'[t] # NoJob => seen'[t] = seen[t] \union Facts(job[t])' \union
                                     IF Moves(t) THEN Made ELSE {}
  BY DEF Observe
<1> QED
  BY <1>1, <1>2 DEF Observe, MadeBy

(* A thread that does not take the step.                                   *)
LEMMA StillRemembers ==
    ASSUME NEW t \in Thread, Observe, Still(t), Remembers(t)
    PROVE  Remembers(t)'
<1>1. CASE job[t] = NoJob
  BY <1>1, SeenStep DEF Still, Remembers, NoJob, Creates
<1>2. CASE job[t] # NoJob
  <2>1. MadeBy(t)' = MadeBy(t) /\ seen[t] \subseteq seen'[t] /\ ~Moves(t)
    BY <1>2, SeenStep DEF Still, Moves
  <2>2. /\ Passed(t)' = Passed(t) /\ (Closed(t)' <=> Closed(t))
    BY DEF Still, Passed, Closed
  <2>3. ASSUME job[t].op \in Creates, stage[t] = "act" PROVE Naming(t)'
    BY <2>1, <2>2, <2>3 DEF Remembers, Naming, Still
  <2> QED
    BY <1>2, <2>1, <2>3 DEF Remembers, Still
<1> QED
  BY <1>1, <1>2

(* The next pass begins with nothing made.                                 *)
LEMMA PassBegins ==
    ASSUME NEW t \in Thread, step'[t] = 1, pass'[t] \in Nat
    PROVE  Passed(t)' = pass'[t] /\ ~Closed(t)'
BY DEF Passed, Closed, LinkStep

(* The steps of a handler.                                                 *)
LEMMA HandleRemembers ==
    ASSUME Known, LoopInv, NEW t \in Thread, Handle(t), Observe, Remembers(t)
    PROVE  Remembers(t)'
<1>0. /\ TypeOK /\ WorkTypeOK /\ Looping(t) /\ NoJob.op \notin Creates
      /\ ~Moves(t) /\ Creates \subseteq Loops /\ Sound(t)
  BY HandlersKeepGraph DEF LoopInv, Known, NoJob, Loops, Creates, Moves, AuditInv
<1>1. CASE LoopTakesUp(t)
  <2>1. PICK j \in Jobs, stg \in {"gate", "act"}, c \in Requests :
           /\ TakesUp(t, j, stg, c) /\ j.op \in Loops /\ Fault(j) = None
           /\ stg = "act" => j.op \in Creates /\ c = LoopCall(j, 0)
    BY <1>1 DEF LoopTakesUp
  <2>2. /\ job[t] = NoJob /\ job'[t] = j /\ stage'[t] = stg /\ pass'[t] = 0
        /\ j # NoJob
    BY <1>0, <2>1 DEF TakesUp, WorkTypeOK, Looping
  <2>3. MadeBy(t)' = {}
    BY <1>0, <2>2, SeenStep DEF Remembers, MadeBy
  <2>4. ASSUME j.op \in Creates, stg = "act" PROVE Naming(t)'
    <3>1. step'[t] = 1
      BY <1>0, <2>1, <2>4, LoopBegins DEF TakesUp
    <3>2. MaxCreates[j.op] \in Nat
      BY <2>4, CreateAssumption
    <3> QED
      BY <2>2, <2>3, <3>1, <3>2, PassBegins DEF Naming
  <2> QED
    BY <2>2, <2>3, <2>4 DEF Remembers
<1>2. CASE LoopActs(t)
  <2>1. PICK n \in Nat : Acts(t, n, LoopCall(job[t], n)) /\ NextPass(t, n)
    BY <1>2 DEF LoopActs
  <2>2. /\ job' = job /\ pass'[t] = n /\ stage'[t] = "act" /\ step[t] = 0
        /\ Begin(t, LoopCall(job[t], n)) /\ job[t] # NoJob /\ job[t] \in Jobs
    BY <1>0, <2>1 DEF Acts, Call, WorkTypeOK
  <2>3. ASSUME job[t].op \in Creates PROVE Naming(t)'
    <3>1. step'[t] = 1
      BY <1>0, <2>2, <2>3, LoopBegins DEF Sound
    <3>2. \/ stage[t] = "gate" /\ n = 0
          \/ /\ stage[t] = "act" /\ n = pass[t] + 1 /\ n < MaxCreates[job[t].op]
             /\ ret[t] = "ERR_DUP_NODE"
      BY <2>1, <2>3 DEF NextPass, FirstPass, Again
    <3>3. n <= MaxCreates[job[t].op] /\ MadeBy(t) = {}
      <4>1. MaxCreates[job[t].op] \in Nat
        BY <2>3, CreateAssumption
      <4>2. stage[t] = "act" => ~Closed(t)
        BY <2>2, <3>2 DEF Closed
      <4> QED
        BY <2>2, <2>3, <3>2, <4>1, <4>2 DEF Remembers, Naming
    <3>4. \A i \in Nat : i < n => <<"taken", Rename(Name(job[t]), i)>> \in seen[t]
      <4>1. stage[t] = "act" => Passed(t) = n
        BY <2>2, <3>2 DEF Passed
      <4> QED
        BY <2>3, <3>2, <4>1 DEF Remembers, Naming
    <3>5. MadeBy(t)' = {} /\ seen[t] \subseteq seen'[t]
      BY <1>0, <2>2, <3>3, SeenStep
    <3> QED
      BY <2>2, <3>1, <3>3, <3>4, <3>5, PassBegins DEF Naming
  <2> QED
    BY <2>2, <2>3 DEF Remembers
<1>3. CASE LoopTells(t)
  <2>1. job'[t] = NoJob
    BY <1>0, <1>3 DEF LoopTells, Tells, Tell, WorkTypeOK
  <2> QED
    BY <1>0, <2>1, SeenStep DEF Remembers
<1>4. CASE Elsewhere(t)
  BY <1>0, <1>4, SeenStep DEF Remembers, Elsewhere
<1>5. CASE Refused(t)
  BY <1>5, StillRemembers DEF Refused, Still, vars
<1> QED
  BY <1>0, <1>1, <1>2, <1>3, <1>4, <1>5, LoopSteps

(* A query that makes no node.                                             *)
LEMMA NothingMade ==
    ASSUME Known, NEW t \in Thread, Runs(t),
           ~(job[t].op \in Creates /\ stage[t] = "act" /\ Query(t))
    PROVE  {f \in Made : f[1] = "made"} = {}
<1>1. \A o \in Creates : \A k \in NodeKeys(o) : Exists(o, k)' => Exists(o, k)
  BY OthersMakeNone DEF Busy
<1>2. /\ \A k \in TaskKey : task'[k] # None => task[k] # None
      /\ \A l \in ListKey : list'[l] # None => list[l] # None
  BY <1>1 DEF Creates, NodeKeys, Exists
<1> QED
  BY <1>2 DEF Made

(* What the queries of a create make.                                      *)
LEMMA NodeMade ==
    ASSUME Known, LoopInv, NEW t \in Thread, NEW o \in Creates, Busy(t, o),
           stage[t] = "act", Query(t), UNCHANGED work
    PROVE  /\ MakesNode(t, o) =>
                 Moves(t) /\ Made = {<<"made", Rename(Name(job[t]), pass[t])>>}
           /\ LinksNode(t, o) => Made = {}
<1>0. PICK k, r : k = Node(t) /\ r = Rename(Name(job[t]), pass[t])
  OBVIOUS
<1>1. /\ k \in NodeKeys(o) /\ access' = access
      /\ o = "TasksCreate" => list' = list
      /\ o = "ListsCreate" => task' = task
  BY <1>0, CreateQueries
<1>2. /\ o = "TasksCreate" => k[3] = r
      /\ o = "ListsCreate" => k[2] = r
  BY <1>0 DEF Node, KeyAt, Name, Busy
<1>3. ASSUME MakesNode(t, o) PROVE Moves(t) /\ Made = {<<"made", r>>}
  <2>1. /\ ~Exists(o, k)
        /\ \A x \in NodeKeys(o) : Exists(o, x)' <=> Exists(o, x) \/ x = k
    BY <1>0, <1>3 DEF MakesNode
  <2>2. step'[t] # step[t] /\ graph' # graph
    <3>1. step'[t] # step[t]
      BY <1>3 DEF MakesNode
    <3>2. graph' = graph => (Exists(o, k)' <=> Exists(o, k))
      BY DEF graph, Exists
    <3> QED
      BY <1>1, <2>1, <3>1, <3>2
  <2>3. CASE o = "TasksCreate"
    <3>1. {x \in TaskKey : task[x] = None /\ task'[x] # None} = {k}
      BY <1>1, <2>1, <2>3 DEF Exists, NodeKeys
    <3>2. Made = {<<"made", x[3]>> : x \in {k}}
      BY <1>1, <2>3, <3>1 DEF Made
    <3> QED
      BY <1>2, <2>2, <2>3, <3>2 DEF Moves
  <2>4. CASE o = "ListsCreate"
    <3>1. {x \in ListKey : list[x] = None /\ list'[x] # None} = {k}
      BY <1>1, <2>1, <2>4 DEF Exists, NodeKeys
    <3>2. Made = {<<"made", x[2]>> : x \in {k}}
      BY <1>1, <2>4, <3>1 DEF Made
    <3> QED
      BY <1>2, <2>2, <2>4, <3>2 DEF Moves
  <2> QED
    BY <2>3, <2>4 DEF Creates
<1>4. ASSUME LinksNode(t, o) PROVE Made = {}
  BY <1>1, <1>4 DEF LinksNode, nodes, Made
<1> QED
  BY <1>0, <1>3, <1>4

(* The steps of the queries.                                               *)
LEMMA RunsRemember ==
    ASSUME Known, LoopInv, NEW t \in Thread, Runs(t), Observe, Remembers(t)
    PROVE  Remembers(t)'
<1> DEFINE o == job[t].op
           made == {f \in Made : f[1] = "made"}
<1>0. /\ UNCHANGED <<job, stage, pass, creates>> /\ step[t] # 0 /\ pass[t] \in Nat
      /\ Passed(t) = pass[t] /\ WorkTypeOK /\ TypeOK /\ UNCHANGED work
      /\ job[t] # NoJob
  BY RunsOn DEF Passed, Known, WorkTypeOK, Runs
<1>1. /\ seen'[t] = seen[t] \union Facts(job[t])' \union IF Moves(t) THEN Made ELSE {}
      /\ MadeBy(t)' = MadeBy(t) \union IF Moves(t) THEN made ELSE {}
  BY <1>0, SeenStep
<1>2. ASSUME o \in Creates, stage[t] = "gate" PROVE MadeBy(t)' = {}
  BY <1>1, <1>2, NothingMade DEF Remembers
<1>3. ASSUME o \in Creates, stage[t] = "act" PROVE Naming(t)'
  <2>0. /\ Naming(t) /\ job'[t] = job[t] /\ pass'[t] = pass[t] /\ stage'[t] = "act"
        /\ seen[t] \subseteq seen'[t]
    BY <1>0, <1>1, <1>3 DEF Remembers
  <2>1. CASE QueryFails(t)
    <3>1. step'[t] = 0 /\ ret'[t] = "ERR_UNKNOWN" /\ MadeBy(t)' = MadeBy(t)
      BY <1>0, <1>1, <2>1, FailsApart DEF Moves, QueryFails
    <3>2. Passed(t)' = pass[t] /\ Closed(t)'
      BY <1>0, <2>0, <3>1 DEF Passed, Closed
    <3> QED
      BY <1>0, <2>0, <3>1, <3>2 DEF Naming
  <2>2. CASE Query(t)
    <3>0. Busy(t, o)
      BY DEF Busy
    <3>1. CASE Before(t, o)
      <4>1. ~Closed(t) /\ MadeBy(t) = {} /\ MadeBy(t)' = {}
        BY <1>0, <1>1, <2>0, <3>1 DEF Before, Closed, Naming, Moves
      <4>2. Passed(t)' = pass[t] /\ ~(Closed(t)' /\ (step'[t] # 0 \/ ret'[t] = "SUCCESS"))
        BY <1>0, <2>0, <3>1 DEF Before, Passed, Closed
      <4> QED
        BY <1>0, <2>0, <4>1, <4>2 DEF Naming
    <3>2. CASE FindsTaken(t, o)
      <4>1. ~Closed(t) /\ MadeBy(t) = {} /\ MadeBy(t)' = {}
        BY <1>0, <1>1, <2>0, <3>2 DEF FindsTaken, Closed, Naming, Moves
      <4>2. Passed(t)' = pass[t] + 1 /\ ~Closed(t)'
        BY <2>0, <3>2 DEF FindsTaken, Passed, Closed
      <4>3. <<"taken", Rename(Name(job[t]), pass[t])>> \in seen'[t]
        <5>1. Exists(o, Node(t))' /\ Node(t) \in NodeKeys(o) /\ Node(t)' = Node(t)
          BY <1>0, <1>3, <2>2, <3>0, <3>2, CreateQueries
             DEF FindsTaken, graph, Exists, Node
        <5>2. <<"taken", Rename(Name(job[t]), pass[t])>> \in TakenNames(job[t])'
          BY <1>0, <1>3, <5>1
             DEF Node, KeyAt, Name, TakenNames, Exists, NodeKeys, Creates, Owner,
                 TaskKey, ListKey
        <5>3. TakenNames(job[t])' \subseteq Facts(job[t])'
          BY <1>0 DEF Facts
        <5> QED
          BY <1>1, <5>2, <5>3
      <4>4. \A i \in Nat : i < pass[t] + 1 => i < pass[t] \/ i = pass[t]
        BY <1>0
      <4> QED
        BY <1>0, <2>0, <4>1, <4>2, <4>3, <4>4 DEF Naming
    <3>3. CASE MakesNode(t, o)
      <4>1. ~Closed(t) /\ MadeBy(t) = {}
        BY <1>0, <2>0, <3>3 DEF MakesNode, Closed, Naming
      <4>2. Moves(t) /\ Made = {<<"made", Rename(Name(job[t]), pass[t])>>}
        BY <1>0, <1>3, <2>2, <3>0, <3>3, NodeMade
      <4>3. MadeBy(t)' = {<<"made", Rename(Name(job[t]), pass[t])>>}
        BY <1>1, <4>1, <4>2
      <4>4. Passed(t)' = pass[t] /\ Closed(t)' /\ step'[t] # 0
        BY <1>0, <1>3, <2>0, <3>3 DEF MakesNode, Passed, Closed, LinkStep
      <4> QED
        BY <1>0, <2>0, <4>3, <4>4 DEF Naming
    <3>4. CASE LinksNode(t, o)
      <4>1. Closed(t) /\ step[t] # 0
        BY <1>0, <1>3, <3>4 DEF LinksNode, Closed
      <4>2. MadeBy(t)' = MadeBy(t)
        BY <1>0, <1>1, <1>3, <2>2, <3>0, <3>4, NodeMade
      <4>3. /\ Passed(t)' = pass[t] /\ Closed(t)' /\ step'[t] = 0
            /\ ret'[t] \in {"SUCCESS", "ERR_UNKNOWN"}
        BY <1>0, <2>0, <3>4 DEF LinksNode, Passed, Closed
      <4> QED
        BY <1>0, <2>0, <4>1, <4>2, <4>3 DEF Naming
    <3> QED
      BY <1>0, <1>3, <2>2, <3>0, <3>1, <3>2, <3>3, <3>4, CreateQueries
  <2> QED
    BY <2>1, <2>2 DEF Runs
<1> QED
  BY <1>0, <1>2, <1>3 DEF Remembers

(* So a create knows what it did in every state.                           *)
LEMMA NameNext == Known /\ LoopInv /\ NameInv /\ [AuditNext]_auditVars => NameInv'
<1> SUFFICES ASSUME Known, LoopInv, NameInv, [AuditNext]_auditVars PROVE NameInv'
  OBVIOUS
<1>1. CASE UNCHANGED auditVars
  BY <1>1 DEF auditVars, workerVars, work, vars, NameInv, Remembers, Naming, MadeBy,
              Passed, Closed
<1>2. CASE Die /\ Observe
  BY <1>2, SeenStep DEF Die, NameInv, Remembers, NoJob, Creates
<1>3. ASSUME NEW t \in Thread, Observe, Alone(t), Handle(t) \/ Runs(t) PROVE NameInv'
  BY <1>3, StillRemembers, HandleRemembers, RunsRemember DEF NameInv, Alone
<1> QED
  BY <1>1, <1>2, <1>3, Turns

(* A request that is answered is one whose handler answers it.             *)
LEMMA AnswerTells ==
    ASSUME Known, LoopInv, [AuditNext]_auditVars, NEW t \in Thread,
           NEW op \in Loops, Answers(t, op)
    PROVE  /\ step[t] = 0 /\ stage[t] \in {"gate", "act"} /\ job[t].op = op
           /\ \E code, note : answer'[t] = <<code, note>> /\ Told(t, code, note)
<1>1. /\ job[t] # NoJob /\ job[t].op = op /\ job'[t] = NoJob
      /\ answer'[t][1] # None /\ WorkTypeOK /\ job[t] \in Jobs /\ stage[t] # "idle"
      /\ Looping(t) /\ NoJob \notin Jobs
  BY JobsAssumption
     DEF Answers, Known, WorkTypeOK, LoopInv, NoJob, Job, Op, TaskOps, TaskWrites,
         ListOps, ShareOps
<1>2. ~UNCHANGED auditVars
  BY <1>1 DEF auditVars, workerVars, work
<1>3. ~Die
  BY <1>1 DEF Die
<1>4. Handle(t)
  <2>1. ASSUME NEW s \in Thread, Alone(s), Handle(s) \/ Runs(s) PROVE s = t /\ Handle(s)
    BY <1>1, <2>1 DEF Alone, Still, Runs, work
  <2> QED
    BY <1>2, <1>3, <2>1, Turns
<1>5. LoopTells(t)
  <2>1. ~LoopTakesUp(t)
    BY <1>1 DEF LoopTakesUp, TakesUp
  <2>2. ~LoopActs(t)
    BY <1>1 DEF LoopActs, Acts, Call
  <2>3. ~Elsewhere(t) /\ ~Refused(t)
    BY <1>1 DEF Elsewhere, Refused
  <2> QED
    BY <1>1, <1>4, <2>1, <2>2, <2>3, LoopSteps DEF Known
<1> QED
  BY <1>1, <1>5 DEF LoopTells, Tells, Tell, WorkTypeOK, Looping

(* The name a create returns is the node it made, every smaller suffix was *)
(* taken, and a create that reports an error of its own made nothing,      *)
(* whatever the other requests, failures and crashes.                      *)
THEOREM CreatesTellTheTruth == AuditSpec => CreatedAsTold
<1> DEFINE Truth(t, op) ==
      LET made == {f \in seen[t] : f[1] = "made"}
          name == IF op = "TasksCreate" THEN job[t].task ELSE job[t].list IN
      CASE answer'[t][1] = "SUCCESS" ->
             /\ made = {<<"made", answer'[t][2]>>}
             /\ \E n \in 0..MaxCreates[op] :
                   /\ answer'[t][2] = Rename(name, n)
                   /\ \A i \in 0..(n - 1) : <<"taken", Rename(name, i)>> \in seen[t]
        [] answer'[t][1] = "ERR_UNKNOWN" -> TRUE
        [] OTHER -> made = {}
<1>1. AuditInit => NameInv
  BY DEF AuditInit, WorkersInit, NameInv, Remembers, NoJob, Creates
<1>2. Known /\ LoopInv /\ NameInv /\ [AuditNext]_auditVars =>
         \A t \in Thread : \A op \in Creates : Answers(t, op) => Truth(t, op)
  <2> SUFFICES ASSUME Known, LoopInv, NameInv, [AuditNext]_auditVars,
                      NEW t \in Thread, NEW op \in Creates, Answers(t, op)
               PROVE  Truth(t, op)
    OBVIOUS
  <2>1. /\ step[t] = 0 /\ stage[t] \in {"gate", "act"} /\ job[t].op = op
        /\ \E code, note : answer'[t] = <<code, note>> /\ Told(t, code, note)
    BY AnswerTells DEF Loops
  <2>2. PICK code, note : answer'[t] = <<code, note>> /\ CreateTold(t, code, note)
    BY <2>1 DEF Told
  <2>3. /\ Remembers(t) /\ pass[t] \in Nat /\ MaxCreates[op] \in Nat
        /\ Name(job[t]) = IF op = "TasksCreate" THEN job[t].task ELSE job[t].list
    BY <2>1, CreateAssumption DEF NameInv, Known, WorkTypeOK, Name
  <2>4. CASE stage[t] = "gate"
    <3>1. code # "SUCCESS" /\ MadeBy(t) = {}
      BY <2>1, <2>2, <2>3, <2>4 DEF CreateTold, Remembers
    <3> QED
      BY <2>2, <3>1 DEF MadeBy
  <2>5. CASE stage[t] = "act"
    <3>1. /\ ret[t] # "ERR_DUP_NODE" /\ code = ret[t] /\ Closed(t) /\ Naming(t)
          /\ code = "SUCCESS" => note = Rename(Name(job[t]), pass[t])
      BY <2>1, <2>2, <2>3, <2>5 DEF CreateTold, Closed, Remembers, Name
    <3>2. CASE code = "SUCCESS"
      <4>1. MadeBy(t) = {<<"made", Rename(Name(job[t]), pass[t])>>}
        BY <3>1, <3>2 DEF Naming
      <4>2. pass[t] \in 0..MaxCreates[op]
        BY <2>1, <2>3, <3>1 DEF Naming
      <4>3. \A i \in 0..(pass[t] - 1) : i \in Nat /\ i < Passed(t)
        BY <2>3 DEF Passed
      <4>4. \A i \in 0..(pass[t] - 1) :
               <<"taken", Rename(Name(job[t]), i)>> \in seen[t]
        BY <3>1, <4>3 DEF Naming
      <4> QED
        BY <2>2, <2>3, <3>1, <3>2, <4>1, <4>2, <4>4 DEF MadeBy
    <3>3. CASE code \notin {"SUCCESS", "ERR_UNKNOWN"}
      <4>1. MadeBy(t) = {}
        BY <2>1, <3>1, <3>3 DEF Naming
      <4> QED
        BY <2>2, <3>3, <4>1 DEF MadeBy
    <3>4. CASE code = "ERR_UNKNOWN"
      BY <2>2, <3>4
    <3> QED
      BY <3>2, <3>3, <3>4
  <2> QED
    BY <2>1, <2>4, <2>5
<1> QED
  BY <1>1, <1>2, NameNext, LoopsKnown, AllKnown, PTL DEF AuditSpec, CreatedAsTold
-----------------------------------------------------------------------------
(* What a share is told.  An entry of the list that has been handed to     *)
(* addAccess has been granted, unless it is the present one and addAccess  *)
(* is still at it or has failed; and the user it is for has been found     *)
(* before the query that grants.                                           *)
Obtained(t, i) ==
    LET e == job[t].share[i] IN
    <<"granted", e.user, e.perm>> \in seen[t] \/ <<"gone">> \in seen[t]

Granting(t) ==
    /\ \A i \in DOMAIN job[t].share : i < pass[t] => Obtained(t, i)
    /\ step[t] = 0 /\ ret[t] = "SUCCESS" => Obtained(t, pass[t])
    /\ step[t] \in {3, 4} => user[job[t].share[pass[t]].user] # None

Shares(t) ==
    job[t].op = "ReviseGrantTaskList" /\ stage[t] = "act" => Granting(t)

ShareInv == \A t \in Thread : Shares(t)

(* The workers delete no user.                                             *)
UsersStay == \A u \in UserKey : user[u] # None => user'[u] # None

(* The queries of their calls delete none.                                 *)
LEMMA RunsKeepUsers ==
    ASSUME Known, NEW t \in Thread, Runs(t)
    PROVE  UsersStay
<1>1. CASE QueryFails(t)
  BY <1>1 DEF QueryFails, graph, UsersStay
<1>2. CASE Query(t)
  <2>1. TypeOK /\ call[t].method \in Called
    BY RunsOn DEF Known, AuditInv, Sound, Fits
  <2>2. CASE createUserNode(t)
    BY <2>1, <2>2, NoneAssumption
       DEF createUserNode, Taken, Duplicate, graph, UsersStay, TypeOK, GraphTypeOK
  <2>3. CASE Reads(t)
    BY <2>3, ReadsKeepGraph DEF graph, UsersStay
  <2>4. CASE addAccess(t) \/ removeAccess(t)
    BY <2>4 DEF addAccess, removeAccess, MustExist, MergeAccess, graph, nodes, UsersStay
  <2>5. CASE checkAccess(t)
    BY <2>5 DEF checkAccess, MustExist, graph, UsersStay
  <2>6. CASE createTaskNode(t) \/ createTaskListNode(t)
    BY <2>6 DEF createTaskNode, createTaskListNode, MustExist, Duplicate, MergeOwns,
                MergeContains, graph, nodes, UsersStay
  <2>7. CASE reviseTaskNode(t) \/ reviseTaskListNode(t)
    BY <2>7 DEF reviseTaskNode, reviseTaskListNode, graph, UsersStay
  <2>8. CASE deleteTaskNode(t) \/ deleteTaskListNode(t)
    BY <2>8 DEF deleteTaskNode, deleteTaskListNode, DetachTasks, DetachLists, UsersStay
  <2> QED
    BY <1>2, <2>1, <2>2, <2>3, <2>4, <2>5, <2>6, <2>7, <2>8, QueryOf DEF Called
<1> QED
  BY <1>1, <1>2 DEF Runs

(* What a share has seen it keeps, and it sees how its list stands.        *)
LEMMA SeesGrants ==
    ASSUME NEW t \in Thread, Observe, job'[t] = job[t], job[t] # NoJob
    PROVE  /\ seen[t] \union Grants(job[t])' \subseteq seen'[t]
           /\ \A i : Obtained(t, i) => Obtained(t, i)'
<1>1. seen[t] \union Grants(job[t])' \subseteq seen'[t]
  BY DEF Observe, Facts
<1> QED
  BY <1>1 DEF Obtained

(* The present pass, and its call.                                         *)
LEMMA ShareCall ==
    ASSUME Known, LoopInv, NEW t \in Thread,
           job[t].op = "ReviseGrantTaskList", stage[t] = "act"
    PROVE  LET c == call[t]
               e == job[t].share[pass[t]] IN
           /\ job[t] # NoJob /\ job[t] \in Jobs /\ pass[t] \in DOMAIN job[t].share
           /\ step[t] # 0 => /\ c.method = "addAccess" /\ Key(c) = <<job[t].user, job[t].list>>
                             /\ c.dst = e.user /\ c.perm = e.perm
                             /\ e.user \in UserKey /\ Key(c) \in ListKey
<1>1. job[t] # NoJob /\ job[t] \in Jobs /\ TypeOK
  BY DEF Known, WorkTypeOK, NoJob
<1>2. pass[t] \in DOMAIN job[t].share
  BY <1>1 DEF Known, WorkTypeOK
<1>3. ASSUME step[t] # 0
      PROVE  /\ call[t] = LoopCall(job[t], pass[t]) /\ call[t] \in Request
    BY <1>1, <1>3, CallFields DEF LoopInv, Looping, Loops, TypeOK
<1> QED
  BY <1>1, <1>2, <1>3, GrantCallFields DEF Request, Key, ListKey

(* A thread that does not take the step.                                   *)
LEMMA StillShares ==
    ASSUME Known, LoopInv, NEW t \in Thread, Observe, Still(t), UsersStay, Shares(t)
    PROVE  Shares(t)'
<1> SUFFICES ASSUME job[t].op = "ReviseGrantTaskList", stage[t] = "act" PROVE Granting(t)'
  BY DEF Still, Shares
<1>1. \A i : Obtained(t, i) => Obtained(t, i)'
  BY SeesGrants, ShareCall DEF Still
<1>2. step[t] \in {3, 4} => job[t].share[pass[t]].user \in UserKey
  BY ShareCall
<1> QED
  BY <1>1, <1>2 DEF Shares, Granting, Still, UsersStay

(* The steps of a handler.                                                 *)
LEMMA HandleShares ==
    ASSUME Known, LoopInv, NEW t \in Thread, Handle(t), Observe, Shares(t)
    PROVE  Shares(t)'
<1>0. /\ TypeOK /\ WorkTypeOK /\ Looping(t) /\ Sound(t) /\ UNCHANGED graph
      /\ NoJob.op # "ReviseGrantTaskList" /\ "ReviseGrantTaskList" \in Loops \ Creates
  BY HandlersKeepGraph DEF LoopInv, Known, AuditInv, NoJob, Loops, Creates
<1>1. CASE LoopTakesUp(t)
  <2>1. PICK j \in Jobs, stg \in {"gate", "act"}, c \in Requests :
           /\ TakesUp(t, j, stg, c)
           /\ stg = "act" => j.op \in Creates
    BY <1>1 DEF LoopTakesUp
  <2>2. job'[t] = j /\ stage'[t] = stg
    BY <1>0, <2>1 DEF TakesUp, WorkTypeOK
  <2> QED
    BY <1>0, <2>1, <2>2 DEF Shares
<1>2. CASE LoopActs(t)
  <2>1. PICK n \in Nat : Acts(t, n, LoopCall(job[t], n)) /\ NextPass(t, n)
    BY <1>2 DEF LoopActs
  <2>2. /\ job' = job /\ pass'[t] = n /\ stage'[t] = "act" /\ step[t] = 0
        /\ Begin(t, LoopCall(job[t], n)) /\ job[t] # NoJob /\ job[t] \in Jobs
    BY <1>0, <2>1 DEF Acts, Call, WorkTypeOK
  <2>3. ASSUME job[t].op = "ReviseGrantTaskList" PROVE Granting(t)'
    <3>1. step'[t] = 1
      BY <1>0, <2>2, <2>3, LoopBegins DEF Sound
    <3>2. \/ stage[t] = "gate" /\ n = 1
          \/ stage[t] = "act" /\ n = pass[t] + 1 /\ ret[t] = "SUCCESS" /\ pass[t] \in Nat
      BY <1>0, <2>1, <2>3 DEF NextPass, FirstPass, Again, WorkTypeOK
    <3>3. \A i : Obtained(t, i) => Obtained(t, i)'
      BY <2>2, SeesGrants
    <3>4. DOMAIN job[t].share \subseteq Nat \ {0}
      BY <2>2, JobFields
    <3>5. \A i \in DOMAIN job[t].share : i < n => Obtained(t, i)
      <4>1. CASE stage[t] = "gate"
        BY <3>2, <3>4, <4>1
      <4>2. CASE stage[t] = "act"
        BY <2>2, <2>3, <3>2, <3>4, <4>2 DEF Shares, Granting
      <4> QED
        BY <3>2, <4>1, <4>2
    <3> QED
      BY <2>2, <3>1, <3>3, <3>5 DEF Granting
  <2> QED
    BY <2>2, <2>3 DEF Shares
<1>3. CASE LoopTells(t)
  BY <1>0, <1>3 DEF LoopTells, Tells, Tell, WorkTypeOK, Shares
<1>4. CASE Elsewhere(t)
  BY <1>0, <1>4 DEF Elsewhere, Shares
<1>5. CASE Refused(t)
  <2>1. Still(t) /\ UsersStay
    BY <1>0, <1>5 DEF Refused, Still, vars, UsersStay
  <2> QED
    BY <2>1, StillShares
<1> QED
  BY <1>0, <1>1, <1>2, <1>3, <1>4, <1>5, LoopSteps

(* The queries of addAccess: a user that is missing, a list that is gone   *)
(* or private end it, and the last one grants unless the list is gone.     *)
LEMMA GrantQuery ==
    ASSUME Known, LoopInv, NEW t \in Thread, Runs(t), Observe, Shares(t),
           job[t].op = "ReviseGrantTaskList", stage[t] = "act"
    PROVE  /\ step'[t] = 0 /\ ret'[t] = "SUCCESS" => Obtained(t, pass[t])'
           /\ step'[t] \in {3, 4} => user'[job[t].share[pass[t]].user] # None
<1> DEFINE c == call[t]
<1>0. /\ TypeOK /\ job'[t] = job[t] /\ pass'[t] = pass[t] /\ step[t] # 0
      /\ job[t] # NoJob /\ job[t] \in Jobs
      /\ c.method = "addAccess" /\ Key(c) = <<job[t].user, job[t].list>>
      /\ c.dst = job[t].share[pass[t]].user /\ c.perm = job[t].share[pass[t]].perm
      /\ c.dst \in UserKey /\ Key(c) \in ListKey
  BY RunsOn, ShareCall DEF Known
<1>1. CASE QueryFails(t)
  BY <1>0, <1>1, FailsApart
<1>2. CASE Query(t)
  <2>1. addAccess(t)
    BY <1>0, <1>2, QueryOf
  <2> USE DEF TypeOK, CallTypeOK
  <2>2. CASE At(t, "addAccess", 1) /\ MustExist(t, user[c.user])
    BY <1>0, <2>2 DEF At, MustExist, Return, Reply, Advance
  <2>3. CASE At(t, "addAccess", 2) /\ MustExist(t, user[c.dst])
    BY <1>0, <2>3 DEF At, MustExist, Return, Reply, Advance, graph
  <2>4. CASE /\ At(t, "addAccess", 3)
             /\ Return(t, "ERR_NO_NODE") \/ Return(t, "ERR_ACCESS") \/ Advance(t)
             /\ UNCHANGED graph
    <3>1. user'[c.dst] # None
      BY <1>0, <2>4 DEF At, graph, Shares, Granting
    <3> QED
      BY <1>0, <2>4, <3>1 DEF At, Return, Reply, Advance
  <2>5. CASE At(t, "addAccess", 4) /\ MergeAccess(c.dst, Key(c), c.perm) /\ Finish(t)
    <3>1. step'[t] = 0
      BY <1>0, <2>5 DEF Finish, Return, Reply
    <3>2. user[c.dst] # None
      BY <1>0, <2>5 DEF At, Shares, Granting
    <3>3. CASE list[Key(c)] # None
      <4>1. <<c.dst, Key(c), c.perm>> \in access'
        BY <2>5, <3>2, <3>3 DEF MergeAccess
      <4>2. <<"granted", c.dst, c.perm>> \in Grants(job[t])'
        BY <1>0, <4>1 DEF Grants
      <4> QED
        BY <1>0, <3>1, <4>2, SeesGrants DEF Obtained
    <3>4. CASE list[Key(c)] = None
      <4>1. PICK l : l = Key(c)
        OBVIOUS
      <4>2. VisibilityOf(l)' = None
        BY <2>5, <3>4, <4>1 DEF MergeAccess, nodes, VisibilityOf
      <4>3. l = <<job'[t].user, job'[t].list>> /\ job'[t].op = "ReviseGrantTaskList"
        BY <1>0, <4>1
      <4>4. <<"gone">> \in Grants(job[t])'
        BY <4>2, <4>3 DEF Grants
      <4> QED
        BY <1>0, <3>1, <4>4, SeesGrants DEF Obtained
    <3> QED
      BY <3>3, <3>4
  <2> QED
    BY <2>1, <2>2, <2>3, <2>4, <2>5 DEF addAccess
<1> QED
  BY <1>1, <1>2 DEF Runs

(* So a share knows what it has granted in every state.                    *)
LEMMA ShareNext == Known /\ LoopInv /\ ShareInv /\ [AuditNext]_auditVars => ShareInv'
<1> SUFFICES ASSUME Known, LoopInv, ShareInv, [AuditNext]_auditVars PROVE ShareInv'
  OBVIOUS
<1>1. CASE UNCHANGED auditVars
  BY <1>1 DEF auditVars, workerVars, work, vars, ShareInv, Shares, Granting, Obtained
<1>2. CASE Die /\ Observe
  BY <1>2 DEF Die, ShareInv, Shares
<1>3. ASSUME NEW t \in Thread, Observe, Alone(t), Handle(t) PROVE ShareInv'
  <2>1. UsersStay
    BY <1>3, HandlersKeepGraph DEF Known, graph, UsersStay
  <2> QED
    BY <1>3, <2>1, StillShares, HandleShares DEF ShareInv, Alone
<1>4. ASSUME NEW t \in Thread, Observe, Alone(t), Runs(t) PROVE ShareInv'
  <2>1. UsersStay
    BY <1>4, RunsKeepUsers
  <2>2. Shares(t)'
    <3>1. UNCHANGED <<job, stage, pass>> /\ (job[t] # NoJob)
      BY <1>4, RunsOn
    <3>2. \A i : Obtained(t, i) => Obtained(t, i)'
      BY <1>4, <3>1, SeesGrants
    <3> QED
      BY <1>4, <3>1, <3>2, GrantQuery DEF ShareInv, Shares, Granting
  <2> QED
    BY <1>4, <2>1, <2>2, StillShares DEF ShareInv, Alone
<1> QED
  BY <1>1, <1>2, <1>3, <1>4, Turns

(* A share that is told of success has granted every entry, and one that   *)
(* is told of a user has granted every entry before that user's, each of   *)
(* them at some instant of the request, unless the list was gone.          *)
THEOREM SharesTellTheTruth == AuditSpec => ShareAsTold
<1> DEFINE Truth(t) ==
      LET share == job[t].share
          granted(i) == \/ <<"granted", share[i].user, share[i].perm>> \in seen[t]
                        \/ <<"gone">> \in seen[t] IN
      /\ answer'[t][1] = "SUCCESS" => \A i \in DOMAIN share : granted(i)
      /\ answer'[t][2] # None =>
            \E n \in DOMAIN share : /\ share[n].user = answer'[t][2]
                                    /\ \A i \in 1..(n - 1) : granted(i)
<1>1. AuditInit => ShareInv
  BY DEF AuditInit, WorkersInit, ShareInv, Shares
<1>2. Known /\ LoopInv /\ ShareInv /\ [AuditNext]_auditVars =>
         \A t \in Thread : Answers(t, "ReviseGrantTaskList") => Truth(t)
  <2> SUFFICES ASSUME Known, LoopInv, ShareInv, [AuditNext]_auditVars,
                      NEW t \in Thread, Answers(t, "ReviseGrantTaskList")
               PROVE  Truth(t)
    OBVIOUS
  <2>0. "ReviseGrantTaskList" \in Loops \ Creates
    BY DEF Loops, Creates
  <2>1. /\ step[t] = 0 /\ stage[t] \in {"gate", "act"} /\ job[t].op = "ReviseGrantTaskList"
        /\ \E code, note : answer'[t] = <<code, note>> /\ Told(t, code, note)
    BY <2>0, AnswerTells
  <2>2. PICK code, note : answer'[t] = <<code, note>> /\ ShareTold(t, code, note)
    BY <2>0, <2>1 DEF Told
  <2>3. /\ job[t] \in Jobs /\ pass[t] \in Nat /\ job[t].share \in Seq(ShareInfo)
        /\ stage[t] = "gate" => pass[t] = 0
    BY <2>0, <2>1, JobFields DEF Known, WorkTypeOK, Answers, LoopInv, Looping
  <2>4. CASE code = "SUCCESS"
    <3>1. note = None /\ \A i \in DOMAIN job[t].share : i <= pass[t]
      BY <2>2, <2>4 DEF ShareTold
    <3>2. ASSUME NEW i \in DOMAIN job[t].share PROVE Obtained(t, i)
      <4>1. stage[t] = "act" /\ ret[t] = "SUCCESS"
        BY <2>1, <2>2, <2>3, <2>4, <3>1 DEF ShareTold
      <4>2. i < pass[t] \/ i = pass[t]
        BY <2>3, <3>1
      <4> QED
        BY <2>1, <4>1, <4>2 DEF ShareInv, Shares, Granting
    <3> QED
      BY <2>2, <2>4, <3>1, <3>2 DEF Obtained
  <2>5. CASE code # "SUCCESS" /\ note = None
    BY <2>2, <2>5
  <2>6. CASE code # "SUCCESS" /\ note # None
    <3>1. stage[t] = "act" /\ note = job[t].share[pass[t]].user
      BY <2>2, <2>6 DEF ShareTold
    <3>2. pass[t] \in DOMAIN job[t].share
      BY <2>1, <3>1, ShareCall
    <3>3. \A i \in 1..(pass[t] - 1) : i \in DOMAIN job[t].share /\ i < pass[t]
      BY <2>3, <3>2
    <3>4. \A i \in 1..(pass[t] - 1) : Obtained(t, i)
      BY <2>1, <3>1, <3>3 DEF ShareInv, Shares, Granting
    <3> QED
      BY <2>2, <2>6, <3>1, <3>2, <3>4 DEF Obtained
  <2> QED
    BY <2>4, <2>5, <2>6
<1> QED
  BY <1>1, <1>2, ShareNext, LoopsKnown, AllKnown, PTL DEF AuditSpec, ShareAsTold
=============================================================================
