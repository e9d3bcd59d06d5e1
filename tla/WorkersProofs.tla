---------------------------- MODULE WorkersProofs ----------------------------
(***************************************************************************)
(* Proofs about Workers and WorkersAudit: the workers use DB as its        *)
(* specification says, and every change, and every answer, has its ground  *)
(* in a permission and in the visibility of the list, each at some instant *)
(* of the request (not necessarily the same).                              *)
(***************************************************************************)
EXTENDS WorkersAudit, DBProofs, SequenceTheorems

(* A call is one that DB expects if its parameters have their types and    *)
(* those the method does not have are Blank's.                             *)
LEMMA RequestIs ==
    ASSUME NEW r \in Request, r.method \in Called,
           \A f \in {"user", "dst", "list", "task", "perm", "info"} :
              f \in Params(r.method) \/ r[f] = Blank[f]
    PROVE  r \in Requests
<1>1. DOMAIN Blank \ {"method"} = {"user", "dst", "list", "task", "perm", "info"}
  BY DEF Blank
<1>2. r.method \in Methods /\ r.user \in Owners
  BY CallsAssumption DEF Request
<1> QED
  BY <1>1, <1>2 DEF Requests

(* The fields of a request have their types.                             *)
LEMMA JobFields ==
    ASSUME NEW j \in Jobs
    PROVE  /\ j.user \in UserKey /\ Owner(j) \in UserKey
           /\ j.list \in ListName /\ j.task \in TaskName /\ j.info \in Infos
           /\ j.other \in UserKey \union {None}
           /\ j.share \in Seq(ShareInfo)
           /\ j.op \in Op
BY JobsAssumption DEF Job, Owner

(* The fields of the calls the workers build.                              *)
LEMMA UserCallFields ==
    ASSUME NEW j \in Jobs, NEW m \in Called
    PROVE  LET r == UserCall(j, m) IN
           /\ r \in Request /\ r.method = m /\ r.user = j.user
           /\ \A f \in {"dst", "list", "task", "perm", "info"} : r[f] = Blank[f]
BY BlankType, JobFields, CallsAssumption DEF UserCall, Request

(* A call about the list the request names.                              *)
LEMMA ListCallFields ==
    ASSUME NEW j \in Jobs, NEW m \in Called
    PROVE  LET r == ListCall(j, m) IN
           /\ r \in Request /\ r.method = m /\ r.user = Owner(j) /\ r.list = j.list
           /\ \A f \in {"dst", "task", "perm", "info"} : r[f] = Blank[f]
BY BlankType, JobFields, CallsAssumption DEF ListCall, Request

(* A call about the task it names.                                       *)
LEMMA TaskCallFields ==
    ASSUME NEW j \in Jobs, NEW m \in Called
    PROVE  LET r == TaskCall(j, m) IN
           /\ r \in Request /\ r.method = m /\ r.user = Owner(j) /\ r.list = j.list
           /\ r.task = j.task
           /\ \A f \in {"dst", "perm", "info"} : r[f] = Blank[f]
BY ListCallFields, JobFields DEF TaskCall, Request

(* A call about a list of the user of the request.                       *)
LEMMA OwnCallFields ==
    ASSUME NEW j \in Jobs, NEW m \in Called
    PROVE  LET r == OwnCall(j, m) IN
           /\ r \in Request /\ r.method = m /\ r.user = j.user /\ r.list = j.list
           /\ \A f \in {"dst", "task", "perm", "info"} : r[f] = Blank[f]
BY UserCallFields, JobFields DEF OwnCall, Request

(* The calls a request begins with.                                        *)
LEMMA GateCall ==
    ASSUME NEW j \in Jobs, j.other # None
    PROVE  LET r == [ListCall(j, "checkAccess") EXCEPT !.dst = j.user] IN
           /\ r \in Requests /\ r.method = "checkAccess"
           /\ r.user = j.other /\ r.dst = j.user /\ r.list = j.list
<1> DEFINE r == [ListCall(j, "checkAccess") EXCEPT !.dst = j.user]
<1>1. "checkAccess" \in Called
  BY DEF Called
<1>2. /\ r \in Request /\ r.method = "checkAccess"
      /\ r.user = Owner(j) /\ r.dst = j.user /\ r.list = j.list
      /\ r.task = Blank.task /\ r.perm = Blank.perm /\ r.info = Blank.info
  BY <1>1, ListCallFields, JobFields DEF Request
<1>3. r \in Requests
  BY <1>1, <1>2, RequestIs DEF Params
<1> QED
  BY <1>2, <1>3 DEF Owner

(* The first call of a gate is one DB expects.                           *)
LEMMA GateFirstCall == ASSUME NEW j \in Jobs PROVE GateFirst(j)[2] \in Requests
<1>1. ListCall(j, "getTaskListNode") \in Requests
  BY ListCallFields, RequestIs DEF Params, Called
<1> QED
  BY <1>1, GateCall DEF GateFirst

-----------------------------------------------------------------------------
(* The calls of a request: gate and user calls only read, and a call that  *)
(* writes is about the list the request names, in the name of its owner,   *)
(* or about what the user of the request owns.                             *)
TaskWriters == {"createTaskNode", "reviseTaskNode", "deleteTaskNode"}

Fits(j, stg, c) ==
    /\ c \in Requests /\ c.method \in Called
    /\ stg = "gate" => /\ c.method \in {"checkAccess", "getTaskListNode"}
                       /\ Foreign(j) => /\ c.method = "checkAccess" /\ c.list = j.list
                                        /\ c.user = j.other /\ c.dst = j.user
    /\ stg = "user" => c.method = "getUserNode"
    /\ stg = "act" =>
          /\ c.method \in TaskWriters =>
                j.op \in TaskWrites /\ c.user = Owner(j) /\ c.list = j.list
          /\ c.method = "createTaskNode"     => j.op = "TasksCreate"
          /\ c.method = "createTaskListNode" => j.op = "ListsCreate"
          /\ c.method = "reviseTaskListNode" =>
                /\ j.op = "ListsRevise" /\ c.info = j.info
                /\ c.user = Owner(j) /\ c.list = j.list
          /\ c.method \in {"createTaskListNode", "deleteTaskListNode",
                           "addAccess", "removeAccess"} => c.user = j.user

Gates == TaskOps \union {"ListsQuery", "ListsRevise"}

(* The gate asks whether the user may use the list.                      *)
LEMMA FitsGate ==
    ASSUME NEW j \in Jobs
    PROVE  Fits(j, "gate", GateFirst(j)[2]) /\ GateFirst(j)[1] = "gate"
<1>1. ListCall(j, "getTaskListNode").method = "getTaskListNode"
  BY ListCallFields DEF Called
<1> QED
  BY <1>1, GateCall, GateFirstCall DEF Fits, GateFirst, Foreign, Called

(* The shares' gate reads a list of the user's own.                      *)
LEMMA FitsVisibility ==
    ASSUME NEW j \in Jobs, j.op \in ShareOps
    PROVE  Fits(j, "gate", OwnCall(j, "getTaskListNode"))
<1>1. OwnCall(j, "getTaskListNode") \in Requests
  BY OwnCallFields, RequestIs DEF Params, Called
<1>2. OwnCall(j, "getTaskListNode").method = "getTaskListNode"
  BY OwnCallFields DEF Called
<1>3. ~Foreign(j)
  BY DEF Foreign, ShareOps, TaskOps, TaskWrites
<1> QED
  BY <1>1, <1>2, <1>3 DEF Fits, Called

(* The calls that only read fit every request.                           *)
LEMMA FitsReads ==
    ASSUME NEW j \in Jobs
    PROVE  /\ \A m \in {"getTaskListNode", "getAllTaskNodes"} : Fits(j, "act", ListCall(j, m))
           /\ Fits(j, "act", TaskCall(j, "getTaskNode"))
           /\ Fits(j, "act", UserCall(j, "getAllTaskListNodes"))
           /\ Fits(j, "user", UserCall(j, "getUserNode"))
           /\ Fits(j, "act", OwnCall(j, "allGrant"))
           /\ Fits(j, "act", [Blank EXCEPT !.method = "allAccess", !.dst = j.user])
           /\ Fits(j, "act", [Blank EXCEPT !.method = "getAllPublic"])
           /\ j.other # None =>
                 Fits(j, "user", [Blank EXCEPT !.method = "getUserNode", !.user = j.other])
<1>1. ASSUME NEW m \in {"getTaskListNode", "getAllTaskNodes"}
      PROVE  Fits(j, "act", ListCall(j, m))
  BY ListCallFields, RequestIs DEF Params, Called, Fits, TaskWriters
<1>2. Fits(j, "act", TaskCall(j, "getTaskNode"))
  BY TaskCallFields, RequestIs DEF Params, Called, Fits, TaskWriters
<1>3. Fits(j, "act", UserCall(j, "getAllTaskListNodes"))
  BY UserCallFields, RequestIs DEF Params, Called, Fits, TaskWriters
<1>4. Fits(j, "user", UserCall(j, "getUserNode"))
  BY UserCallFields, RequestIs DEF Params, Called, Fits
<1>5. Fits(j, "act", OwnCall(j, "allGrant"))
  BY OwnCallFields, RequestIs DEF Params, Called, Fits, TaskWriters
<1>6. Fits(j, "act", [Blank EXCEPT !.method = "allAccess", !.dst = j.user])
  <2> DEFINE r == [Blank EXCEPT !.method = "allAccess", !.dst = j.user]
  <2>1. /\ r \in Request /\ r.method = "allAccess"
        /\ \A f \in {"user", "list", "task", "perm", "info"} : r[f] = Blank[f]
    BY BlankType, JobFields, CallsAssumption DEF Request, Called
  <2> QED
    BY <2>1, RequestIs DEF Params, Called, Fits, TaskWriters
<1>7. Fits(j, "act", [Blank EXCEPT !.method = "getAllPublic"])
  <2> DEFINE r == [Blank EXCEPT !.method = "getAllPublic"]
  <2>1. /\ r \in Request /\ r.method = "getAllPublic"
        /\ \A f \in {"user", "dst", "list", "task", "perm", "info"} : r[f] = Blank[f]
    BY BlankType, CallsAssumption DEF Request, Called
  <2> QED
    BY <2>1, RequestIs DEF Params, Called, Fits, TaskWriters
<1>8. ASSUME j.other # None
      PROVE  Fits(j, "user", [Blank EXCEPT !.method = "getUserNode", !.user = j.other])
  <2> DEFINE r == [Blank EXCEPT !.method = "getUserNode", !.user = j.other]
  <2>1. /\ r \in Request /\ r.method = "getUserNode"
        /\ \A f \in {"dst", "list", "task", "perm", "info"} : r[f] = Blank[f]
    BY <1>8, BlankType, JobFields, CallsAssumption DEF Request, Called
  <2> QED
    BY <2>1, RequestIs DEF Params, Called, Fits
<1> QED
  BY <1>1, <1>2, <1>3, <1>4, <1>5, <1>6, <1>7, <1>8

(* The calls that write fit the requests that make them.                 *)
LEMMA FitsWrites ==
    ASSUME NEW j \in Jobs
    PROVE  /\ j.op \in TaskWrites =>
                 /\ Fits(j, "act", TaskCall(j, "deleteTaskNode"))
                 /\ Fits(j, "act", [TaskCall(j, "reviseTaskNode") EXCEPT !.info = j.info])
           /\ j.op = "ListsRevise" => Fits(j, "act", ReviseList(j))
           /\ j.op = "TasksCreate" =>
                 \A n : Rename(j.task, n) \in TaskName => Fits(j, "act", CreateTask(j, n))
           /\ j.op = "ListsCreate" =>
                 \A n : Rename(j.list, n) \in ListName => Fits(j, "act", CreateList(j, n))
           /\ Fits(j, "act", OwnCall(j, "deleteTaskListNode"))
           /\ Fits(j, "act", [UserCall(j, "createUserNode") EXCEPT !.info = j.info])
           /\ \A u \in UserKey, p \in Perm :
                 Fits(j, "act", [OwnCall(j, "addAccess") EXCEPT !.dst = u, !.perm = p])
           /\ \A u \in UserKey :
                 Fits(j, "act", [OwnCall(j, "removeAccess") EXCEPT !.dst = u])
<1>1. ASSUME j.op \in TaskWrites PROVE Fits(j, "act", TaskCall(j, "deleteTaskNode"))
  BY <1>1, TaskCallFields, RequestIs DEF Params, Called, Fits, TaskWriters
<1>2. ASSUME j.op \in TaskWrites
      PROVE  Fits(j, "act", [TaskCall(j, "reviseTaskNode") EXCEPT !.info = j.info])
  <2> DEFINE r == [TaskCall(j, "reviseTaskNode") EXCEPT !.info = j.info]
  <2>1. /\ r \in Request /\ r.method = "reviseTaskNode"
        /\ r.user = Owner(j) /\ r.list = j.list
        /\ \A f \in {"dst", "perm"} : r[f] = Blank[f]
    BY TaskCallFields, JobFields DEF Request, Called
  <2> QED
    BY <1>2, <2>1, RequestIs DEF Params, Called, Fits, TaskWriters
<1>3. ASSUME j.op = "TasksCreate", NEW n, Rename(j.task, n) \in TaskName
      PROVE  Fits(j, "act", CreateTask(j, n))
  <2> DEFINE q == ListCall(j, "createTaskNode")
             x == Rename(j.task, n)
             i == j.info
             r == [q EXCEPT !.task = x, !.info = i]
  <2>0. /\ q \in Request /\ q.method = "createTaskNode" /\ q.user = Owner(j)
        /\ q.list = j.list /\ q.dst = Blank.dst /\ q.perm = Blank.perm
        /\ x \in TaskName /\ i \in Infos
    BY <1>3, ListCallFields, JobFields DEF Called
  <2>1. CreateTask(j, n) = r
    BY DEF CreateTask
  <2> HIDE DEF q, x, i
  <2>2. /\ r \in Request /\ r.method = "createTaskNode"
        /\ r.user = Owner(j) /\ r.list = j.list
        /\ r.dst = Blank.dst /\ r.perm = Blank.perm
    BY <2>0 DEF Request
  <2> HIDE DEF r
  <2> QED
    BY <1>3, <2>1, <2>2, RequestIs DEF Params, Called, Fits, TaskWriters, TaskWrites
<1>4. ASSUME j.op = "ListsRevise" PROVE Fits(j, "act", ReviseList(j))
  <2> DEFINE r == ReviseList(j)
  <2>1. /\ r \in Request /\ r.method = "reviseTaskListNode"
        /\ r.user = Owner(j) /\ r.list = j.list /\ r.info = j.info
        /\ \A f \in {"dst", "task", "perm"} : r[f] = Blank[f]
    BY ListCallFields, JobFields DEF ReviseList, Request, Called
  <2> QED
    BY <1>4, <2>1, RequestIs DEF Params, Called, Fits, TaskWriters
<1>5. ASSUME j.op = "ListsCreate", NEW n, Rename(j.list, n) \in ListName
      PROVE  Fits(j, "act", CreateList(j, n))
  <2> DEFINE q == UserCall(j, "createTaskListNode")
             x == Rename(j.list, n)
             i == j.info
             r == [q EXCEPT !.list = x, !.info = i]
  <2>0. /\ q \in Request /\ q.method = "createTaskListNode" /\ q.user = j.user
        /\ q.dst = Blank.dst /\ q.task = Blank.task /\ q.perm = Blank.perm
        /\ x \in ListName /\ i \in Infos
    BY <1>5, UserCallFields, JobFields DEF Called
  <2>1. CreateList(j, n) = r
    BY DEF CreateList
  <2> HIDE DEF q, x, i
  <2>2. /\ r \in Request /\ r.method = "createTaskListNode" /\ r.user = j.user
        /\ r.dst = Blank.dst /\ r.task = Blank.task /\ r.perm = Blank.perm
    BY <2>0 DEF Request
  <2> HIDE DEF r
  <2> QED
    BY <1>5, <2>1, <2>2, RequestIs DEF Params, Called, Fits, TaskWriters
<1>6. Fits(j, "act", OwnCall(j, "deleteTaskListNode"))
  BY OwnCallFields, RequestIs DEF Params, Called, Fits, TaskWriters
<1>7. Fits(j, "act", [UserCall(j, "createUserNode") EXCEPT !.info = j.info])
  <2> DEFINE q == UserCall(j, "createUserNode")
             i == j.info
             r == [q EXCEPT !.info = i]
  <2>1. /\ q \in Request /\ q.method = "createUserNode" /\ i \in Infos
        /\ \A f \in {"dst", "list", "task", "perm"} : q[f] = Blank[f]
    BY UserCallFields, JobFields DEF Called
  <2> HIDE DEF q, i
  <2>2. /\ r \in Request /\ r.method = "createUserNode"
        /\ r.dst = Blank.dst /\ r.list = Blank.list
        /\ r.task = Blank.task /\ r.perm = Blank.perm
    BY <2>1 DEF Request
  <2>3. Fits(j, "act", r)
    <3> HIDE DEF r
    <3> QED
      BY <2>2, RequestIs DEF Params, Called, Fits, TaskWriters
  <2> QED
    BY <2>3 DEF q, i
<1>8. ASSUME NEW u \in UserKey, NEW p \in Perm
      PROVE  Fits(j, "act", [OwnCall(j, "addAccess") EXCEPT !.dst = u, !.perm = p])
  <2> DEFINE q == OwnCall(j, "addAccess")
             r == [q EXCEPT !.dst = u, !.perm = p]
  <2>1. /\ q \in Request /\ q.method = "addAccess" /\ q.user = j.user
        /\ q.task = Blank.task /\ q.perm = Blank.perm /\ q.info = Blank.info
    BY OwnCallFields DEF Called
  <2> HIDE DEF q
  <2>2. /\ r \in Request /\ r.method = "addAccess" /\ r.user = j.user
        /\ r.task = Blank.task /\ r.info = Blank.info
    BY <2>1 DEF Request
  <2>3. Fits(j, "act", r)
    <3> HIDE DEF r
    <3> QED
      BY <2>2, RequestIs DEF Params, Called, Fits, TaskWriters
  <2> QED
    BY <2>3 DEF q
<1>9. ASSUME NEW u \in UserKey
      PROVE  Fits(j, "act", [OwnCall(j, "removeAccess") EXCEPT !.dst = u])
  <2> DEFINE q == OwnCall(j, "removeAccess")
             r == [q EXCEPT !.dst = u]
  <2>1. /\ q \in Request /\ q.method = "removeAccess" /\ q.user = j.user
        /\ q.task = Blank.task /\ q.perm = Blank.perm /\ q.info = Blank.info
    BY OwnCallFields DEF Called
  <2> HIDE DEF q
  <2>2. /\ r \in Request /\ r.method = "removeAccess" /\ r.user = j.user
        /\ r.task = Blank.task /\ r.perm = Blank.perm /\ r.info = Blank.info
    BY <2>1 DEF Request
  <2>3. Fits(j, "act", r)
    <3> HIDE DEF r
    <3> QED
      BY <2>2, RequestIs DEF Params, Called, Fits, TaskWriters
  <2> QED
    BY <2>3 DEF q
<1> QED
  BY <1>1, <1>2, <1>3, <1>4, <1>5, <1>6, <1>7, <1>8, <1>9

-----------------------------------------------------------------------------
(* The steps of a request, as far as the proofs look at them: it makes a   *)
(* call of DB, it is answered, or it is refused at the door.               *)
Writers == TaskWrites \union {"ListsRevise"}

Opens(t, j, stg) == /\ stage[t] = "idle" /\ Fault(j) = None
                    /\ Foreign(j) => stg = "gate"

Continues(t, j, stg) ==
    /\ stage[t] # "idle" /\ job[t] = j
    /\ Foreign(j) => /\ stg = "act"
                     /\ \/ stage[t] = "act"
                        \/ /\ stage[t] = "gate"
                           /\ Refusal(t, j.op \in Writers) = None

Moved(t, j, stg, n) == /\ job'   = [job EXCEPT ![t] = j]
                       /\ stage' = [stage EXCEPT ![t] = stg]
                       /\ pass'  = [pass EXCEPT ![t] = n]

Starts(t, j, stg, n, c) ==
    /\ Fits(j, stg, c) /\ Begin(t, c) /\ Moved(t, j, stg, n)
    /\ DOMAIN answer' = DOMAIN answer
    /\ Opens(t, j, stg) \/ Continues(t, j, stg)
    /\ stg = "act" /\ j.op = "ReviseGrantTaskList" => n \in DOMAIN j.share

Asks(t) == \E j \in Jobs, stg \in Stage \ {"idle"}, n \in Nat, c \in Requests :
              Starts(t, j, stg, n, c)

Ends(t) == /\ stage[t] # "idle" /\ step[t] = 0
           /\ Moved(t, NoJob, "idle", 0) /\ UNCHANGED vars
           /\ Foreign(job[t]) /\ stage[t] = "gate" => answer'[t][1] # "SUCCESS"
           /\ DOMAIN answer' = DOMAIN answer

Refuses(t) == /\ UNCHANGED <<vars, job, stage, pass>>
              /\ DOMAIN answer' = DOMAIN answer

(* A thread at work has one of the requests.                               *)
LEMMA AtWork ==
    ASSUME NEW t \in Thread, WorkTypeOK, stage[t] # "idle"
    PROVE  job[t] \in Jobs
BY DEF WorkTypeOK

(* Taking up a request.                                                    *)
LEMMA ReceiveStarts ==
    ASSUME NEW t \in Thread, WorkTypeOK, NEW op, NEW j \in Sent(t, op), NEW first,
           Fits(j, first[1], first[2]), first[1] \in {"gate", "user", "act"},
           Foreign(j) => first[1] = "gate",
           first[1] = "act" => op # "ReviseGrantTaskList",
           Receive(t, j, first)
    PROVE  Asks(t) \/ Refuses(t)
<1>1. j \in Jobs /\ j.op = op /\ stage[t] = "idle"
  BY DEF Sent
<1>2. CASE Fault(j) # None
  BY <1>2 DEF Receive, Refuses
<1>3. CASE Fault(j) = None
  <2>1. /\ Begin(t, first[2]) /\ job' = [job EXCEPT ![t] = j]
        /\ stage' = [stage EXCEPT ![t] = first[1]] /\ pass' = pass
    BY <1>3 DEF Receive
  <2>2. pass[t] \in Nat /\ pass' = [pass EXCEPT ![t] = pass[t]]
    BY <2>1 DEF WorkTypeOK
  <2>3. Starts(t, j, first[1], pass[t], first[2])
    BY <1>1, <1>3, <2>1, <2>2 DEF Starts, Moved, Opens, Receive
  <2>4. first[2] \in Requests /\ first[1] \in Stage \ {"idle"}
    BY DEF Fits, Stage
  <2> QED
    BY <1>1, <2>2, <2>3, <2>4 DEF Asks
<1> QED
  BY <1>2, <1>3

(* Making the next call of a request.                                      *)
LEMMA CallStarts ==
    ASSUME NEW t \in Thread, WorkTypeOK, stage[t] # "idle",
           NEW stg \in {"gate", "user", "act"}, NEW n \in Nat, NEW c,
           Call(t, stg, n, c), Fits(job[t], stg, c),
           Continues(t, job[t], stg),
           stg = "act" /\ job[t].op = "ReviseGrantTaskList" =>
              n \in DOMAIN job[t].share
    PROVE  Asks(t)
<1>1. job[t] \in Jobs
  BY AtWork
<1>2. job' = [job EXCEPT ![t] = job[t]]
  BY DEF Call, WorkTypeOK
<1>3. Starts(t, job[t], stg, n, c)
  BY <1>2 DEF Call, Starts, Moved
<1> QED
  BY <1>1, <1>3 DEF Asks, Stage, Fits

(* Answering a request.                                                    *)
LEMMA TellEnds ==
    ASSUME NEW t \in Thread, WorkTypeOK, stage[t] # "idle", step[t] = 0,
           NEW code, NEW note, Tell(t, code, note),
           Foreign(job[t]) /\ stage[t] = "gate" => code # "SUCCESS"
    PROVE  Ends(t)
BY DEF Tell, Ends, Moved, WorkTypeOK

(* Most methods answer with the code of their last call.                 *)
LEMMA DoneEnds ==
    ASSUME NEW t \in Thread, WorkTypeOK, NEW op, Done(t, op)
    PROVE  Ends(t)
BY TellEnds DEF Done, Back

(* A gate that turns a request away does not answer with success.          *)
LEMMA RefusalIsNoSuccess ==
    ASSUME NEW t \in Thread, NEW writes
    PROVE  Refusal(t, writes) # "SUCCESS"
BY NoneAssumption DEF Refusal, Code

(* Passing a gate or being turned away.                                  *)
LEMMA GatedStarts ==
    ASSUME NEW t \in Thread, WorkTypeOK, NEW op, op \in Gates, NEW writes, NEW c,
           writes = (op \in Writers), Gated(t, op, writes, c),
           Fits(job[t], "act", c)
    PROVE  Asks(t) \/ Ends(t)
<1>1. job[t].op = op /\ stage[t] = "gate" /\ step[t] = 0
  BY DEF Gated, Back
<1>2. CASE Refusal(t, writes) = None
  <2>1. Call(t, "act", 0, c)
    BY <1>2 DEF Gated
  <2>2. Continues(t, job[t], "act")
    BY <1>1, <1>2 DEF Continues
  <2>3. op # "ReviseGrantTaskList"
    BY DEF Gates, TaskOps, TaskWrites
  <2> QED
    BY <1>1, <2>1, <2>2, <2>3, CallStarts
<1>3. CASE Refusal(t, writes) # None
  BY <1>1, <1>3, TellEnds, RefusalIsNoSuccess DEF Gated
<1> QED
  BY <1>2, <1>3

(* The suffixes a create may ask for give names.                           *)
LEMMA SuffixNames ==
    ASSUME NEW t \in Thread, WorkTypeOK, job[t] \in Jobs, job[t].op \in Creates,
           NEW n \in Nat, n = 0 \/ n < MaxCreates[job[t].op]
    PROVE  /\ job[t].op = "TasksCreate" => Rename(job[t].task, n) \in TaskName
           /\ job[t].op = "ListsCreate" => Rename(job[t].list, n) \in ListName
<1>1. CASE n = 0
  BY <1>1, JobFields DEF Rename
<1>2. CASE n < MaxCreates[job[t].op]
  <2>1. MaxCreates[job[t].op] \in Nat
    BY CreateAssumption
  <2>2. n \in 0..(MaxCreates[job[t].op] - 1)
    BY <1>2, <2>1
  <2> QED
    BY <2>2, RenameAssumption
<1> QED
  BY <1>1, <1>2

(* The loop of a create makes a call or is answered.                       *)
LEMMA NextNameStarts ==
    ASSUME NEW t \in Thread, WorkTypeOK, stage[t] = "act", step[t] = 0,
           job[t].op \in Creates, NEW c, NEW name, NextName(t, c, name),
           pass[t] + 1 < MaxCreates[job[t].op] => Fits(job[t], "act", c)
    PROVE  Asks(t) \/ Ends(t)
<1>1. CASE ret[t] = "ERR_DUP_NODE"
  <2>1. Call(t, "act", pass[t] + 1, c) /\ Fits(job[t], "act", c)
    BY <1>1 DEF NextName
  <2>2. Continues(t, job[t], "act")
    BY DEF Continues
  <2>3. pass[t] + 1 \in Nat /\ job[t].op # "ReviseGrantTaskList"
    BY DEF WorkTypeOK, Creates
  <2> QED
    BY <2>1, <2>2, <2>3, CallStarts
<1>2. CASE ret[t] # "ERR_DUP_NODE"
  BY <1>2, TellEnds DEF NextName
<1> QED
  BY <1>1, <1>2

(* A method that is a gate, an act and an answer.                          *)
LEMMA GateFirstStarts ==
    ASSUME NEW t \in Thread, WorkTypeOK, NEW op \in Gates,
           NEW j \in Sent(t, op), Receive(t, j, GateFirst(j))
    PROVE  Asks(t) \/ Refuses(t)
<1>1. j \in Jobs
  BY DEF Sent
<1>2. Fits(j, GateFirst(j)[1], GateFirst(j)[2]) /\ GateFirst(j)[1] = "gate"
  BY <1>1, FitsGate
<1> QED
  BY <1>2, ReceiveStarts

(* Whatever step of such a method it is.                                 *)
LEMMA GatedMethod ==
    ASSUME NEW t \in Thread, WorkTypeOK, NEW op \in Gates, NEW writes, NEW c,
           writes = (op \in Writers),
           job[t] \in Jobs /\ job[t].op = op => Fits(job[t], "act", c),
           \/ \E j \in Sent(t, op) : Receive(t, j, GateFirst(j))
           \/ Gated(t, op, writes, c)
           \/ Done(t, op)
    PROVE  Asks(t) \/ Ends(t) \/ Refuses(t)
<1>1. CASE \E j \in Sent(t, op) : Receive(t, j, GateFirst(j))
  BY <1>1, GateFirstStarts
<1>2. CASE Gated(t, op, writes, c)
  <2>1. job[t] \in Jobs /\ job[t].op = op
    BY <1>2, AtWork DEF Gated, Back
  <2> QED
    BY <1>2, <2>1, GatedStarts
<1>3. CASE Done(t, op)
  BY <1>3, DoneEnds
<1> QED
  BY <1>1, <1>2, <1>3

(* The methods of TasksWorker.                                             *)
LEMMA TasksStep ==
    ASSUME NEW t \in Thread, WorkTypeOK,
           \/ TasksQuery(t) \/ TasksCreate(t) \/ TasksDelete(t) \/ TasksRevise(t)
           \/ GetAllTasksName(t)
    PROVE  Asks(t) \/ Ends(t) \/ Refuses(t)
<1> DEFINE j == job[t]
<1>1. /\ \A op \in TaskOps : op \in Gates /\ (op \in Writers <=> op \in TaskWrites)
      /\ "TasksQuery" \in TaskOps \ TaskWrites
      /\ "GetAllTasksName" \in TaskOps \ TaskWrites
      /\ {"TasksCreate", "TasksDelete", "TasksRevise"} \subseteq TaskOps \intersect TaskWrites
  BY DEF TaskOps, TaskWrites, Gates, Writers
<1>2. j \in Jobs =>
         /\ Fits(j, "act", TaskCall(j, "getTaskNode"))
         /\ Fits(j, "act", ListCall(j, "getAllTaskNodes"))
         /\ j.op \in TaskWrites => 
               /\ Fits(j, "act", TaskCall(j, "deleteTaskNode"))
               /\ Fits(j, "act", [TaskCall(j, "reviseTaskNode") EXCEPT !.info = j.info])
  BY FitsReads, FitsWrites
<1>3. CASE TasksQuery(t)
  <2>1. FALSE = ("TasksQuery" \in Writers)
    BY <1>1
  <2> QED
    BY <1>1, <1>2, <1>3, <2>1, GatedMethod DEF TasksQuery
<1>4. CASE GetAllTasksName(t)
  <2>1. FALSE = ("GetAllTasksName" \in Writers)
    BY <1>1
  <2> QED
    BY <1>1, <1>2, <1>4, <2>1, GatedMethod DEF GetAllTasksName
<1>5. CASE TasksDelete(t)
  <2>1. TRUE = ("TasksDelete" \in Writers)
    BY <1>1
  <2> QED
    BY <1>1, <1>2, <1>5, <2>1, GatedMethod DEF TasksDelete
<1>6. CASE TasksRevise(t)
  <2>1. TRUE = ("TasksRevise" \in Writers)
    BY <1>1
  <2> QED
    BY <1>1, <1>2, <1>6, <2>1, GatedMethod DEF TasksRevise
<1>7. CASE TasksCreate(t)
  <2>1. CASE \E k \in Sent(t, "TasksCreate") : Receive(t, k, GateFirst(k))
    BY <1>1, <2>1, GateFirstStarts
  <2>2. CASE Gated(t, "TasksCreate", TRUE, CreateTask(job[t], 0))
    <3>1. job[t] \in Jobs /\ job[t].op = "TasksCreate"
      BY <2>2, AtWork DEF Gated, Back
    <3>2. Fits(job[t], "act", CreateTask(job[t], 0))
      BY <3>1, SuffixNames, FitsWrites DEF Creates, TaskWrites
    <3> QED
      BY <1>1, <2>2, <3>2, GatedStarts
  <2>3. CASE /\ Back(t, "TasksCreate", "act")
             /\ NextName(t, CreateTask(job[t], pass[t] + 1),
                            Rename(job[t].task, pass[t]))
    <3>1. job[t] \in Jobs /\ job[t].op = "TasksCreate"
          /\ stage[t] = "act" /\ step[t] = 0
      BY <2>3, AtWork DEF Back
    <3>2. pass[t] + 1 \in Nat
      BY DEF WorkTypeOK
    <3>3. pass[t] + 1 < MaxCreates[job[t].op] =>
             Fits(job[t], "act", CreateTask(job[t], pass[t] + 1))
      BY <3>1, <3>2, SuffixNames, FitsWrites DEF Creates, TaskWrites
    <3> QED
      BY <2>3, <3>1, <3>3, NextNameStarts DEF Creates
  <2> QED
    BY <1>7, <2>1, <2>2, <2>3 DEF TasksCreate
<1> QED
  BY <1>3, <1>4, <1>5, <1>6, <1>7

(* A method that is one call, made at once.                                *)
LEMMA ActFirst ==
    ASSUME NEW t \in Thread, WorkTypeOK, NEW op,
           op \notin TaskOps \union {"ListsQuery", "ListsRevise", "ReviseGrantTaskList"},
           NEW j \in Sent(t, op), NEW c, Fits(j, "act", c),
           Receive(t, j, <<"act", c>>)
    PROVE  Asks(t) \/ Refuses(t)
<1>1. ~Foreign(j)
  BY DEF Foreign, Sent
<1> QED
  BY <1>1, ReceiveStarts

(* Two methods ask the gate only about another user's list.                *)
LEMMA ForeignMethod ==
    ASSUME NEW t \in Thread, WorkTypeOK, NEW op \in {"ListsQuery", "ListsRevise"},
           NEW j \in Sent(t, op), NEW c, Fits(j, "act", c),
           Receive(t, j, ForeignFirst(j, c))
    PROVE  Asks(t) \/ Refuses(t)
<1>1. op \in Gates /\ op # "ReviseGrantTaskList"
  BY DEF Gates
<1>2. CASE j.other # None
  <2>1. ForeignFirst(j, c) = GateFirst(j)
    BY <1>2 DEF ForeignFirst
  <2> QED
    BY <1>1, <2>1, GateFirstStarts
<1>3. CASE j.other = None
  <2>1. ForeignFirst(j, c) = <<"act", c>> /\ ~Foreign(j)
    BY <1>3 DEF ForeignFirst, Foreign
  <2> QED
    BY <1>1, <2>1, ReceiveStarts
<1> QED
  BY <1>2, <1>3

(* The methods of TaskListsWorker that are not about shares.               *)
LEMMA ListsStep ==
    ASSUME NEW t \in Thread, WorkTypeOK,
           \/ ListsQuery(t) \/ ListsCreate(t) \/ ListsDelete(t) \/ ListsRevise(t)
           \/ GetAllTasklist(t) \/ GetAllAccessTaskList(t) \/ GetAllPublicTaskList(t)
    PROVE  Asks(t) \/ Ends(t) \/ Refuses(t)
<1>1. \A op : \A j \in Sent(t, op) : j \in Jobs /\ j.op = op
  BY DEF Sent
<1>2. CASE ListsQuery(t)
  <2>1. \A j \in Jobs : Fits(j, "act", QueryList(j))
    BY FitsReads DEF QueryList
  <2>2. FALSE = ("ListsQuery" \in Writers) /\ "ListsQuery" \in Gates
    BY DEF Writers, TaskWrites, Gates
  <2>3. CASE \E j \in Sent(t, "ListsQuery") : Receive(t, j, ForeignFirst(j, QueryList(j)))
    BY <1>1, <2>1, <2>3, ForeignMethod
  <2>4. CASE \/ Gated(t, "ListsQuery", FALSE, QueryList(job[t]))
             \/ Done(t, "ListsQuery")
    BY <2>1, <2>2, <2>4, GatedMethod
  <2> QED
    BY <1>2, <2>3, <2>4 DEF ListsQuery
<1>3. CASE ListsRevise(t)
  <2>1. \A j \in Jobs : j.op = "ListsRevise" => Fits(j, "act", ReviseList(j))
    BY FitsWrites
  <2>2. TRUE = ("ListsRevise" \in Writers) /\ "ListsRevise" \in Gates
    BY DEF Writers, Gates
  <2>3. CASE \E j \in Sent(t, "ListsRevise") :
                Receive(t, j, ForeignFirst(j, ReviseList(j)))
    BY <1>1, <2>1, <2>3, ForeignMethod
  <2>4. CASE \/ Gated(t, "ListsRevise", TRUE, ReviseList(job[t]))
             \/ Done(t, "ListsRevise")
    BY <2>1, <2>2, <2>4, GatedMethod
  <2> QED
    BY <1>3, <2>3, <2>4 DEF ListsRevise
<1>4. CASE ListsCreate(t)
  <2>1. CASE \E k \in Sent(t, "ListsCreate") : Receive(t, k, <<"act", CreateList(k, 0)>>)
    <3>1. \A k \in Jobs : k.op = "ListsCreate" => Fits(k, "act", CreateList(k, 0))
      BY FitsWrites, JobFields DEF Rename
    <3> QED
      BY <1>1, <2>1, <3>1, ActFirst DEF TaskOps, TaskWrites
  <2>2. CASE /\ Back(t, "ListsCreate", "act")
             /\ NextName(t, CreateList(job[t], pass[t] + 1),
                            Rename(job[t].list, pass[t]))
    <3>1. job[t] \in Jobs /\ job[t].op = "ListsCreate"
          /\ stage[t] = "act" /\ step[t] = 0
      BY <2>2, AtWork DEF Back
    <3>2. pass[t] + 1 \in Nat
      BY DEF WorkTypeOK
    <3>3. pass[t] + 1 < MaxCreates[job[t].op] =>
             Fits(job[t], "act", CreateList(job[t], pass[t] + 1))
      BY <3>1, <3>2, SuffixNames, FitsWrites DEF Creates
    <3> QED
      BY <2>2, <3>1, <3>3, NextNameStarts DEF Creates
  <2> QED
    BY <1>4, <2>1, <2>2 DEF ListsCreate
<1>5. CASE ListsDelete(t)
  BY <1>1, <1>5, FitsWrites, ActFirst, DoneEnds DEF ListsDelete, TaskOps, TaskWrites
<1>6. CASE GetAllTasklist(t)
  BY <1>1, <1>6, FitsReads, ActFirst, DoneEnds DEF GetAllTasklist, TaskOps, TaskWrites
<1>7. CASE GetAllAccessTaskList(t)
  <2>1. ASSUME NEW k \in Sent(t, "GetAllAccessTaskList"),
               Receive(t, k, <<"act", [Blank EXCEPT !.method = "allAccess",
                                                    !.dst = k.user]>>)
        PROVE  Asks(t) \/ Refuses(t)
    <3> DEFINE c == [Blank EXCEPT !.method = "allAccess", !.dst = k.user]
    <3>1. Fits(k, "act", c)
      BY <1>1, FitsReads
    <3>2. Receive(t, k, <<"act", c>>)
      BY <2>1
    <3> HIDE DEF c
    <3> QED
      BY <3>1, <3>2, ActFirst DEF TaskOps, TaskWrites
  <2> QED
    BY <1>7, <2>1, DoneEnds DEF GetAllAccessTaskList
<1>8. CASE GetAllPublicTaskList(t)
  BY <1>1, <1>8, FitsReads, ActFirst, DoneEnds
     DEF GetAllPublicTaskList, TaskOps, TaskWrites
<1> QED
  BY <1>2, <1>3, <1>4, <1>5, <1>6, <1>7, <1>8

(* The gate of the methods about shares: the list is the user's own.       *)
LEMMA VisibilityStarts ==
    ASSUME NEW t \in Thread, WorkTypeOK, NEW op \in ShareOps,
           NEW j \in Sent(t, op), Receive(t, j, VisibilityFirst(j))
    PROVE  Asks(t) \/ Refuses(t)
<1>1. j \in Jobs /\ j.op = op
  BY DEF Sent
<1>2. Fits(j, "gate", OwnCall(j, "getTaskListNode"))
  BY <1>1, FitsVisibility
<1>3. VisibilityFirst(j)[1] = "gate"
      /\ VisibilityFirst(j)[2] = OwnCall(j, "getTaskListNode")
  BY DEF VisibilityFirst
<1> QED
  BY <1>2, <1>3, ReceiveStarts

(* The requests about shares, and the registration, name no other's list.  *)
LEMMA OwnShares ==
    ASSUME NEW j, j.op \in ShareOps \union {"Register"}
    PROVE  ~Foreign(j)
BY DEF Foreign, ShareOps, TaskOps, TaskWrites

(* The next call of a request that is about the user's own lists.          *)
LEMMA OwnCallStarts ==
    ASSUME NEW t \in Thread, WorkTypeOK, stage[t] # "idle",
           job[t].op \in ShareOps \union {"Register"},
           NEW stg \in {"user", "act"}, NEW n \in Nat, NEW c,
           Call(t, stg, n, c), Fits(job[t], stg, c),
           stg = "act" /\ job[t].op = "ReviseGrantTaskList" =>
              n \in DOMAIN job[t].share
    PROVE  Asks(t)
<1>1. ~Foreign(job[t])
  BY DEF Foreign, ShareOps, TaskOps, TaskWrites
<1> QED
  BY <1>1, CallStarts DEF Continues

(* The loop over the users to share with.                                  *)
LEMMA NextGrantStarts ==
    ASSUME NEW t \in Thread, WorkTypeOK, stage[t] # "idle", step[t] = 0,
           job[t].op = "ReviseGrantTaskList", NextGrant(t)
    PROVE  Asks(t) \/ Ends(t)
<1> DEFINE j == job[t]
           n == pass[t] + 1
<1>1. j \in Jobs /\ n \in Nat \ {0} /\ j.share \in Seq(ShareInfo)
  BY AtWork, JobFields DEF WorkTypeOK
<1>2. CASE n > Len(j.share) \/ j.share[n].user = None
  BY <1>2, TellEnds DEF NextGrant, Foreign, TaskOps, TaskWrites
<1>3. CASE ~(n > Len(j.share)) /\ j.share[n].user # None
  <2>1. n \in DOMAIN j.share /\ j.share[n] \in ShareInfo
    BY <1>1, <1>3
  <2>2. j.share[n].user \in UserKey /\ j.share[n].perm \in Perm
    BY <1>3, <2>1 DEF ShareInfo
  <2>3. Fits(j, "act", [OwnCall(j, "addAccess") EXCEPT
                           !.dst = j.share[n].user, !.perm = j.share[n].perm])
    BY <1>1, <2>2, FitsWrites
  <2>4. Call(t, "act", n, [OwnCall(j, "addAccess") EXCEPT
                              !.dst = j.share[n].user, !.perm = j.share[n].perm])
    BY <1>3 DEF NextGrant
  <2> QED
    BY <1>1, <2>1, <2>3, <2>4, OwnCallStarts DEF ShareOps
<1> QED
  BY <1>2, <1>3

(* The methods of TaskListsWorker that are about shares.                   *)
LEMMA SharesStep ==
    ASSUME NEW t \in Thread, WorkTypeOK,
           \/ GetAllGrantTaskList(t) \/ ReviseGrantTaskList(t)
           \/ RemoveGrantTaskList(t) \/ ShareDeleteUsers(t)
    PROVE  Asks(t) \/ Ends(t) \/ Refuses(t)
<1> DEFINE j == job[t]
<1>1. ASSUME NEW op, NEW stg \in {"gate", "user", "act"}, Back(t, op, stg)
      PROVE  j \in Jobs /\ j.op = op /\ stage[t] # "idle" /\ step[t] = 0
  BY <1>1, AtWork DEF Back
<1>2. CASE GetAllGrantTaskList(t)
  <2>1. CASE \E k \in Sent(t, "GetAllGrantTaskList") : Receive(t, k, VisibilityFirst(k))
    BY <2>1, VisibilityStarts DEF ShareOps
  <2>2. CASE /\ Back(t, "GetAllGrantTaskList", "gate")
             /\ \/ \E code : Tell(t, code, None)
                \/ Call(t, "act", 0, OwnCall(j, "allGrant"))
    <3>1. j \in Jobs /\ j.op \in ShareOps \ {"ReviseGrantTaskList"}
          /\ stage[t] # "idle" /\ step[t] = 0
      BY <1>1, <2>2 DEF ShareOps
    <3>2. Fits(j, "act", OwnCall(j, "allGrant"))
      BY <3>1, FitsReads
    <3> QED
      BY <2>2, <3>1, <3>2, TellEnds, OwnCallStarts, OwnShares
  <2> QED
    BY <1>2, <2>1, <2>2, DoneEnds DEF GetAllGrantTaskList
<1>3. CASE ReviseGrantTaskList(t)
  <2>1. CASE \E k \in Sent(t, "ReviseGrantTaskList") : Receive(t, k, VisibilityFirst(k))
    BY <2>1, VisibilityStarts DEF ShareOps
  <2>2. CASE /\ \E stg \in {"gate", "act"} : Back(t, "ReviseGrantTaskList", stg)
             /\ NextGrant(t) \/ \E code, note : Tell(t, code, note)
    BY <1>1, <2>2, TellEnds, NextGrantStarts, OwnShares DEF ShareOps
  <2> QED
    BY <1>3, <2>1, <2>2 DEF ReviseGrantTaskList
<1>4. CASE RemoveGrantTaskList(t)
  <2>1. CASE \E k \in Sent(t, "RemoveGrantTaskList") : Receive(t, k, VisibilityFirst(k))
    BY <2>1, VisibilityStarts DEF ShareOps
  <2>2. CASE /\ \E stg \in {"gate", "user"} : Back(t, "RemoveGrantTaskList", stg)
             /\ \E code : Tell(t, code, None)
    BY <1>1, <2>2, TellEnds, OwnShares DEF ShareOps
  <2>3. CASE /\ Back(t, "RemoveGrantTaskList", "gate")
             /\ Call(t, "user", 0, [Blank EXCEPT !.method = "getUserNode",
                                                 !.user = j.other])
    <3>1. j \in Jobs /\ j.op = "RemoveGrantTaskList" /\ stage[t] # "idle"
      BY <1>1, <2>3
    <3>2. j.other # None
      BY <3>1, JobsAssumption
    <3>3. Fits(j, "user", [Blank EXCEPT !.method = "getUserNode", !.user = j.other])
      BY <3>1, <3>2, FitsReads
    <3> QED
      BY <2>3, <3>1, <3>3, OwnCallStarts DEF ShareOps
  <2>4. CASE /\ Back(t, "RemoveGrantTaskList", "user")
             /\ Call(t, "act", 0, [OwnCall(j, "removeAccess") EXCEPT !.dst = j.other])
    <3>1. j \in Jobs /\ j.op = "RemoveGrantTaskList" /\ stage[t] # "idle"
      BY <1>1, <2>4
    <3>2. j.other \in UserKey
      BY <3>1, JobsAssumption, JobFields
    <3>3. Fits(j, "act", [OwnCall(j, "removeAccess") EXCEPT !.dst = j.other])
      BY <3>1, <3>2, FitsWrites
    <3> QED
      BY <2>4, <3>1, <3>3, OwnCallStarts DEF ShareOps
  <2> QED
    BY <1>4, <2>1, <2>2, <2>3, <2>4, DoneEnds DEF RemoveGrantTaskList
<1>5. CASE ShareDeleteUsers(t)
  BY <1>5 DEF ShareDeleteUsers, Refuses
<1> QED
  BY <1>2, <1>3, <1>4, <1>5

(* The registration of a user.                                             *)
LEMMA RegisterStep ==
    ASSUME NEW t \in Thread, WorkTypeOK, Register(t)
    PROVE  Asks(t) \/ Ends(t) \/ Refuses(t)
<1> DEFINE j == job[t]
<1>1. CASE \E k \in Sent(t, "Register") :
              Receive(t, k, <<"user", UserCall(k, "getUserNode")>>)
  <2>1. ASSUME NEW k \in Sent(t, "Register")
        PROVE  Fits(k, "user", UserCall(k, "getUserNode")) /\ ~Foreign(k)
    BY FitsReads DEF Sent, Foreign, TaskOps, TaskWrites
  <2> QED
    BY <1>1, <2>1, ReceiveStarts
<1>2. CASE /\ Back(t, "Register", "user")
           /\ \/ Tell(t, "ERR_DUP_NODE", None)
              \/ Call(t, "act", 0, [UserCall(j, "createUserNode") EXCEPT !.info = j.info])
  <2>1. j \in Jobs /\ j.op = "Register" /\ stage[t] # "idle" /\ step[t] = 0
    BY <1>2, AtWork DEF Back
  <2>2. Fits(j, "act", [UserCall(j, "createUserNode") EXCEPT !.info = j.info])
    BY <2>1, FitsWrites
  <2> QED
    BY <1>2, <2>1, <2>2, TellEnds, OwnCallStarts, OwnShares
<1> QED
  BY <1>1, <1>2, DoneEnds DEF Register

(* Every step of a handler is one of the three.                          *)
LEMMA HandleStep ==
    ASSUME NEW t \in Thread, WorkTypeOK, Handle(t)
    PROVE  Asks(t) \/ Ends(t) \/ Refuses(t)
BY TasksStep, ListsStep, SharesStep, RegisterStep DEF Handle

-----------------------------------------------------------------------------
(* Every state a request goes through is well typed.                       *)
THEOREM WorkTypeCorrect == WorkersSpec => []WorkTypeOK
<1>1. WorkersInit => WorkTypeOK
  BY DEF WorkersInit, WorkTypeOK, Stage
<1>2. ASSUME WorkTypeOK, [WorkersNext]_workerVars PROVE WorkTypeOK'
  <2>1. NoJob \notin Jobs
    BY JobsAssumption DEF NoJob, Job, Op, TaskOps, TaskWrites, ListOps, ShareOps
  <2>2. ASSUME NEW t \in Thread, Handle(t) PROVE WorkTypeOK'
    <3>1. CASE Asks(t)
      BY <1>2, <2>1, <3>1 DEF Asks, Starts, Moved, WorkTypeOK
    <3>2. CASE Ends(t)
      BY <1>2, <2>1, <3>2 DEF Ends, Moved, WorkTypeOK, Stage
    <3>3. CASE Refuses(t)
      BY <1>2, <3>3 DEF Refuses, WorkTypeOK
    <3> QED
      BY <1>2, <2>2, <3>1, <3>2, <3>3, HandleStep
  <2>3. CASE UNCHANGED work
    BY <1>2, <2>3 DEF work, WorkTypeOK
  <2>4. CASE Die
    BY <2>4 DEF Die, WorkTypeOK, Stage
  <2> QED
    BY <1>2, <2>2, <2>3, <2>4 DEF WorkersNext, workerVars, work
<1> QED
  BY <1>1, <1>2, PTL DEF WorkersSpec

(* The workers, the handlers and the registration of users use DB as its   *)
(* specification says: what is proved of DB, for any sequence of calls,    *)
(* holds of the program.                                                   *)
THEOREM WorkersUseDB == WorkersSpec => Spec
<1>1. WorkersInit => Init
  BY DEF WorkersInit
<1>2. WorkTypeOK /\ [WorkersNext]_workerVars => [Next]_vars
  <2> SUFFICES ASSUME WorkTypeOK, [WorkersNext]_workerVars PROVE [Next]_vars
    OBVIOUS
  <2>1. ASSUME NEW t \in Thread, Handle(t) PROVE [Next]_vars
    <3>1. CASE Asks(t)
      BY <3>1 DEF Asks, Starts, Next
    <3>2. CASE Ends(t) \/ Refuses(t)
      BY <3>2 DEF Ends, Refuses
    <3> QED
      BY <2>1, <3>1, <3>2, HandleStep
  <2>2. ASSUME NEW t \in Thread, Query(t) \/ QueryFails(t) PROVE [Next]_vars
    BY <2>2 DEF Next
  <2>3. CASE Die
    BY <2>3 DEF Die, Next
  <2>4. CASE UNCHANGED workerVars
    BY <2>4 DEF workerVars
  <2> QED
    BY <2>1, <2>2, <2>3, <2>4 DEF WorkersNext
<1> QED
  BY <1>1, <1>2, WorkTypeCorrect, PTL DEF WorkersSpec, Spec

(* The history variable takes no step of its own.                          *)
THEOREM AuditKeepsWorkers == AuditSpec => WorkersSpec
<1>1. AuditInit => WorkersInit
  BY DEF AuditInit
<1>2. [AuditNext]_auditVars => [WorkersNext]_workerVars
  BY DEF AuditNext, auditVars, WorkersNext
<1> QED
  BY <1>1, <1>2, PTL DEF AuditSpec, WorkersSpec

-----------------------------------------------------------------------------
(* Who changes what, and who reads what.                                   *)

(* The invariant.  The call in progress is one of the request's, and a     *)
(* request about another user's list has seen what its stage rests on: at  *)
(* the last query of checkAccess that the list is shared, with the result  *)
(* of checkAccess a permission or a public list, and so while it acts.     *)
Opened(t) == Allowed(t, "read") \/ Allowed(t, "write")

Gating(t) ==
    /\ step[t] = 4 => <<"open", "shared">> \in seen[t]
    /\ step[t] = 0 => ret[t] \in Code
    /\ step[t] = 0 /\ ret[t] = "SUCCESS" =>
          /\ Opened(t)
          /\ out[t] = {<<"write">>} => Allowed(t, "write")

Grounded(t) ==
    /\ stage[t] \in {"gate", "act"}
    /\ stage[t] = "gate" => Gating(t)
    /\ stage[t] = "act"  => /\ Opened(t)
                            /\ job[t].op \in Writers => Allowed(t, "write")

Sound(t) ==
    /\ job[t] = NoJob => step[t] = 0
    /\ job[t] # NoJob => /\ Fault(job[t]) = None
                         /\ step[t] # 0 => Fits(job[t], stage[t], call[t])
                         /\ Foreign(job[t]) => Grounded(t)

AuditInv == DOMAIN seen = Thread /\ \A t \in Thread : Sound(t)

(* What a request has seen it keeps, and it sees how its list stands.      *)
LEMMA SeenGrows ==
    ASSUME NEW t \in Thread, Observe, job'[t] = job[t], job[t] # NoJob
    PROVE  seen[t] \union Grounds(job[t])' \subseteq seen'[t]
BY DEF Observe, Facts

(* A ground once seen stays.                                             *)
LEMMA AllowedStays ==
    ASSUME NEW t \in Thread, Observe, job'[t] = job[t], job[t] # NoJob
    PROVE  \A p : Allowed(t, p) => Allowed(t, p)'
BY SeenGrows DEF Allowed

(* A thread that does not take the step.                                   *)
LEMMA OthersSound ==
    ASSUME NEW t \in Thread, Sound(t), Observe,
           job'[t] = job[t], stage'[t] = stage[t], call'[t] = call[t],
           step'[t] = step[t], ret'[t] = ret[t], out'[t] = out[t]
    PROVE  Sound(t)'
<1>1. CASE job[t] = NoJob
  BY <1>1 DEF Sound
<1>2. CASE job[t] # NoJob
  <2>1. /\ \A p : Allowed(t, p) => Allowed(t, p)'
        /\ seen[t] \subseteq seen'[t]
    BY <1>2, AllowedStays, SeenGrows
  <2>2. Foreign(job[t]) => Grounded(t)'
    BY <1>2, <2>1 DEF Sound, Grounded, Gating, Opened
  <2>3. Fits(job[t], stage[t], call[t]) <=> Fits(job'[t], stage'[t], call'[t])
    OBVIOUS
  <2> QED
    BY <1>2, <2>2, <2>3 DEF Sound
<1> QED
  BY <1>1, <1>2

(* It returns a code.                                                      *)
LEMMA GateReply ==
    ASSUME NEW t \in Thread, TypeOK, checkAccess(t), step'[t] = 0
    PROVE  ret'[t] \in Code
<1>1. (\E code \in Code : \E rows : Reply(t, code, rows)) \/ Advance(t)
  BY DEF checkAccess, MustExist, Return, Code
<1> QED
  BY <1>1 DEF Reply, Advance, TypeOK, CallTypeOK

(* Each query of checkAccess shows the request the ground it goes on.      *)
LEMMA GateQuery ==
    ASSUME NEW t \in Thread, TypeOK, Sound(t), job[t] # NoJob, Foreign(job[t]),
           stage[t] = "gate", Query(t), UNCHANGED work, Observe
    PROVE  Gating(t)'
<1> DEFINE j == job[t]
           c == call[t]
           l == <<j.other, j.list>>
<1>1. step[t] # 0 /\ step[t] \in 0..4
  BY QueryProgress DEF TypeOK, CallTypeOK
<1>2. c.method = "checkAccess" /\ c.user = j.other /\ c.dst = j.user /\ c.list = j.list
  BY <1>1 DEF Sound, Fits
<1>3. checkAccess(t)
  BY <1>2, QueryOf
<1>3a. step'[t] = 0 => ret'[t] \in Code
  BY <1>3, GateReply
<1>4. /\ job'[t] = j /\ UNCHANGED job
      /\ seen[t] \union Grounds(j)' \subseteq seen'[t]
  BY SeenGrows DEF work
<1>5. Key(c) = l /\ l \in ListKey
  BY <1>2, CallFields DEF TypeOK, Request, Key, ListKey
<1>6. VisibilityOf(l) \in Visibility \union {None}
  BY <1>5 DEF VisibilityOf, TypeOK, GraphTypeOK, ListNode
<1>7. UNCHANGED graph
  BY <1>3 DEF checkAccess, MustExist
<1>8. /\ \A v \in {"shared", "public"} : VisibilityOf(l) = v => <<"open", v>> \in seen'[t]
      /\ \A p \in Granted(j.user, l) : <<"may", p>> \in seen'[t]
  <2>1. /\ VisibilityOf(l)' = VisibilityOf(l)
        /\ Granted(j.user, l) = {p \in Perm : <<j.user, l, p>> \in access'}
    BY <1>4, <1>7 DEF graph, VisibilityOf, Granted
  <2>2. Grounds(j)' =
           {<<"open", v>> : v \in {VisibilityOf(l)} \intersect {"shared", "public"}}
           \union {<<"may", p>> : p \in {p \in Perm : <<j.user, l, p>> \in access'}}
    BY <1>4, <2>1 DEF Grounds, Foreign
  <2> QED
    BY <1>4, <2>1, <2>2
<1>9. CASE At(t, "checkAccess", 1) \/ At(t, "checkAccess", 2)
  BY <1>3a, <1>1, <1>3, <1>9 DEF checkAccess, At, MustExist, Return, Reply, Advance, Gating,
                          TypeOK, CallTypeOK
<1>10. CASE At(t, "checkAccess", 3)
  <2>1. CASE VisibilityOf(l) \in {None, "private"}
    <3>1. ret'[t] # "SUCCESS" /\ step'[t] = 0
      BY <1>3, <1>5, <1>10, <2>1, NoneAssumption
         DEF checkAccess, At, Return, Reply, TypeOK, CallTypeOK, Visibility
    <3> QED
      BY <1>3a, <3>1 DEF Gating
  <2>2. CASE VisibilityOf(l) = "public"
    <3>1. Allowed(t, "read")' /\ Allowed(t, "write")'
      BY <1>8, <2>2 DEF Allowed
    <3>2. step'[t] = 0
      BY <1>3, <1>5, <1>10, <2>2, NoneAssumption
         DEF checkAccess, At, Reply, TypeOK, CallTypeOK, Visibility
    <3> QED
      BY <1>3a, <3>1, <3>2 DEF Gating, Opened
  <2>3. CASE VisibilityOf(l) = "shared"
    <3>1. step'[t] = 4
      BY <1>3, <1>5, <1>10, <2>3, NoneAssumption
         DEF checkAccess, At, Advance, TypeOK, CallTypeOK, Visibility
    <3> QED
      BY <1>3a, <1>8, <2>3, <3>1 DEF Gating
  <2> QED
    BY <1>6, <2>1, <2>2, <2>3 DEF Visibility
<1>11. CASE At(t, "checkAccess", 4)
  <2>1. <<"open", "shared">> \in seen'[t]
    BY <1>4, <1>11 DEF Sound, Grounded, Gating, At
  <2>2. \A p \in Granted(j.user, l) : Allowed(t, p)'
    BY <1>8, <2>1 DEF Allowed
  <2>3. step'[t] = 0
    BY <1>3, <1>11 DEF checkAccess, At, Return, Reply, TypeOK, CallTypeOK
  <2>4. CASE Granted(j.user, l) = {}
    BY <1>3a, <1>2, <1>3, <1>5, <1>11, <2>3, <2>4
       DEF checkAccess, At, Return, Reply, Gating, TypeOK, CallTypeOK
  <2>5. CASE Granted(j.user, l) # {}
    <3>1. out'[t] = Row(Granted(j.user, l))
      BY <1>2, <1>3, <1>5, <1>11, <2>5
         DEF checkAccess, At, Reply, TypeOK, CallTypeOK
    <3>2. Granted(j.user, l) \subseteq {"read", "write"}
      BY DEF Granted, Perm
    <3>3. ASSUME out'[t] = {<<"write">>} PROVE "write" \in Granted(j.user, l)
      <4>1. PICK p \in Granted(j.user, l) : TRUE
        BY <2>5
      <4>2. <<p>> \in {<<"write">>}
        BY <3>1, <3>3, <4>1 DEF Row
      <4> QED
        BY <4>1, <4>2
    <3> QED
      BY <1>3a, <2>2, <2>3, <2>5, <3>2, <3>3 DEF Gating, Opened
  <2> QED
    BY <2>4, <2>5
<1> QED
  BY <1>3, <1>9, <1>10, <1>11 DEF checkAccess

(* The thread that takes the step: a query ...                             *)
LEMMA QuerySound ==
    ASSUME NEW t \in Thread, TypeOK, WorkTypeOK, Sound(t), UNCHANGED work, Observe,
           Query(t) \/ QueryFails(t)
    PROVE  Sound(t)'
<1>1. /\ job' = job /\ stage' = stage /\ step[t] # 0
      /\ step'[t] = 0 \/ call'[t] = call[t]
  BY QueryApart, FailsApart DEF work, QueryFails
<1>2. job[t] # NoJob
  BY <1>1 DEF Sound
<1>3. Fault(job[t])' = None
  BY <1>1, <1>2 DEF Sound
<1>4. step'[t] # 0 => Fits(job[t], stage[t], call[t])'
  BY <1>1, <1>2 DEF Sound
<1>5. ASSUME Foreign(job[t]) PROVE Grounded(t)'
  <2>1. \A p : Allowed(t, p) => Allowed(t, p)'
    BY <1>1, <1>2, AllowedStays
  <2>2. CASE stage[t] = "act"
    BY <1>1, <1>2, <1>5, <2>1, <2>2 DEF Sound, Grounded, Opened
  <2>3. CASE stage[t] = "gate" /\ Query(t)
    BY <1>1, <1>2, <1>5, <2>3, GateQuery DEF Grounded
  <2>4. CASE stage[t] = "gate" /\ QueryFails(t)
    BY <1>1, <2>4, FailsApart DEF Grounded, Gating, Code
  <2> QED
    BY <1>2, <1>5, <2>2, <2>3, <2>4 DEF Sound, Grounded
<1> QED
  BY <1>1, <1>2, <1>3, <1>4, <1>5 DEF Sound

(* What it takes to pass a gate.                                           *)
LEMMA RefusalNone ==
    ASSUME NEW t \in Thread, NEW writes, job[t].other # None, ret[t] \in Code,
           Refusal(t, writes) = None
    PROVE  ret[t] = "SUCCESS" /\ (writes => out[t] = {<<"write">>})
<1>1. ret[t] = "SUCCESS"
  BY NoneAssumption DEF Refusal
<1>2. "ERR_ACCESS" # None
  BY NoneAssumption DEF Code
<1> QED
  BY <1>1, <1>2 DEF Refusal

(* ... a call of a request ...                                             *)
LEMMA AsksSound ==
    ASSUME NEW t \in Thread, TypeOK, WorkTypeOK, Sound(t), Asks(t), Observe
    PROVE  Sound(t)'
<1>1. PICK j \in Jobs, stg \in Stage \ {"idle"}, n \in Nat, c \in Requests :
         Starts(t, j, stg, n, c)
  BY DEF Asks
<1>1a. j # NoJob
  BY JobsAssumption DEF NoJob, Job, Op, TaskOps, TaskWrites, ListOps, ShareOps
<1>2. /\ job'[t] = j /\ stage'[t] = stg /\ j # NoJob
      /\ Begin(t, c) /\ Fits(j, stg, c)
  BY <1>1, <1>1a DEF Starts, Moved, WorkTypeOK
<1>3. step'[t] = 0 \/ (step'[t] = 1 /\ call'[t] = c)
  BY <1>2, BeginApart
<1>4. Fault(j) = None
  BY <1>1, <1>2 DEF Starts, Opens, Continues, Sound
<1>5. ASSUME Foreign(j) PROVE Grounded(t)'
  <2>1. CASE stg = "gate"
    <3>1. c.method = "checkAccess" /\ c.user # c.dst
      BY <1>2, <1>5, <2>1 DEF Fits, Foreign
    <3>2. step'[t] = 1
      BY <1>2, <3>1 DEF Begin, ArgumentError, TypeOK, CallTypeOK
    <3> QED
      BY <1>2, <2>1, <3>2 DEF Grounded, Gating
  <2>2. CASE stg # "gate"
    <3>1. /\ stage[t] # "idle" /\ job[t] = j /\ stg = "act"
          /\ \/ stage[t] = "act"
             \/ stage[t] = "gate" /\ Refusal(t, j.op \in Writers) = None
      BY <1>1, <1>5, <2>2 DEF Starts, Opens, Continues
    <3>2. \A p : Allowed(t, p) => Allowed(t, p)'
      BY <1>2, <3>1, AllowedStays
    <3>3. Grounded(t)
      BY <1>2, <1>5, <3>1 DEF Sound
    <3>4. Opened(t) /\ (j.op \in Writers => Allowed(t, "write"))
      <4>1. CASE stage[t] = "act"
        BY <3>1, <3>3, <4>1 DEF Grounded
      <4>2. CASE stage[t] = "gate" /\ Refusal(t, j.op \in Writers) = None
        <5>1. j.other # None /\ step[t] = 0
          BY <1>2, <1>5 DEF Foreign, Begin
        <5>2. ret[t] \in Code
          BY <3>3, <4>2, <5>1 DEF Grounded, Gating
        <5>3. /\ ret[t] = "SUCCESS"
              /\ j.op \in Writers => out[t] = {<<"write">>}
          BY <3>1, <4>2, <5>1, <5>2, RefusalNone
        <5> QED
          BY <3>3, <4>2, <5>1, <5>3 DEF Grounded, Gating
      <4> QED
        BY <3>1, <4>1, <4>2
    <3> QED
      BY <1>2, <3>1, <3>2, <3>4 DEF Grounded, Opened
  <2> QED
    BY <2>1, <2>2
<1> QED
  BY <1>2, <1>3, <1>4, <1>5 DEF Sound

(* ... and an answer.                                                      *)
LEMMA EndsSound ==
    ASSUME NEW t \in Thread, WorkTypeOK, Sound(t), Observe, Ends(t) \/ Refuses(t)
    PROVE  Sound(t)'
<1>1. CASE Ends(t)
  <2>1. job'[t] = NoJob /\ step'[t] = 0
    BY <1>1 DEF Ends, Moved, WorkTypeOK, vars
  <2> QED
    BY <2>1 DEF Sound
<1>2. CASE Refuses(t)
  BY <1>2, OthersSound DEF Refuses, vars
<1> QED
  BY <1>1, <1>2

(* So the invariant holds in every state.                                  *)
LEMMA NextSound ==
    ASSUME TypeOK, WorkTypeOK, AuditInv, AuditNext
    PROVE  AuditInv'
<1>1. DOMAIN seen' = Thread /\ Observe
  BY DEF AuditNext, Observe
<1>2. ASSUME NEW t \in Thread, Sound(t)',
             \A s \in Thread \ {t} : job'[s] = job[s] /\ stage'[s] = stage[s],
             Apart(t)
      PROVE  AuditInv'
  BY <1>1, <1>2, OthersSound DEF AuditInv, Apart
<1>3. ASSUME NEW t \in Thread, Handle(t) PROVE AuditInv'
  <2>1. CASE Asks(t)
    <3>1. Apart(t)
      BY <2>1, BeginApart DEF Asks, Starts
    <3>2. \A s \in Thread \ {t} : job'[s] = job[s] /\ stage'[s] = stage[s]
      BY <2>1 DEF Asks, Starts, Moved, WorkTypeOK
    <3> QED
      BY <1>1, <1>2, <2>1, <3>1, <3>2, AsksSound DEF AuditInv
  <2>2. CASE Ends(t) \/ Refuses(t)
    <3>1. Apart(t)
      BY <2>2 DEF Ends, Refuses, vars, Apart
    <3>2. \A s \in Thread \ {t} : job'[s] = job[s] /\ stage'[s] = stage[s]
      BY <2>2 DEF Ends, Refuses, Moved, WorkTypeOK
    <3> QED
      BY <1>1, <1>2, <2>2, <3>1, <3>2, EndsSound DEF AuditInv
  <2> QED
    BY <1>3, <2>1, <2>2, HandleStep
<1>4. ASSUME NEW t \in Thread, Query(t) \/ QueryFails(t), UNCHANGED work
      PROVE  AuditInv'
  <2>1. Apart(t)
    BY <1>4, QueryApart, FailsApart
  <2>2. Sound(t)'
    BY <1>1, <1>4, QuerySound DEF AuditInv
  <2> QED
    BY <1>2, <1>4, <2>1, <2>2 DEF work
<1>5. CASE Die
  BY <1>1, <1>5 DEF Die, Crash, AuditInv, Sound
<1> QED
  BY <1>3, <1>4, <1>5 DEF AuditNext

(* What is known of the states of the program, from here on.               *)
Known == TypeOK /\ GraphIntegrity /\ WorkTypeOK /\ AuditInv

(* All of it holds in every state.                                       *)
LEMMA AllKnown == AuditSpec => []Known
<1>1. AuditInit => AuditInv
  BY DEF AuditInit, WorkersInit, Init, AuditInv, Sound
<1>2. TypeOK /\ WorkTypeOK /\ AuditInv /\ [AuditNext]_auditVars => AuditInv'
  <2> SUFFICES ASSUME TypeOK, WorkTypeOK, AuditInv, [AuditNext]_auditVars
               PROVE  AuditInv'
    OBVIOUS
  <2>1. CASE UNCHANGED auditVars
    BY <2>1 DEF auditVars, workerVars, vars, work, AuditInv, Sound, Grounded, Gating,
                Opened, Allowed
  <2> QED
    BY <2>1, NextSound
<1>3. Known <=> TypeOK /\ GraphIntegrity /\ WorkTypeOK /\ AuditInv
  BY DEF Known
<1> QED
  BY <1>1, <1>2, <1>3, AuditKeepsWorkers, WorkTypeCorrect, WorkersUseDB, TypeCorrect,
     Integrity, PTL DEF AuditSpec

-----------------------------------------------------------------------------
(* Only queries change the graph.                                          *)
LEMMA MoveIsQuery ==
    ASSUME TypeOK, WorkTypeOK, [AuditNext]_auditVars, NEW t \in Thread, Moves(t)
    PROVE  Query(t) /\ UNCHANGED work
<1>1. ASSUME NEW s \in Thread, Handle(s) PROVE FALSE
  <2>1. UNCHANGED graph
    BY <1>1, HandleStep DEF Asks, Starts, Begin, Ends, Refuses, vars, graph
  <2> QED
    BY <2>1 DEF Moves
<1>2. ASSUME NEW s \in Thread, Query(s), UNCHANGED work PROVE s = t
  BY <1>2, QueryApart DEF Apart, Moves
<1>3. ASSUME NEW s \in Thread, QueryFails(s) PROVE FALSE
  BY <1>3 DEF QueryFails, Moves
<1>4. ~Die
  BY DEF Die, Crash, Moves
<1>5. ~UNCHANGED auditVars
  BY DEF auditVars, workerVars, vars, Moves
<1> QED
  BY <1>1, <1>2, <1>3, <1>4, <1>5 DEF AuditNext

(* What the methods that write may touch.                                  *)
LEMMA TaskChange ==
    ASSUME NEW t \in Thread, TypeOK,
           createTaskNode(t) \/ reviseTaskNode(t) \/ deleteTaskNode(t)
    PROVE  /\ list' = list /\ access' = access
           /\ \A k \in TaskKey : task'[k] # task[k] => k = KeyTask(call[t])
<1> USE DEF TypeOK, GraphTypeOK
<1>1. CASE createTaskNode(t)
  BY <1>1 DEF createTaskNode, MustExist, Duplicate, MergeContains, graph, nodes, edges
<1>2. CASE reviseTaskNode(t)
  BY <1>2 DEF reviseTaskNode, graph, edges
<1>3. CASE deleteTaskNode(t)
  BY <1>3 DEF deleteTaskNode, DetachTasks
<1> QED
  BY <1>1, <1>2, <1>3

(* A create or a revise of a list changes that list only.                *)
LEMMA ListChange ==
    ASSUME NEW t \in Thread, TypeOK, createTaskListNode(t) \/ reviseTaskListNode(t)
    PROVE  /\ task' = task /\ access' = access
           /\ \A l \in ListKey : list'[l] # list[l] => l = Key(call[t])
<1> USE DEF TypeOK, GraphTypeOK
<1>1. CASE createTaskListNode(t)
  BY <1>1 DEF createTaskListNode, MustExist, Duplicate, MergeOwns, graph, nodes, edges
<1>2. CASE reviseTaskListNode(t)
  BY <1>2 DEF reviseTaskListNode, graph, edges
<1> QED
  BY <1>1, <1>2

(* A revise without a visibility keeps it.                               *)
LEMMA ReviseKeepsVisibility ==
    ASSUME NEW t \in Thread, TypeOK, reviseTaskListNode(t),
           "visibility" \notin call[t].info.fields
    PROVE  \A l \in ListKey : VisibilityOf(l)' = VisibilityOf(l)
BY NoneAssumption, NodesExist
   DEF TypeOK, GraphTypeOK, ListNode, reviseTaskListNode, VisibilityOf, SetField, graph

(* A delete of a list changes what hangs on the list.                    *)
LEMMA DeleteChange ==
    ASSUME NEW t \in Thread, TypeOK, GraphIntegrity, deleteTaskListNode(t)
    PROVE  LET l == Key(call[t]) IN
           /\ \A k \in TaskKey : task'[k] # task[k] => <<k[1], k[2]>> = l
           /\ \A m \in ListKey : list'[m] # list[m] => m = l
           /\ access' \subseteq access
           /\ \A e \in access \ access' : e[2] = l
<1> DEFINE l == Key(call[t])
<1>1. \A k \in Contained({l}) : <<k[1], k[2]>> = l
  BY DEF GraphIntegrity, Contained
<1>2. CASE DetachTasks(Contained({l}))
  BY <1>1, <1>2 DEF DetachTasks, TypeOK, GraphTypeOK
<1>3. CASE DetachLists({l})
  BY <1>3 DEF DetachLists, TypeOK, GraphTypeOK
<1> QED
  BY <1>2, <1>3 DEF deleteTaskListNode

(* The permissions that change are those on the list.                    *)
LEMMA AccessChange ==
    ASSUME NEW t \in Thread, TypeOK, addAccess(t) \/ removeAccess(t)
    PROVE  /\ list' = list /\ task' = task
           /\ \A e \in (access \ access') \union (access' \ access) :
                 e[2] = Key(call[t])
<1>1. CASE addAccess(t)
  BY <1>1 DEF addAccess, MustExist, MergeAccess, graph, nodes
<1>2. CASE removeAccess(t)
  BY <1>2 DEF removeAccess, nodes
<1> QED
  BY <1>1, <1>2

(* The visibility of another user's list cannot be asked for.              *)
LEMMA FaultVisibility ==
    ASSUME NEW j \in Jobs, Fault(j) = None, j.op = "ListsRevise", j.other # None
    PROVE  "visibility" \notin j.info.fields
BY NoFaultAssumption, NoneAssumption DEF Fault, Creates, Code

(* A query of a request changes its user's own lists, or the list of the   *)
(* request, with a ground for it.                                          *)
LEMMA MoveHasGround ==
    ASSUME Known, NEW t \in Thread, Query(t), UNCHANGED work, graph' # graph
    PROVE  ChangeHasGround(t)
<1> DEFINE j == job[t]
           c == call[t]
           l == Key(c)
<1>1. /\ j \in Jobs /\ stage[t] # "idle" /\ Fault(j) = None
      /\ Fits(j, stage[t], c)
      /\ Foreign(j) => Grounded(t)
  <2>1. step[t] # 0
    BY QueryProgress
  <2> QED
    BY <2>1 DEF Known, AuditInv, Sound, WorkTypeOK
<1>2. TypeOK /\ GraphIntegrity
  BY DEF Known
<1>3. ~Reads(t)
  BY ReadsKeepGraph
<1>4. ~checkAccess(t)
  BY DEF checkAccess, MustExist
<1>5. stage[t] = "act"
  <2>1. stage[t] \in Stage
    BY DEF Known, WorkTypeOK
  <2>2. c.method \notin {"checkAccess", "getTaskListNode", "getUserNode"}
    BY <1>3, <1>4, QueryOf
  <2> QED
    BY <1>1, <2>1, <2>2 DEF Fits, Stage
<1>6. Foreign(j) /\ j.op \in Writers => Allowed(t, "write")
  BY <1>1, <1>5 DEF Grounded
<1>7. \A o : j.op \in Writers /\ o = <<Owner(j), j.list>> =>
         \/ o[1] = j.user
         \/ Foreign(j) /\ o = <<j.other, j.list>> /\ Allowed(t, "write")
  BY <1>6 DEF Owner, Foreign, Writers, TaskOps
<1>8. \/ createTaskNode(t) \/ reviseTaskNode(t) \/ deleteTaskNode(t)
      \/ createTaskListNode(t) \/ reviseTaskListNode(t) \/ deleteTaskListNode(t)
      \/ addAccess(t) \/ removeAccess(t) \/ createUserNode(t)
  BY <1>1, <1>3, <1>4, QueryOf DEF Fits, Called
<1>9. CASE createTaskNode(t) \/ reviseTaskNode(t) \/ deleteTaskNode(t)
  <2>1. c.method \in TaskWriters
    BY <1>9 DEF TaskWriters, createTaskNode, reviseTaskNode, deleteTaskNode, At
  <2>2. j.op \in Writers /\ <<c.user, c.list>> = <<Owner(j), j.list>>
    BY <1>1, <1>5, <2>1 DEF Fits, Writers
  <2>3. \A k \in TaskKey : task'[k] # task[k] =>
           <<k[1], k[2]>> = <<Owner(j), j.list>>
    BY <1>2, <1>9, <2>2, TaskChange DEF KeyTask
  <2>4. list' = list /\ access' = access
    BY <1>2, <1>9, TaskChange
  <2> QED
    BY <1>7, <2>2, <2>3, <2>4 DEF ChangeHasGround
<1>10. CASE reviseTaskListNode(t)
  <2>1. c.method = "reviseTaskListNode"
    BY <1>10 DEF reviseTaskListNode, At
  <2>2. /\ j.op = "ListsRevise" /\ c.info = j.info
        /\ <<c.user, c.list>> = <<Owner(j), j.list>>
    BY <1>1, <1>5, <2>1 DEF Fits
  <2>3. /\ task' = task /\ access' = access
        /\ \A m \in ListKey : list'[m] # list[m] => m = <<Owner(j), j.list>>
    BY <1>2, <1>10, <2>2, ListChange DEF Key
  <2>4. Foreign(j) => \A m \in ListKey : VisibilityOf(m)' = VisibilityOf(m)
    <3>1. ASSUME Foreign(j) PROVE "visibility" \notin c.info.fields
      BY <1>1, <2>2, <3>1, NoneAssumption, FaultVisibility DEF Foreign
    <3> QED
      BY <1>2, <1>10, <3>1, ReviseKeepsVisibility
  <2> QED
    BY <1>7, <2>2, <2>3, <2>4 DEF ChangeHasGround, Writers
<1>11. CASE \/ createTaskListNode(t) \/ deleteTaskListNode(t)
            \/ addAccess(t) \/ removeAccess(t)
  <2>1. c.method \in {"createTaskListNode", "deleteTaskListNode",
                      "addAccess", "removeAccess"}
    BY <1>11 DEF createTaskListNode, deleteTaskListNode, addAccess, removeAccess, At
  <2>2. l[1] = j.user
    BY <1>1, <1>5, <2>1 DEF Fits, Key
  <2>3. /\ \A m \in ListKey : list'[m] # list[m] => m = l
        /\ \A k \in TaskKey : task'[k] # task[k] => <<k[1], k[2]>> = l
        /\ \A e \in (access \ access') \union (access' \ access) : e[2] = l
    <3>1. CASE createTaskListNode(t)
      BY <1>2, <3>1, ListChange
    <3>2. CASE deleteTaskListNode(t)
      BY <1>2, <3>2, DeleteChange
    <3>3. CASE addAccess(t) \/ removeAccess(t)
      BY <1>2, <3>3, AccessChange
    <3> QED
      BY <1>11, <3>1, <3>2, <3>3
  <2> QED
    BY <2>2, <2>3 DEF ChangeHasGround
<1>12. CASE createUserNode(t)
  <2>1. list' = list /\ task' = task /\ access' = access
    BY <1>12 DEF createUserNode, Duplicate, graph, edges
  <2> QED
    BY <2>1 DEF ChangeHasGround
<1> QED
  BY <1>8, <1>9, <1>10, <1>11, <1>12

(* Whatever the threads, the failures and the crashes do between the gate  *)
(* of a request and its last call, it changes only lists of its user, and  *)
(* lists that at some instant of it were public, or shared at one and      *)
(* permitted to the user for writing at one.                               *)
THEOREM OnlyPermittedChanges == AuditSpec => ChangesHadGround
<1>1. Known /\ [AuditNext]_auditVars => \A t \in Thread : ChangeHasGround(t)
  <2> SUFFICES ASSUME Known, [AuditNext]_auditVars, NEW t \in Thread
               PROVE  ChangeHasGround(t)
    OBVIOUS
  <2>1. CASE Moves(t)
    BY <2>1, MoveIsQuery, MoveHasGround DEF Known, Moves
  <2>2. CASE ~Moves(t)
    BY <2>2 DEF ChangeHasGround
  <2> QED
    BY <2>1, <2>2
<1> QED
  BY <1>1, AllKnown, PTL DEF AuditSpec, ChangesHadGround

(* And it tells nothing of another user's list unless that was public at   *)
(* some instant of it, or shared at one and permitted to the user at one.  *)
THEOREM OnlyPermittedReads == AuditSpec => ReadsHadGround
<1>1. Known /\ [AuditNext]_auditVars => \A t \in Thread : ReadHasGround(t)
  <2> SUFFICES ASSUME Known, [AuditNext]_auditVars, NEW t \in Thread,
                      job[t] # NoJob, job'[t] = NoJob, Foreign(job[t]),
                      answer'[t][1] = "SUCCESS"
               PROVE  Opened(t)
    BY DEF ReadHasGround, Answers, Opened
  <2>1. Grounded(t)
    BY DEF Known, AuditInv, Sound
  <2>2. ASSUME NEW s \in Thread, Handle(s) PROVE stage[t] = "act"
    <3>1. WorkTypeOK /\ NoJob \notin Jobs
      BY JobsAssumption DEF Known, NoJob, Job, Op, TaskOps, TaskWrites, ListOps, ShareOps
    <3>2. Ends(s) /\ s = t
      <4>1. ~Refuses(s)
        BY DEF Refuses
      <4>2. ~Asks(s)
        BY <3>1 DEF Asks, Starts, Moved, WorkTypeOK
      <4> QED
        BY <2>2, <3>1, <4>1, <4>2, HandleStep DEF Ends, Moved, WorkTypeOK
    <3> QED
      BY <2>1, <3>2 DEF Ends, Grounded
  <2>3. ~Die
    BY NoneAssumption DEF Die, Code
  <2>4. job' # job
    OBVIOUS
  <2>5. stage[t] = "act"
    BY <2>2, <2>3, <2>4 DEF AuditNext, work, auditVars, workerVars
  <2> QED
    BY <2>1, <2>5 DEF Grounded
<1> QED
  BY <1>1, AllKnown, PTL DEF AuditSpec, ReadsHadGround
=============================================================================
