------------------------------- MODULE Workers -------------------------------
(***************************************************************************)
(* TaskListsWorker and TasksWorker over the DB object, with the handlers   *)
(* that call them and the registration of users.  A worker keeps no state: *)
(* a request is a thread that runs one worker method, and a method is a    *)
(* short program of DB calls, most of them a gate (may the user do this?)  *)
(* followed by an act.  Between two calls, as between two queries of one   *)
(* call, the other threads run.                                            *)
(*                                                                         *)
(* job[t] is the request thread t works on, stage[t] the DB call whose     *)
(* result it waits for, pass[t] how often its loop has run, and answer[t]  *)
(* what the request was told until the next one comes.                     *)
(*                                                                         *)
(* A name is the sequence of the suffixes that Rename has put behind it:   *)
(* <<>> is the name "a", <<1>> is "a(1)" and <<1, 2>> is "a(1)(2)".        *)
(***************************************************************************)
EXTENDS DB, Sequences

CONSTANTS
    Jobs,        \* the requests clients send
    MaxCreates   \* bounds on the creates of tasks and of lists ever started

TaskWrites == {"TasksCreate", "TasksDelete", "TasksRevise"}
TaskOps    == TaskWrites \union {"TasksQuery", "GetAllTasksName"}
ShareOps   == {"GetAllGrantTaskList", "ReviseGrantTaskList", "RemoveGrantTaskList"}
ListOps    == ShareOps \union
              {"ListsQuery", "ListsRevise", "ListsCreate", "ListsDelete",
               "GetAllTasklist", "GetAllAccessTaskList", "GetAllPublicTaskList"}
Creates    == {"TasksCreate", "ListsCreate"}
Op         == TaskOps \union ListOps \union {"Register", "ShareDeleteUsers"}

(* A request, as its handler hands it to the worker: RequestData (other is *)
(* None where the parameter is missing), the content as the field map it   *)
(* becomes, valid: what IsValid says of it, share: the shareInfo entries.  *)
(* It names the lists and tasks of Owner(j).                               *)
ShareInfo == [user: UserKey \union {None}, perm: Perm]

Job == [op: Op, user: UserKey, other: UserKey \union {None}, list: ListName,
        task: TaskName, info: Infos, valid: BOOLEAN, share: Seq(ShareInfo)]

Called == {"createUserNode", "getUserNode", "createTaskListNode",
           "getTaskListNode", "reviseTaskListNode", "deleteTaskListNode",
           "getAllTaskListNodes", "createTaskNode", "getTaskNode",
           "reviseTaskNode", "deleteTaskNode", "getAllTaskNodes", "addAccess",
           "checkAccess", "removeAccess", "allAccess", "allGrant", "getAllPublic"}

Rename(name, suffix) == IF suffix = 0 THEN name ELSE Append(name, suffix)

(* ShareDelete calls RemoveGrantTaskList only where other is given.        *)
ASSUME JobsAssumption   ==
    /\ Jobs \subseteq Job
    /\ \A j \in Jobs : j.op = "RemoveGrantTaskList" => j.other # None
ASSUME CallsAssumption  == Called \subseteq Methods /\ Owners = UserKey
ASSUME NamesAssumption  == ListName \subseteq Seq(Nat) /\ TaskName \subseteq Seq(Nat)
ASSUME NoFaultAssumption == None \notin {"ERR_FORMAT", "ERR_REVISE"}
ASSUME CreateAssumption == MaxCreates \in [Creates -> Nat]
ASSUME RenameAssumption ==
    \A j \in Jobs : j.op \in Creates =>
       \A n \in 0..(MaxCreates[j.op] - 1) :
          /\ j.op = "TasksCreate" => Rename(j.task, n) \in TaskName
          /\ j.op = "ListsCreate" => Rename(j.list, n) \in ListName

NoJob == [op |-> "none"]
Stage == {"idle", "gate", "user", "act"}

VARIABLES job, stage, pass, answer, creates
work       == <<job, stage, pass, answer, creates>>
workerVars == <<vars, work>>

-----------------------------------------------------------------------------
(* Mutant: other_user_key is used where it is empty, too. *)
OwnerOther(j) == j.other

Owner(j) == IF j.other = None THEN j.user ELSE j.other

(* What a method refuses before it calls DB, in the order of its checks.   *)
Fault(j) ==
    LET create == j.op \in Creates
        revise == j.op \in {"TasksRevise", "ListsRevise"}
        F      == j.info.fields IN
    IF create /\ "key" \notin F THEN "ERR_KEY"
    ELSE IF j.op = "TasksRevise" /\ F = {} THEN "ERR_RFIELD"
    ELSE IF j.op = "ListsRevise" /\ "key" \in F THEN "ERR_KEY"
    ELSE IF j.op = "ListsRevise" /\ j.other # None /\ "visibility" \in F
         THEN "ERR_REVISE"
    ELSE IF (create \/ revise) /\ ~j.valid THEN "ERR_FORMAT"
    ELSE None

(* DB calls about the list or the task a request names.                    *)
UserCall(j, m) == [Blank EXCEPT !.method = m, !.user = j.user]
ListCall(j, m) == [Blank EXCEPT !.method = m, !.user = Owner(j), !.list = j.list]
TaskCall(j, m) == [ListCall(j, m) EXCEPT !.task = j.task]
OwnCall(j, m)  == [UserCall(j, m) EXCEPT !.list = j.list]

-----------------------------------------------------------------------------
(* Progress of a request.                                                  *)

Back(t, op, stg) == job[t].op = op /\ stage[t] = stg /\ step[t] = 0

Call(t, stg, n, r) == /\ Begin(t, r)
                      /\ stage' = [stage EXCEPT ![t] = stg]
                      /\ pass'  = [pass EXCEPT ![t] = n]
                      /\ UNCHANGED <<job, answer, creates>>

(* The code of the worker, and the name it returns or the errUser it sets. *)
Tell(t, code, note) == /\ answer' = [answer EXCEPT ![t] = <<code, note>>]
                         /\ stage'  = [stage EXCEPT ![t] = "idle"]
                         /\ job'    = [job EXCEPT ![t] = NoJob]
                         /\ pass'   = [pass EXCEPT ![t] = 0]
                         /\ UNCHANGED <<vars, creates>>

Done(t, op) == Back(t, op, "act") /\ Tell(t, ret[t], None)

(* MaxCreates bounds the number of creates.                                *)
Room(j) == j.op \in Creates => creates[j.op] < MaxCreates[j.op]

Count(j) == creates' = [o \in Creates |->
                           creates[o] + IF o = j.op THEN 1 ELSE 0]

(* The requests for a method that a thread may take up.                    *)
Sent(t, op) == IF stage[t] = "idle" THEN {j \in Jobs : j.op = op /\ Room(j)} ELSE {}

(* It does, and first is the stage and the call it begins with.            *)
Receive(t, j, first) ==
    IF Fault(j) # None
    THEN /\ answer' = [answer EXCEPT ![t] = <<Fault(j), None>>]
         /\ UNCHANGED <<vars, job, stage, pass, creates>>
    ELSE /\ Begin(t, first[2])
         /\ job'   = [job EXCEPT ![t] = j]
         /\ stage' = [stage EXCEPT ![t] = first[1]]
         /\ answer' = [answer EXCEPT ![t] = <<None, None>>]
         /\ Count(j)
         /\ UNCHANGED pass

(* Mutant: whoever asks, the list only has to exist. *)
GateExists(j) == <<"gate", ListCall(j, "getTaskListNode")>>

(* The gate: another user's list needs checkAccess, one's own must exist.  *)
GateFirst(j) ==
    <<"gate", IF j.other # None
              THEN [ListCall(j, "checkAccess") EXCEPT !.dst = j.user]
              ELSE ListCall(j, "getTaskListNode")>>

(* Mutant: the flag of checkAccess is not looked at. *)
RefusalFlagless(t, writes) ==
    IF ret[t] = "SUCCESS" THEN None
    ELSE IF job[t].other = None THEN "ERR_NO_NODE" ELSE ret[t]

Refusal(t, writes) ==
    IF job[t].other = None
    THEN IF ret[t] = "SUCCESS" THEN None ELSE "ERR_NO_NODE"
    ELSE IF ret[t] # "SUCCESS" THEN ret[t]
    ELSE IF writes /\ out[t] # {<<"write">>} THEN "ERR_ACCESS"
    ELSE None

Gated(t, op, writes, r) ==
    /\ Back(t, op, "gate")
    /\ IF Refusal(t, writes) = None
       THEN Call(t, "act", 0, r)
       ELSE Tell(t, Refusal(t, writes), None)

(* Mutant: any failure is taken for a name that is taken. *)
NextNameAlways(t, r, name) ==
    IF ret[t] # "SUCCESS"
    THEN Call(t, "act", pass[t] + 1, r)
    ELSE Tell(t, ret[t], name)

(* Mutant: the name that is returned is the one that was asked for. *)
NextNameUnsaid(t, r, name) ==
    IF ret[t] = "ERR_DUP_NODE"
    THEN Call(t, "act", pass[t] + 1, r)
    ELSE Tell(t, ret[t], IF ret[t] = "SUCCESS" THEN <<>> ELSE None)

(* Mutant: the suffix is not counted up. *)
NextNameSame(t, r, name) ==
    IF ret[t] = "ERR_DUP_NODE"
    THEN Begin(t, call[t]) /\ UNCHANGED work
    ELSE Tell(t, ret[t], IF ret[t] = "SUCCESS" THEN name ELSE None)

(* The do-while loop of the two creates: the next suffix as long as the    *)
(* name is taken.  (MaxCreates bounds the suffixes, too: Answered shows    *)
(* that the loop never waits for it.)                                      *)
NextName(t, r, name) ==
    IF ret[t] = "ERR_DUP_NODE"
    THEN /\ pass[t] + 1 < MaxCreates[job[t].op]
         /\ Call(t, "act", pass[t] + 1, r)
    ELSE Tell(t, ret[t], IF ret[t] = "SUCCESS" THEN name ELSE None)

-----------------------------------------------------------------------------
(* Class TasksWorker.                                                      *)

TasksQuery(t) ==
    \/ \E j \in Sent(t, "TasksQuery") : Receive(t, j, GateFirst(j))
    \/ Gated(t, "TasksQuery", FALSE, TaskCall(job[t], "getTaskNode"))
    \/ Done(t, "TasksQuery")

CreateTask(j, suffix) == [ListCall(j, "createTaskNode") EXCEPT
                             !.task = Rename(j.task, suffix), !.info = j.info]

TasksCreate(t) ==
    LET j == job[t] IN
    \/ \E k \in Sent(t, "TasksCreate") : Receive(t, k, GateFirst(k))
    \/ Gated(t, "TasksCreate", TRUE, CreateTask(j, 0))
    \/ /\ Back(t, "TasksCreate", "act")
       /\ NextName(t, CreateTask(j, pass[t] + 1), Rename(j.task, pass[t]))

TasksDelete(t) ==
    \/ \E j \in Sent(t, "TasksDelete") : Receive(t, j, GateFirst(j))
    \/ Gated(t, "TasksDelete", TRUE, TaskCall(job[t], "deleteTaskNode"))
    \/ Done(t, "TasksDelete")

TasksRevise(t) ==
    LET j == job[t] IN
    \/ \E k \in Sent(t, "TasksRevise") : Receive(t, k, GateFirst(k))
    \/ Gated(t, "TasksRevise", TRUE,
             [TaskCall(j, "reviseTaskNode") EXCEPT !.info = j.info])
    \/ Done(t, "TasksRevise")

GetAllTasksName(t) ==
    \/ \E j \in Sent(t, "GetAllTasksName") : Receive(t, j, GateFirst(j))
    \/ Gated(t, "GetAllTasksName", FALSE, ListCall(job[t], "getAllTaskNodes"))
    \/ Done(t, "GetAllTasksName")

-----------------------------------------------------------------------------
(* Class TaskListsWorker.  Only another user's list passes a gate.         *)

ForeignFirst(j, r) == IF j.other # None THEN GateFirst(j) ELSE <<"act", r>>

QueryList(j)  == ListCall(j, "getTaskListNode")
ReviseList(j) == [ListCall(j, "reviseTaskListNode") EXCEPT !.info = j.info]

ListsQuery(t) ==
    \/ \E j \in Sent(t, "ListsQuery") :
          Receive(t, j, ForeignFirst(j, QueryList(j)))
    \/ Gated(t, "ListsQuery", FALSE, QueryList(job[t]))
    \/ Done(t, "ListsQuery")

ListsRevise(t) ==
    \/ \E j \in Sent(t, "ListsRevise") :
          Receive(t, j, ForeignFirst(j, ReviseList(j)))
    \/ Gated(t, "ListsRevise", TRUE, ReviseList(job[t]))
    \/ Done(t, "ListsRevise")

CreateList(j, suffix) == [UserCall(j, "createTaskListNode") EXCEPT
                             !.list = Rename(j.list, suffix), !.info = j.info]

ListsCreate(t) ==
    LET j == job[t] IN
    \/ \E k \in Sent(t, "ListsCreate") :
          Receive(t, k, <<"act", CreateList(k, 0)>>)
    \/ /\ Back(t, "ListsCreate", "act")
       /\ NextName(t, CreateList(j, pass[t] + 1), Rename(j.list, pass[t]))

ListsDelete(t) ==
    \/ \E j \in Sent(t, "ListsDelete") :
          Receive(t, j, <<"act", OwnCall(j, "deleteTaskListNode")>>)
    \/ Done(t, "ListsDelete")

GetAllTasklist(t) ==
    \/ \E j \in Sent(t, "GetAllTasklist") :
          Receive(t, j, <<"act", UserCall(j, "getAllTaskListNodes")>>)
    \/ Done(t, "GetAllTasklist")

GetAllAccessTaskList(t) ==
    \/ \E j \in Sent(t, "GetAllAccessTaskList") :
          Receive(t, j, <<"act", [Blank EXCEPT !.method = "allAccess", !.dst = j.user]>>)
    \/ Done(t, "GetAllAccessTaskList")

GetAllPublicTaskList(t) ==
    \/ \E j \in Sent(t, "GetAllPublicTaskList") :
          Receive(t, j, <<"act", [Blank EXCEPT !.method = "getAllPublic"]>>)
    \/ Done(t, "GetAllPublicTaskList")

(* GetVisibility: the first call of the methods about shares.              *)
VisibilityFirst(j) == <<"gate", OwnCall(j, "getTaskListNode")>>
VisibilityRead(t, v) == ret[t] = "SUCCESS" /\ \E row \in out[t] : row[1] = v

GetAllGrantTaskList(t) ==
    \/ \E j \in Sent(t, "GetAllGrantTaskList") :
          Receive(t, j, VisibilityFirst(j))
    \/ /\ Back(t, "GetAllGrantTaskList", "gate")
       /\ IF ret[t] # "SUCCESS" THEN Tell(t, ret[t], None)
          ELSE IF VisibilityRead(t, "public") THEN Tell(t, "SUCCESS", None)
          ELSE IF VisibilityRead(t, "private") THEN Tell(t, "ERR_ACCESS", None)
          ELSE Call(t, "act", 0, OwnCall(job[t], "allGrant"))
    \/ Done(t, "GetAllGrantTaskList")

(* Mutant: the iterator of the loop stays where it is. *)
NextGrantSame(t) ==
    LET j == job[t]
        n == pass[t] + 1 IN
    IF n > Len(j.share) THEN Tell(t, "SUCCESS", None)
    ELSE IF j.share[n].user = None THEN Tell(t, "ERR_RFIELD", None)
    ELSE Call(t, "act", pass[t], [OwnCall(j, "addAccess") EXCEPT
                                     !.dst = j.share[n].user, !.perm = j.share[n].perm])

(* The loop over in_list: pass[t] entries have been handed to addAccess.   *)
(* An entry without a name ends it, and errUser stays empty; a grant that  *)
(* fails ends it, and errUser is its user.                                 *)
NextGrant(t) ==
    LET j == job[t]
        n == pass[t] + 1 IN
    IF n > Len(j.share) THEN Tell(t, "SUCCESS", None)
    ELSE IF j.share[n].user = None THEN Tell(t, "ERR_RFIELD", None)
    ELSE Call(t, "act", n, [OwnCall(j, "addAccess") EXCEPT
                               !.dst = j.share[n].user, !.perm = j.share[n].perm])

(* Mutant: errUser is the user after the one that failed. *)
ErrUserNext(t) == LET share == job[t].share IN
    share[IF pass[t] < Len(share) THEN pass[t] + 1 ELSE pass[t]].user

ErrUser(t) == job[t].share[pass[t]].user

ReviseGrantTaskList(t) ==
    \/ \E j \in Sent(t, "ReviseGrantTaskList") :
          Receive(t, j, VisibilityFirst(j))
    \/ /\ Back(t, "ReviseGrantTaskList", "gate")
       /\ IF VisibilityRead(t, "shared") THEN NextGrant(t) ELSE Tell(t, "ERR_ACCESS", None)
    \/ /\ Back(t, "ReviseGrantTaskList", "act")
       /\ IF ret[t] = "SUCCESS" THEN NextGrant(t) ELSE Tell(t, ret[t], ErrUser(t))

(* With the user to remove in the parameter other.                         *)
RemoveGrantTaskList(t) ==
    LET j == job[t] IN
    \/ \E k \in Sent(t, "RemoveGrantTaskList") :
          Receive(t, k, VisibilityFirst(k))
    \/ /\ Back(t, "RemoveGrantTaskList", "gate")
       /\ IF VisibilityRead(t, "shared")
          THEN Call(t, "user", 0, [Blank EXCEPT !.method = "getUserNode", !.user = j.other])
          ELSE Tell(t, "ERR_ACCESS", None)
    \/ /\ Back(t, "RemoveGrantTaskList", "user")
       /\ IF ret[t] = "SUCCESS"
          THEN Call(t, "act", 0, [OwnCall(j, "removeAccess") EXCEPT !.dst = j.other])
          ELSE Tell(t, "ERR_NO_NODE", None)
    \/ Done(t, "RemoveGrantTaskList")

(* Without it, the overload that takes a list of users: it does nothing.   *)
ShareDeleteUsers(t) ==
    /\ stage[t] = "idle"
    /\ \E j \in Jobs : j.op = "ShareDeleteUsers"
    /\ answer' = [answer EXCEPT ![t] = <<"SUCCESS", None>>]
    /\ UNCHANGED <<vars, job, stage, pass, creates>>

-----------------------------------------------------------------------------
(* UsersRegister: DuplicatedEmail and Create of class Users.               *)
Register(t) ==
    LET j == job[t] IN
    \/ \E k \in Sent(t, "Register") :
          Receive(t, k, <<"user", UserCall(k, "getUserNode")>>)
    \/ /\ Back(t, "Register", "user")
       /\ IF ret[t] = "SUCCESS"
          THEN Tell(t, "ERR_DUP_NODE", None)
          ELSE Call(t, "act", 0, [UserCall(j, "createUserNode") EXCEPT !.info = j.info])
    \/ Done(t, "Register")

-----------------------------------------------------------------------------
WorkersInit == /\ Init
               /\ job    = [t \in Thread |-> NoJob]
               /\ stage  = [t \in Thread |-> "idle"]
               /\ pass   = [t \in Thread |-> 0]
               /\ answer = [t \in Thread |-> <<None, None>>]
               /\ creates = [o \in Creates |-> 0]

Handle(t) ==
    \/ TasksQuery(t) \/ TasksCreate(t) \/ TasksDelete(t) \/ TasksRevise(t)
    \/ GetAllTasksName(t)
    \/ ListsQuery(t) \/ ListsCreate(t) \/ ListsDelete(t) \/ ListsRevise(t)
    \/ GetAllTasklist(t) \/ GetAllAccessTaskList(t) \/ GetAllPublicTaskList(t)
    \/ GetAllGrantTaskList(t) \/ ReviseGrantTaskList(t) \/ RemoveGrantTaskList(t)
    \/ ShareDeleteUsers(t) \/ Register(t)

(* The process ends: its threads forget their requests.                    *)
Die == /\ Crash
       /\ job'    = [t \in Thread |-> NoJob]
       /\ stage'  = [t \in Thread |-> "idle"]
       /\ pass'   = [t \in Thread |-> 0]
       /\ answer' = [t \in Thread |-> <<None, None>>]
       /\ UNCHANGED creates

WorkersNext == \/ \E t \in Thread : \/ Handle(t)
                                    \/ Query(t) /\ UNCHANGED work
                                    \/ QueryFails(t) /\ UNCHANGED work
               \/ Die

WorkersSpec == WorkersInit /\ [][WorkersNext]_workerVars

(* The threads run and neo4j answers.  (Receive is a step of the clients:  *)
(* a thread with a request is not waiting for another one.)                *)
WorkersFairSpec ==
    WorkersSpec /\ \A t \in Thread :
        WF_workerVars(
            stage[t] # "idle" /\ (Handle(t) \/ (Query(t) /\ UNCHANGED work)))
-----------------------------------------------------------------------------
(* Every variable has its type, and a loop over a list of users is at one  *)
(* of them while it waits for DB.                                          *)
WorkTypeOK ==
    /\ job \in [Thread -> Jobs \union {NoJob}]
    /\ stage \in [Thread -> Stage]
    /\ pass \in [Thread -> Nat]
    /\ DOMAIN answer = Thread
    /\ \A t \in Thread :
          /\ stage[t] = "idle" <=> job[t] = NoJob
          /\ job[t] # NoJob /\ stage[t] = "act" /\ job[t].op = "ReviseGrantTaskList" =>
                pass[t] \in DOMAIN job[t].share
=============================================================================
