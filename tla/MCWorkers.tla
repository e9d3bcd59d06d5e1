------------------------------ MODULE MCWorkers ------------------------------
(* Constants for model-checking WorkersAudit.                              *)
EXTENDS WorkersAudit, TLC

CONSTANTS u1, u2, u3, v1

ThreadSymmetry == Permutations(Thread)

InfoOf(F, v) == [fields |-> F, visibility |-> v, value |-> v1]
Named   == InfoOf({"key", "value"}, "private")
Shared  == InfoOf({"key", "visibility"}, "shared")
Content == InfoOf({"value"}, "private")
Visible(v) == InfoOf({"visibility"}, v)
Nothing == InfoOf({}, "private")
WorkerInfos == {Named, Shared, Content, Nothing} \union {Visible(v) : v \in Visibility}

(* Requests, by what differs from a plain one.                             *)
Plain(o, u) == [op |-> o, user |-> u, other |-> None, list |-> <<>>, task |-> <<>>,
                info |-> Named, valid |-> TRUE, share |-> <<>>]
With(o, u, i)   == [Plain(o, u) EXCEPT !.info = i]
Of(o, u, w)     == [Plain(o, u) EXCEPT !.other = w]
OfWith(o, u, w, i) == [Of(o, u, w) EXCEPT !.info = i]
Share(s) == [Plain("ReviseGrantTaskList", u1) EXCEPT !.share = s]
Entry(u, p) == [user |-> u, perm |-> p]

(* u1 shares a list, publishes it and takes the permission back; u2 uses   *)
(* it; u3 has not registered.                                              *)
SetupJobs == {Plain("Register", u) : u \in {u1, u2}}
             \union {With("ListsCreate", u1, Shared), Plain("TasksCreate", u1)}

AccessJobs == SetupJobs
    \union {With("ListsRevise", u1, Visible("public")),
            Of("RemoveGrantTaskList", u1, u2), Share(<<Entry(u2, "write")>>),
            Share(<<Entry(u2, "read"), Entry(u3, "read")>>)}
    \union {Of(o, u2, u1) : o \in {"TasksQuery", "TasksDelete"}}

(* The second entry of the list of users has no name. *)
UnnamedJobs == SetupJobs \union {Share(<<Entry(u2, "write"), Entry(None, "read")>>)}

OneName       == {<<>>}
AccessCreates == "TasksCreate" :> 1 @@ "ListsCreate" :> 1

(* u1 creates lists "a" and tasks "a" again and again, deletes them and    *)
(* lists them; every other request once for one's own list.                *)
NameJobs ==
    {With("ListsCreate", u1, Shared), With("TasksRevise", u1, Content),
     OfWith("ListsRevise", u1, u1, Nothing),
     [Plain("TasksCreate", u1) EXCEPT !.valid = FALSE]}
    \union {Plain(o, u1) : o \in {"Register", "TasksCreate", "TasksDelete",
               "ListsDelete", "GetAllTasklist", "GetAllAccessTaskList",
               "GetAllPublicTaskList", "GetAllGrantTaskList", "ShareDeleteUsers"}}
    \union {Of(o, u1, u1) : o \in {"ListsQuery", "GetAllTasksName"}}

NameTasks   == {<<>>, <<1>>}
NameLists   == {<<>>, <<1>>}
NameCreates == "TasksCreate" :> 2 @@ "ListsCreate" :> 2
=============================================================================
