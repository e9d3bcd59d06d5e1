\* Two threads create, rename and delete the lists and tasks of one user.
CONSTANTS
    u1 = u1
    u2 = u2
    u3 = u3
    v1 = v1
    Thread = {t1, t2}
    UserKey = {u1}
    Owners = {u1}
    ListName <- NameLists
    TaskName <- NameTasks
    Value = {v1}
    None = None
    Infos <- WorkerInfos
    Jobs <- NameJobs
    MaxCreates <- NameCreates
    Methods = {"createUserNode", "getUserNode", "createTaskListNode",
               "getTaskListNode", "reviseTaskListNode", "deleteTaskListNode",
               "getAllTaskListNodes", "createTaskNode", "getTaskNode",
               "reviseTaskNode", "deleteTaskNode", "getAllTaskNodes", "addAccess",
               "checkAccess", "removeAccess", "allAccess", "allGrant",
               "getAllPublic"}
    Unreliable = FALSE
SPECIFICATION AuditFairSpec
INVARIANTS TypeOK NoHiddenList PassesBounded
PROPERTIES CreatedAsTold Answered
