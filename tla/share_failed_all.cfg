\* A list is shared with two users, the second of whom has no name.
CONSTANTS
    u1 = u1
    u2 = u2
    u3 = u3
    v1 = v1
    Thread = {t1, t2}
    UserKey = {u1, u2, u3}
    Owners = {u1, u2, u3}
    ListName <- OneName
    TaskName <- OneName
    Value = {v1}
    None = None
    Infos <- WorkerInfos
    Jobs <- UnnamedJobs
    MaxCreates <- AccessCreates
    Methods = {"createUserNode", "getUserNode", "createTaskListNode",
               "getTaskListNode", "reviseTaskListNode", "deleteTaskListNode",
               "getAllTaskListNodes", "createTaskNode", "getTaskNode",
               "reviseTaskNode", "deleteTaskNode", "getAllTaskNodes", "addAccess",
               "checkAccess", "removeAccess", "allAccess", "allGrant",
               "getAllPublic"}
    Unreliable = FALSE
SPECIFICATION AuditSpec
PROPERTIES FailedAllGaveNothing
