\* Two threads serve the owner of a list and a user it is shared with.
CONSTANTS
    u1 = u1
    u2 = u2
    u3 = u3
    v1 = v1
    Thread = {t1, t2}
    UserKey = {u1, u2, u3}
    Owners = {u1, u2, u3}
    ListName <- OneName
    TaskName <- OneName
    Value = {v1}
    None = None
    Infos <- WorkerInfos
    Jobs <- AccessJobs
    MaxCreates <- AccessCreates
    Methods = {"createUserNode", "getUserNode", "createTaskListNode",
               "getTaskListNode", "reviseTaskListNode", "deleteTaskListNode",
               "getAllTaskListNodes", "createTaskNode", "getTaskNode",
               "reviseTaskNode", "deleteTaskNode", "getAllTaskNodes", "addAccess",
               "checkAccess", "removeAccess", "allAccess", "allGrant",
               "getAllPublic"}
    Unreliable = TRUE
SYMMETRY ThreadSymmetry
SPECIFICATION AuditSpec
INVARIANTS WorkTypeOK
PROPERTIES ChangesHadGround ReadsHadGround ShareAsTold
