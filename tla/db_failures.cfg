\* Two threads use every method on lists, permissions and tasks, with
\* failing queries, lost replies and crashes.
CONSTANTS
    Thread = {t1, t2}
    UserKey = {u1, u2}
    Owners = {u1}
    ListName = {l1}
    TaskName = {k1}
    Value = {v1}
    None = None
    Infos <- SharedInfos
    Methods = {"createUserNode", "deleteUserNode", "createTaskListNode",
               "reviseTaskListNode", "deleteTaskListNode", "createTaskNode",
               "deleteTaskNode", "addAccess", "deleteEverything",
               "getTaskListNode", "getTaskNode", "getAllTaskListNodes",
               "getAllTaskNodes", "checkAccess", "removeAccess", "allAccess",
               "allGrant", "getAllPublic"}
    Unreliable = TRUE
SYMMETRY ThreadSymmetry
SPECIFICATION Spec
INVARIANTS GraphIntegrity
PROPERTIES NoResurrection ImplementsTree
