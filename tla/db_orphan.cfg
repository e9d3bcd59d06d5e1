\* Two threads create and delete a list and its task: the task can outlive it.
CONSTANTS
    Thread = {t1, t2}
    UserKey = {u1}
    Owners = {u1}
    ListName = {l1}
    TaskName = {k1}
    Value = {v1}
    None = None
    Infos <- CreateInfos
    Methods = {"createUserNode", "createTaskListNode", "createTaskNode",
               "deleteTaskListNode", "deleteTaskNode", "getAllTaskListNodes",
               "getAllTaskNodes"}
    Unreliable = FALSE
SYMMETRY ThreadSymmetry
SPECIFICATION Spec
INVARIANTS TaskHasList
