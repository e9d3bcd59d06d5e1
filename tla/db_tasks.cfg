\* Three threads create, revise and delete the tasks of a list with two contents,
\* while queries fail, replies get lost and the process crashes; lists and users
\* stay.
CONSTANTS
    Thread = {t1, t2, t3}
    UserKey = {u1}
    Owners = {u1}
    ListName = {l1}
    TaskName = {k1}
    Value = {v1, v2}
    None = None
    Infos <- DataInfos
    Methods = {"createUserNode", "reviseUserNode", "createTaskListNode",
               "reviseTaskListNode", "createTaskNode", "reviseTaskNode",
               "deleteTaskNode", "getUserNode", "getAllUserNodes"}
    Unreliable = TRUE
SYMMETRY ThreadSymmetry
SPECIFICATION Spec
INVARIANTS TaskHasList
PROPERTIES CreateKeepsData AcknowledgedIsListed HiddenIsTold
