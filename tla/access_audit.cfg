\* Two threads, two users; a list is shared, published, closed and deleted
\* while access is granted, revoked, checked and listed, and queries fail.
CONSTANTS
    Thread = {t1, t2}
    UserKey = {u1, u2}
    Owners = {u1}
    ListName = {l1}
    TaskName = {k1}
    Value = {v1}
    None = None
    Infos <- SharingInfos
    Methods = {"createUserNode", "createTaskListNode", "reviseTaskListNode",
               "deleteTaskListNode", "addAccess", "removeAccess", "checkAccess",
               "allGrant"}
    Unreliable = TRUE
SYMMETRY ThreadSymmetry
SPECIFICATION AuditSpec
PROPERTIES VerdictHadGround GrantHadGround ListingHadGround
