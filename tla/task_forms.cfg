\* Two pages and a program edit a task; contents around the size of the buffer.
CONSTANTS
    Client = {c1, c2}
    Requests <- MCRequests
    Edits <- MCEdits
    Buffer = 1024
    None = None
SYMMETRY ClientSymmetry
SPECIFICATION FormsSpec
INVARIANTS StoredIsValid ShortIsReturned
PROPERTIES SavedAsEdited
