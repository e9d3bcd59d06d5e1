------------------------------ MODULE TaskForms ------------------------------
(***************************************************************************)
(* The fields of a task between the graph and the form of a browser.  A    *)
(* page (client/task.html) reads the task into a form, its user changes    *)
(* some of the fields, and the page sends all of them back; other pages,   *)
(* and programs that send what fields they like, change the task           *)
(* meanwhile.  Between them lie TaskContent, its conversion to and from    *)
(* the map of fields that DB takes, the SET of a revise, and the buffer    *)
(* that a field is printed into when it is read.                           *)
(*                                                                         *)
(* Every one of these requests touches the node in one query; its gate     *)
(* reads nothing of the task and is part of module Workers.                *)
(*                                                                         *)
(* The value of a field is a number, 0 for the empty string and for        *)
(* NULL_PRIORITY: of the content its length, of a date the day (or         *)
(* NoDate), of the priority its code, of the status its place in To Do,    *)
(* Doing, Done.                                                            *)
(***************************************************************************)
EXTENDS Integers

CONSTANTS
    Client,
    Requests,   \* what programs send
    Edits,      \* the fields a user has changed when a form is sent
    Buffer,     \* the size of the buffer in getTaskNode
    None

Field       == {"content", "startDate", "endDate", "date", "priority", "status"}
FormField   == Field \ {"date"}
TaskContent == [Field -> Int]
NoDate      == -1

ASSUME RequestsAssumption == Requests \subseteq TaskContent
ASSUME EditsAssumption    ==
    \A y \in Edits : DOMAIN y \subseteq FormField /\ y \in [DOMAIN y -> Int]
ASSUME BufferAssumption   == Buffer \in Nat /\ Buffer > 16

VARIABLES
    task,    \* the fields of the node, or None
    form     \* form[c]: what client c was shown, and history: what was stored
formVars == <<task, form>>

-----------------------------------------------------------------------------
(* Structure TaskContent.                                                  *)

Given(x) == {f \in Field : x[f] # 0}

IsEmpty(x) == Given(x) \subseteq {"date"}

(* Mutant: a start without an end is accepted. *)
IsValidOpenEnd(x) == /\ NoDate \notin {x.startDate, x.endDate}
                     /\ x.endDate # 0 => x.startDate \in 1..x.endDate
                     /\ x.priority \in 0..3 /\ x.status \in 0..3

IsValid(x) == /\ NoDate \notin {x.startDate, x.endDate}
              /\ x.startDate = 0 <=> x.endDate = 0
              /\ x.startDate <= x.endDate
              /\ x.priority \in 0..3 /\ x.status \in 0..3

(* Mutant: empty fields are written, too. *)
TaskStruct2MapAll(x) == x

TaskStruct2Map(x) == [f \in Given(x) |-> x[f]]
Map2TaskStruct(m) == [f \in Field |-> IF f \in DOMAIN m THEN m[f] ELSE 0]

-----------------------------------------------------------------------------
(* The node.                                                               *)

Set(x, m) == [f \in DOMAIN x \union DOMAIN m |-> IF f \in DOMAIN m THEN m[f] ELSE x[f]]

(* Mutant: a character too many is dropped. *)
PrintedShort(f, v) == IF f = "content" /\ v > Buffer - 4 THEN Buffer - 4 ELSE v

(* neo4j_tostring prints the text between quotes into the buffer and ends  *)
(* it with a null; then the first and the last character are dropped.      *)
Printed(f, v) == IF f = "content" /\ v > Buffer - 3 THEN Buffer - 3 ELSE v

getTaskNode == [f \in DOMAIN task |-> Printed(f, task[f])]

-----------------------------------------------------------------------------
(* The requests.  One that is refused changes nothing.                     *)

Create(x) == /\ task = None
             /\ IsValid(x)
             /\ task' = TaskStruct2Map(x)
             /\ UNCHANGED form

Accepted(x) == ~IsEmpty(x) /\ IsValid(x) /\ task # None

Revise(x) == /\ Accepted(x)
             /\ task' = Set(task, TaskStruct2Map(x))
             /\ UNCHANGED form

Delete == /\ task # None
          /\ task' = None
          /\ UNCHANGED form

(* showInfo: no form is shown unless the task could be read.               *)
Open(c) == /\ task # None
           /\ form' = [form EXCEPT ![c] = [stored |-> task,
                                           shown  |-> Map2TaskStruct(getTaskNode)]]
           /\ UNCHANGED task

(* What the form holds: no field for the date, and the last option of the  *)
(* status where it is neither To Do nor Doing.                             *)
Filled(x) == [f \in Field |-> IF f = "date" THEN 0
                             ELSE IF f = "status" /\ x.status \notin {1, 2} THEN 3
                             ELSE x[f]]

(* createOrReviseTask: all the fields of the form are sent; it stays open. *)
Submit(c, y) == form[c] # None /\ Revise(Set(Filled(form[c].shown), y))

-----------------------------------------------------------------------------
FormsInit == /\ task = None
             /\ form = [c \in Client |-> None]

FormsNext == \/ \E x \in Requests : Create(x) \/ Revise(x)
             \/ Delete
             \/ \E c \in Client : Open(c) \/ \E y \in Edits : Submit(c, y)

FormsSpec == FormsInit /\ [][FormsNext]_formVars

-----------------------------------------------------------------------------
(* A revise is checked by itself, without the fields it leaves alone; yet  *)
(* what is stored is at all times a task that IsValid would accept: the    *)
(* dates are both there and in order, whoever revised which fields.        *)
StoredIsValid == task # None => IsValid(Map2TaskStruct(task))

Value(m, f) == Map2TaskStruct(m)[f]

(* What is returned is what was stored (createTaskNode, reviseTaskNode) up *)
(* to the length the buffer has room for.                                  *)
ShortIsReturned ==
    \A c \in Client : form[c] # None =>
        \A f \in Field : f # "content" \/ Value(form[c].stored, f) <= Buffer - 3 =>
            form[c].shown[f] = Value(form[c].stored, f)

(* A form that is sent changes the fields its user changed, to what the    *)
(* user typed (a field that was cleared is left alone), and no other, as   *)
(* far as nobody else has changed them since the form was filled.  Not so  *)
(* a content the buffer has cut, and a status that was not set.            *)
SavedAsEdited ==
    [][\A c \in Client, y \in Edits :
        Submit(c, y) =>
          LET old  == form[c].stored
              whole(f) == /\ f = "content" => Value(old, f) <= Buffer - 3
                          /\ f = "status"  => Value(old, f) # 0 IN
          \A f \in Field :
             IF f \in DOMAIN y
             THEN Value(task', f) = (IF y[f] # 0 THEN y[f] ELSE Value(task, f))
             ELSE whole(f) /\ Value(task, f) = Value(old, f) =>
                     (f \in DOMAIN task' <=> f \in DOMAIN task)
                     /\ Value(task', f) = Value(task, f)]_formVars
=============================================================================
