--------------------------- MODULE TaskFormsProofs ---------------------------
(* Proofs about the fields of a task (TaskForms), for any requests, edits  *)
(* and buffer.                                                             *)
EXTENDS TaskForms, TLAPS

Fields(m) == DOMAIN m \subseteq Field /\ m \in [DOMAIN m -> Int]

Typed ==
    /\ task # None => Fields(task)
    /\ DOMAIN form = Client
    /\ \A c \in Client : form[c] # None =>
          Fields(form[c].stored) /\ form[c].shown \in TaskContent

(* The conversions of a task keep fields fields.                           *)
LEMMA Conversions ==
    /\ \A x \in TaskContent : Fields(TaskStruct2Map(x))
    /\ \A m : Fields(m) => Map2TaskStruct(m) \in TaskContent
    /\ \A m, n : Fields(m) /\ Fields(n) => Fields(Set(m, n))
<1>1. ASSUME NEW x \in TaskContent PROVE Fields(TaskStruct2Map(x))
  BY DEF Fields, TaskStruct2Map, TaskContent, Given
<1>2. ASSUME NEW m, Fields(m) PROVE Map2TaskStruct(m) \in TaskContent
  BY <1>2 DEF Fields, Map2TaskStruct, TaskContent
<1>3. ASSUME NEW m, NEW n, Fields(m), Fields(n) PROVE Fields(Set(m, n))
  <2>1. DOMAIN Set(m, n) = DOMAIN m \union DOMAIN n
    BY DEF Set
  <2>2. \A f \in DOMAIN Set(m, n) : Set(m, n)[f] \in Int
    BY <1>3 DEF Set, Fields
  <2>3. Set(m, n) \in [DOMAIN Set(m, n) -> Int]
    BY <2>2 DEF Set
  <2> QED
    BY <1>3, <2>1, <2>3 DEF Fields
<1> QED
  BY <1>1, <1>2, <1>3

(* What is read of a task are fields, and only a content changes its       *)
(* length, if it is too long for the buffer.                               *)
LEMMA Reading ==
    ASSUME task # None, Fields(task)
    PROVE  LET shown == Map2TaskStruct(getTaskNode) IN
           /\ shown \in TaskContent
           /\ \A f \in Field : f # "content" \/ Value(task, f) <= Buffer - 3 =>
                 shown[f] = Value(task, f)
<1>1. Buffer \in Int
  BY BufferAssumption
<1>2. \A f \in DOMAIN task : Printed(f, task[f]) \in Int
  BY <1>1 DEF Fields, Printed
<1>3. Fields(getTaskNode) /\ DOMAIN getTaskNode = DOMAIN task
  BY <1>2 DEF Fields, getTaskNode
<1>4. ASSUME NEW f \in Field, f # "content" \/ Value(task, f) <= Buffer - 3
      PROVE  Map2TaskStruct(getTaskNode)[f] = Value(task, f)
  <2>1. CASE f \notin DOMAIN task
    BY <2>1, <1>3 DEF Map2TaskStruct, Value
  <2>2. CASE f \in DOMAIN task
    <3>1. Value(task, f) = task[f] /\ task[f] \in Int
      BY <2>2 DEF Value, Map2TaskStruct, Fields
    <3>2. Map2TaskStruct(getTaskNode)[f] = Printed(f, task[f])
      BY <2>2, <1>3 DEF Map2TaskStruct, getTaskNode
    <3> QED
      BY <1>1, <1>4, <3>1, <3>2 DEF Printed
  <2> QED
    BY <2>1, <2>2
<1> QED
  BY <1>3, <1>4, Conversions

(* What a form sends is a task.                                            *)
LEMMA SentIsTask ==
    ASSUME Typed, NEW c \in Client, NEW y \in Edits, form[c] # None
    PROVE  Set(Filled(form[c].shown), y) \in TaskContent
<1> DEFINE x == form[c].shown
<1>1. x \in TaskContent
  BY DEF Typed
<1>2. Filled(x) \in TaskContent
  BY <1>1 DEF Filled, TaskContent
<1>3. DOMAIN y \subseteq Field /\ y \in [DOMAIN y -> Int]
  BY EditsAssumption DEF FormField
<1> QED
  BY <1>2, <1>3 DEF Set, TaskContent

(* The step that a revise of any of the two kinds is.                      *)
Writes(x) == x \in TaskContent /\ (Create(x) \/ Revise(x))

(* Every step is one of these, or deletes the task, or opens a form.       *)
LEMMA StepKinds ==
    ASSUME Typed, FormsNext
    PROVE  \/ \E x \in TaskContent : Writes(x)
           \/ Delete
           \/ \E c \in Client : Open(c)
<1>1. ASSUME NEW c \in Client, NEW y \in Edits, Submit(c, y)
      PROVE  \E x \in TaskContent : Writes(x)
  BY <1>1, SentIsTask DEF Submit, Writes
<1> QED
  BY <1>1, RequestsAssumption DEF FormsNext, Writes

(* Every reachable state is typed.                                         *)
LEMMA AlwaysTyped == FormsSpec => []Typed
<1>1. FormsInit => Typed
  BY DEF FormsInit, Typed
<1>2. Typed /\ [FormsNext]_formVars => Typed'
  <2> SUFFICES ASSUME Typed, [FormsNext]_formVars PROVE Typed'
    OBVIOUS
  <2>1. ASSUME NEW x \in TaskContent, Writes(x) PROVE Typed'
    BY <2>1, Conversions DEF Writes, Create, Revise, Accepted, Typed
  <2>2. CASE Delete
    BY <2>2 DEF Delete, Typed
  <2>3. ASSUME NEW c \in Client, Open(c) PROVE Typed'
    BY <2>3, Reading DEF Open, Typed
  <2>4. CASE UNCHANGED formVars
    BY <2>4 DEF Typed, formVars
  <2> QED
    BY <2>1, <2>2, <2>3, <2>4, StepKinds
<1> QED
  BY <1>1, <1>2, PTL DEF FormsSpec

(* Whoever revises which fields, what is stored is a valid task.           *)
THEOREM StoredStaysValid == FormsSpec => []StoredIsValid
<1>1. FormsInit => StoredIsValid
  BY DEF FormsInit, StoredIsValid
<1>2. Typed /\ StoredIsValid /\ [FormsNext]_formVars => StoredIsValid'
  <2> SUFFICES ASSUME Typed, StoredIsValid, [FormsNext]_formVars
               PROVE  StoredIsValid'
    OBVIOUS
  <2>1. ASSUME NEW x \in TaskContent, IsValid(x), task' = TaskStruct2Map(x)
        PROVE  StoredIsValid'
    <3>1. Map2TaskStruct(TaskStruct2Map(x)) = x
      BY DEF Map2TaskStruct, TaskStruct2Map, Given, TaskContent
    <3> QED
      BY <2>1, <3>1 DEF StoredIsValid
  <2>2. ASSUME NEW x \in TaskContent, Revise(x) PROVE StoredIsValid'
    <3> DEFINE old == Map2TaskStruct(task)
               new == Map2TaskStruct(Set(task, TaskStruct2Map(x)))
    <3>1. \A f \in Field : new[f] = IF x[f] # 0 THEN x[f] ELSE old[f]
      BY DEF Map2TaskStruct, TaskStruct2Map, Set, Given
    <3>2. old \in TaskContent /\ IsValid(old) /\ IsValid(x)
      BY <2>2, Conversions DEF Revise, Accepted, Typed, StoredIsValid
    <3>3. IsValid(new)
      BY <3>1, <3>2 DEF IsValid, Field, TaskContent, NoDate
    <3> QED
      BY <2>2, <3>3 DEF Revise, StoredIsValid
  <2>3. CASE UNCHANGED task
    BY <2>3 DEF StoredIsValid
  <2> QED
    BY <2>1, <2>2, <2>3, StepKinds DEF Writes, Create, Delete, Open, formVars, StoredIsValid
<1> QED
  BY <1>1, <1>2, AlwaysTyped, PTL DEF FormsSpec

(* A page is shown what is stored, but for a content that is too long.     *)
THEOREM ShownIsStored == FormsSpec => []ShortIsReturned
<1>1. FormsInit => ShortIsReturned
  BY DEF FormsInit, ShortIsReturned
<1>2. Typed /\ ShortIsReturned /\ [FormsNext]_formVars => ShortIsReturned'
  <2> SUFFICES ASSUME Typed, ShortIsReturned, [FormsNext]_formVars
               PROVE  ShortIsReturned'
    OBVIOUS
  <2>1. ASSUME NEW c \in Client, Open(c) PROVE ShortIsReturned'
    <3>1. task # None /\ Fields(task)
      BY <2>1 DEF Open, Typed
    <3>2. ASSUME NEW d \in Client, form'[d] # None,
                 NEW f \in Field, f # "content" \/ Value(form'[d].stored, f) <= Buffer - 3
          PROVE  form'[d].shown[f] = Value(form'[d].stored, f)
      <4>1. CASE d = c
        BY <2>1, <3>1, <3>2, <4>1, Reading DEF Open, Typed
      <4>2. CASE d # c
        BY <2>1, <3>2, <4>2 DEF Open, Typed, ShortIsReturned
      <4> QED
        BY <4>1, <4>2
    <3> QED
      BY <3>2 DEF ShortIsReturned, Value, Map2TaskStruct
  <2>2. CASE UNCHANGED form
    BY <2>2 DEF ShortIsReturned, Value, Map2TaskStruct
  <2> QED
    BY <2>1, <2>2, StepKinds DEF Writes, Create, Revise, Delete, formVars
<1> QED
  BY <1>1, <1>2, AlwaysTyped, PTL DEF FormsSpec

(* What a form was filled from was a valid task.                           *)
FilledFromValid ==
    \A c \in Client : form[c] # None => IsValid(Map2TaskStruct(form[c].stored))

(* So it is always, since what is stored is valid when a page is opened.   *)
LEMMA AlwaysFilledFromValid == FormsSpec => []FilledFromValid
<1>1. FormsInit => FilledFromValid
  BY DEF FormsInit, FilledFromValid
<1>2. Typed /\ StoredIsValid /\ FilledFromValid /\ [FormsNext]_formVars
         => FilledFromValid'
  <2> SUFFICES ASSUME Typed, StoredIsValid, FilledFromValid, [FormsNext]_formVars
               PROVE  FilledFromValid'
    OBVIOUS
  <2>1. ASSUME NEW c \in Client, Open(c) PROVE FilledFromValid'
    <3>1. IsValid(Map2TaskStruct(task))
      BY <2>1 DEF Open, StoredIsValid
    <3>2. \A d \in Client : form'[d] # None => IsValid(Map2TaskStruct(form'[d].stored))
      BY <2>1, <3>1 DEF Open, Typed, FilledFromValid
    <3> QED
      BY <3>2 DEF FilledFromValid, Map2TaskStruct, IsValid
  <2>2. CASE UNCHANGED form
    BY <2>2 DEF FilledFromValid, Map2TaskStruct, IsValid
  <2> QED
    BY <2>1, <2>2, StepKinds DEF Writes, Create, Revise, Delete, formVars
<1> QED
  BY <1>1, <1>2, AlwaysTyped, StoredStaysValid, PTL DEF FormsSpec

(* What becomes of a field when a task is revised.                         *)
LEMMA Revised ==
    ASSUME NEW x \in TaskContent, NEW f \in Field, Typed, Revise(x)
    PROVE  /\ Value(task', f) = IF x[f] # 0 THEN x[f] ELSE Value(task, f)
           /\ f \in DOMAIN task' <=> f \in DOMAIN task \/ x[f] # 0
<1>1. task' = Set(task, TaskStruct2Map(x))
  BY DEF Revise
<1> QED
  BY <1>1 DEF Set, TaskStruct2Map, Given, Value, Map2TaskStruct

(* A form that is sent changes what its user edited and, in the fields     *)
(* that nobody has changed since it was filled, nothing else.              *)
THEOREM FormsSaveEdits == FormsSpec => SavedAsEdited
<1> DEFINE Saved(c, y) ==
       LET old  == form[c].stored
           whole(f) == /\ f = "content" => Value(old, f) <= Buffer - 3
                       /\ f = "status"  => Value(old, f) # 0 IN
       \A f \in Field :
          IF f \in DOMAIN y
          THEN Value(task', f) = (IF y[f] # 0 THEN y[f] ELSE Value(task, f))
          ELSE whole(f) /\ Value(task, f) = Value(old, f) =>
                  (f \in DOMAIN task' <=> f \in DOMAIN task)
                  /\ Value(task', f) = Value(task, f)
<1>1. Typed /\ ShortIsReturned /\ FilledFromValid =>
         \A c \in Client, y \in Edits : Submit(c, y) => Saved(c, y)
  <2> SUFFICES ASSUME Typed, ShortIsReturned, FilledFromValid,
                      NEW c \in Client, NEW y \in Edits, Submit(c, y)
               PROVE  Saved(c, y)
    OBVIOUS
  <2> DEFINE old  == form[c].stored
             kept == Filled(form[c].shown)
             sent == Set(kept, y)
  <2>1. form[c] # None /\ Revise(sent)
    BY DEF Submit
  <2>2. sent \in TaskContent
    BY <2>1, SentIsTask
  <2>3. ASSUME NEW f \in Field, f \in DOMAIN y
        PROVE  Value(task', f) = IF y[f] # 0 THEN y[f] ELSE Value(task, f)
    <3>1. sent[f] = y[f]
      BY <2>3 DEF Set
    <3> QED
      BY <2>1, <2>2, <3>1, Revised
  <2>4. ASSUME NEW f \in Field, f \notin DOMAIN y,
               f = "content" => Value(old, f) <= Buffer - 3,
               f = "status" => Value(old, f) # 0,
               Value(task, f) = Value(old, f)
        PROVE  /\ f \in DOMAIN task' <=> f \in DOMAIN task
               /\ Value(task', f) = Value(task, f)
    <3>1. sent[f] = kept[f]
      BY <2>4 DEF Set, Filled
    <3>2. form[c].shown[f] = Value(old, f)
      BY <2>1, <2>4 DEF ShortIsReturned
    <3>3. f = "status" => Value(old, f) \in 1..3
      BY <2>1, <2>4 DEF FilledFromValid, IsValid, Value
    <3>4. kept[f] = IF f = "date" THEN 0 ELSE Value(task, f)
      BY <2>4, <3>2, <3>3 DEF Filled
    <3>5. Value(task, f) # 0 => f \in DOMAIN task
      BY DEF Value, Map2TaskStruct
    <3> QED
      BY <2>1, <2>2, <3>1, <3>4, <3>5, Revised
  <2> QED
    BY <2>3, <2>4
<1>2. Typed /\ ShortIsReturned /\ FilledFromValid /\ [FormsNext]_formVars =>
         \A c \in Client, y \in Edits : Submit(c, y) => Saved(c, y)
  BY <1>1
<1> QED
  BY <1>2, AlwaysTyped, ShownIsStored, AlwaysFilledFromValid, PTL
     DEF FormsSpec, SavedAsEdited
=============================================================================
