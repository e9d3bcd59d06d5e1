# A verification of the task-list service

This directory holds TLA+ models of the service in `src/` (an HTTP server for
shared task lists on top of a neo4j graph database), the TLC runs that check
them on small instances and the TLAPS proofs of the properties that matter most
for instances of any size.

## 1. The system

A request travels `Api` (one handler per route, `api/api.cpp`) -> `TaskListsWorker`,
`TasksWorker` or `Users` -> `DB` (`db/DB.cc`) -> neo4j. The httplib server runs
handlers on a thread pool; the handlers share one `DB` object, which opens a new
connection for every call, and nothing in the process locks the graph. The only
lock guards `Api::invalid_tokens`.

| component | state | operations | what makes it correct |
|---|---|---|---|
| `DB` | the graph: User, TaskList and Task nodes; Owns, Contains and Access relationships | 22 methods, each one to four auto-commit Cypher queries | unique keys; no dangling relationship; what exists is listed; what is acknowledged happened; access verdicts and listings justified by what was granted |
| `TaskListsWorker` | none | 11 methods: Query, Create (rename loop), Delete, Revise, the listings, the grants | nobody changes or reads a list without a ground in its visibility or a permission; the name a create returns is the list created; a partial grant is reported as what it is |
| `TasksWorker` | none | 5 methods: a gate (checkAccess or Exists), then one DB method; Create has the rename loop | the same for tasks |
| `TaskContent` | none | IsValid: dates, their order, known priority and status | a task is accepted exactly if its dates are days of the calendar, in order |
| `Users` | none | Create, Validate, DuplicatedEmail, Delete | one registration wins, its password stays |
| `Api` sessions | `invalid_tokens`, `token_secret_key`, the clock | Register, Login, Logout, the token check of every handler | a token that was logged out is refused from then on; a fresh token is accepted |
| `Api` handlers | none | decode, one worker call, format | the message reports what happened |
| utilities (`common/utils.h`) | the struct tm of the C library | IsDate, Rename, IsEmail, Split, RandomString | IsDate agrees with the calendar; Rename is injective in its suffix |
| client (`client/*.html`) | the token in the browser, the forms that are open | one request per click; a form sends back all it was filled with | saving a form changes what its user edited and nothing else |

What is hard about this code is that nothing is one transaction. A method of `DB`
is several queries, a method of a worker several calls of `DB`: a check and the
act it justifies are apart, other threads run in between, any query may fail,
the reply of one that committed may be lost, and `connectDB` throws inside a
`noexcept` handler, which ends the process with the requests of all threads
half-way. `PROJECT.json` lists these hazards at their lines.

## 2. The modules

| module | what it is |
|---|---|
| `DB` | the class `DB` and the graph: one operator per method, one disjunct per query |
| `TaskTree` | abstract specification: the tree of lists and tasks clients see |
| `DBTree` | the refinement mapping from `DB` to `TaskTree` |
| `AccessAudit` | `DB` with a history variable that remembers what was true of a list during a call |
| `Workers` | `TaskListsWorker`, `TasksWorker` and the registration, over `DB`: one operator per method, one disjunct per DB call |
| `WorkersAudit` | `Workers` with a history variable that remembers what was true during a request and what it did |
| `Sessions` | accounts and sessions: the register, login and logout handlers with `Users`, the token check, the clock and restarts |
| `Dates` | `TaskContent::IsValid` and `IsDate`, with the struct tm all threads share |
| `TaskForms` | the fields of a task on their way between the graph and the form of `task.html` |
| `MCDB`, `MCAccessAudit`, `MCWorkers`, `MCDates`, `MCTaskForms` | constants, requests and symmetry for TLC |
| `DBProofs` | type correctness, integrity of the graph |
| `DBListingProofs` | nothing that exists is hidden from the listings; what creates leave alone and what their success means; `DB` implements `TaskTree` |
| `AccessAuditProofs` | what checkAccess, addAccess and allGrant answer had a ground |
| `WorkersProofs` | the workers are well typed and use `DB` as its specification allows; who changes what, who reads what |
| `WorkersLoopsProofs` | the loops: what creates and shares answer, and that rename loops end |
| `SessionsProofs` | a logout is final, a registration is kept |
| `DatesProofs` | the way of a date through `mktime` and `localtime`; a validation that is not disturbed is right |
| `TaskFormsProofs` | what is stored is valid, what is shown is stored, what is edited is saved |

`Workers` EXTENDS `DB`: a step of the program is a step of a worker, which may enter
a method of `DB`, or a query of the method a thread is in. `WorkersAudit` and
`AccessAudit` add history to these two layers. `Sessions` stands beside them: it is
the part of a request before the worker is called, and shares no state with
the graph but the accounts, of which it has its own copy. `Dates` is what the field
`valid` of a request in `Workers` abstracts, and `TaskForms` what its `value` does: the
fields, which `DB` and `Workers` carry along unread.

### How `DB` corresponds to the code

* `user`, `list`, `task` map a key to the node with that key or `None`.
  A list's key is its owner's email and its name, a task's key the list's key
  and its name: the unique constraints of `ensureConstraints` make them
  functions. `owns`, `contains` and `access` are the relationships. `MERGE` keeps
  one relationship per pair of nodes, so they are sets; an Access relationship
  carries its `read_write` flag as `"read"` or `"write"`.
* `call[t]`, `step[t]` are the method a thread is in and the query it runs next.
  `ret[t]` and `out[t]` are the code and the rows of its last call. Each disjunct
  of a method is one `executeQuery` with the examination of its result up to the
  next query or return.
* A query is atomic. This is what neo4j promises of an auto-commit transaction
  whose statement touches one pattern; it is the one assumption about the
  database besides the unique constraints.
* The field maps are abstracted to the primary key, the visibility, and one value
  that stands for the password, the content and the other task fields, which
  `DB` treats alike.
* `Begin` performs the argument checks that come before `connectDB`, and
  `checkAccess`' answer for a user's own list.
* `Unreliable = TRUE` adds the failures: `QueryFails` (neo4j_check_failure before
  anything was written), the second disjunct of `Written` and `Finish` (the
  query was committed, its reply lost) and `Crash`.
* Not in the model: a result stream that breaks after the first row (the code
  takes it for the end of the rows), quoting of strings in queries, the
  1024-byte buffers (of `getTaskNode` they are in `TaskForms`), `neo4j_close_results` and other resource handling.

`TaskTree` has five kinds of steps: a list or a task appears, a task disappears,
the tasks of some lists of one user are cleared, such lists disappear with every
task they show, everything is wiped. `DBTree` maps "list exists" to the list node
and "task is listed" to its Contains relationship; Owns, Access, users, failures
and calls in progress are invisible.

### How `Workers` corresponds to the code

* `job[t]` is the request thread `t` works on (`RequestData` and the content, as the
  handler hands them to the worker), `stage[t]` the DB call whose result the method
  waits for, `pass[t]` how often its loop has run, `answer[t]` the code it returned
  with the name of a create or the `errUser` of a share request.
* A method is a program of DB calls. `Receive` is its beginning, up to and including
  the first call: `Fault` are the refusals that come before it, in their order. `Back`
  says that a call has returned; `Call` makes the next, `Tell` returns. The code
  between two calls has no effect another thread could see.
* `GateFirst` and `Refusal` are the gate of the methods on tasks: `checkAccess` and
  its flag for another user's list, `Exists` for one's own. `ForeignFirst` is that of
  `TaskListsWorker`, which checks nothing for one's own list.
  `VisibilityFirst` is `GetVisibility`, the first call of the methods about shares.
* `NextName` is the do-while loop of the two creates. A name is the sequence of
  the suffixes `Rename` has put behind it: `<<>>` is "a", `<<1>>` is "a(1)",
  `<<1, 2>>` is "a(1)(2)"; creating "a(1)" when it exists makes "a(1)(1)".
* `NextGrant` is the loop of `ReviseGrantTaskList`; `ErrUser` is what it leaves in `errUser`
  when a grant fails. For an entry without a name it returns `ERR_RFIELD` and leaves
  `errUser` empty.
* `ShareDeleteUsers` is the overload of `RemoveGrantTaskList` that takes a list of users,
  a stub that returns SUCCESS. `ShareDelete` calls it when `other` is missing.
* `Register` is `UsersRegister` with `DuplicatedEmail` and `Create` of `Users`.
* `valid` is the verdict of `IsValid` on the content. The checks for empty user,
  list or task parameters of the workers are left out: the routes do not match
  an empty segment, so no request reaches them.
* `Die` is the end of the process: `Crash` of `DB`, and the threads forget their requests.
* `MaxCreates` bounds the creates that are ever started, and so the suffixes. The
  guard it adds to `NextName` blocks no behaviour: `PassesBounded` shows that the loop
  is never there, `Answered` that nobody waits for it.

In `WorkersAudit`, `seen[t]` collects facts while thread `t` has a request: that the list of
another user was shared or public, that its user had a permission on it, that a
name was taken, that a permission was in force or the list gone; and what the
queries of the request made.

### How `Dates` corresponds to the code

* `IsDate` reads month, day and year, converts them with `mktime`, the result back with
  `localtime` and compares day, month and year. `mktime` counts the days in the
  proleptic Gregorian calendar, with the C library's table of the days before each month (`DaysToMonth`), and
  takes a month or a day out of range as a count from the year or the month; `localtime` looks for the last year
  and month that begin no later than the time. Both are external. That one undoes the other on days of the calendar
  is not built in: the theorem `AloneIsRight` rests on a proof of it (`RoundTrip`).
* `localtime` looks among `Years`, which must surround the years of the dates (`YearsAssumption`); a set of all
  integers would do as well, but not for TLC.
* `localtime` returns a pointer to the one struct tm of the process. The library
  writes it under the lock of the time zone (`writer`), and `IsDate` reads it without
  any. The data race is resolved field by field: `Write` writes one field of `tm`,
  `Read` compares one, and `&&` stops at the first that differs.
* `Log` is the line every handler logs: `std::ctime` writes the same struct.
* A text is empty, or a date with equal delimiters, or one with different delimiters,
  or nothing that `operator>>` can read. What follows a date in its text is ignored
  by the code, so such a text is a date here.
* `alone[t]` is history: while `t` was reading, nobody has written into the struct what differs from the date of `t`.

### How `TaskForms` corresponds to the code

* `task` is the node, a function from the fields it has: the name, the owner and the
  list, which a revise cannot touch, are left out. Each request is one query on the node, so
  it is one step; the gate before it reads nothing of the task (it is in `Workers`), and
  a request that is refused changes nothing.
* A value is a number, 0 for the empty string and for `NULL_PRIORITY`. The content is its
  length, which is what the buffer depends on; a date is a day, or `NoDate` for a text that
  `IsDate` refuses (`Dates` has the details); the status is its place in To Do, Doing, Done. `to_string` and `stoi` of
  the priority undo each other on the codes `IsValid` lets through.
* `IsEmpty` does not look at `date`, so a revise of this field alone is refused.
* `Printed` is `neo4j_tostring` into `Buffer` bytes and the removal of the first and last
  character: of a text that did not fit, the last character dropped is one of its own.
* `Open` is the request `showInfo` makes (`form[c].shown`), with what was stored at that
  moment as history (`form[c].stored`). `Submit` is `createOrReviseTask`: every field of the form goes
  out, whether its user changed it or not. What the user has changed (`y`) is chosen when the
  form is sent, since nobody sees it before. The form stays open and can be sent again.
* `Filled` is what the form makes of the answer: it has no field for `date`, and the
  selection shows "Done" for a status that is not set.

### How `Sessions` corresponds to the code

* `secret` and `invalid` are `token_secret_key` and `invalid_tokens`. A JWT is a
  record of what determines it: email, second of expiry, secret. The server
  keeps no record of the tokens it gave out; `issued` is what clients hold.
  Requests carry issued tokens only: forged ones are left to HS256.
* `req[t]`, `step[t]` are the request of a thread and the next step of its
  handler: one query of `Users`, one critical section of `invalid_tokens_lock`,
  or the code between two of them. `UsersLogout` looks the token up in one
  critical section and inserts it in another.
* `passwd` is the password of the User nodes. `createUserNode` and `getUserNode`
  are one query each and their verdict is that of `DB`'s methods; with
  `Unreliable = TRUE` any of them may fail, and a CREATE may be committed and its answer
  lost. Then there is no error code, the comparison with one ends the process, and the
  new user is there: `CreateLost` is a part of `Restart`. `DuplicatedEmail` takes a failure for
  "no such user", as the code does.
* `Restart` is the end of the process and the start of the next one in a later
  second. The secret is drawn with `srand(time * getpid())`, so it stands for the
  second the process started in: that another second gives another secret is an
  assumption about `rand`, and the one thing that keeps tokens of the old
  process out once `invalid_tokens` is gone.
* `Serve` is the rest of any handler that checks a token; what it does to lists
  and tasks is `DB`'s part. Checks of the request's form come before step 1.
* `loggedOut` and `accounts` are history: the logouts and registrations that were
  answered with success.

## 3. The runs

| run | instance | what it shows |
|---|---|---|
| `db_tasks` | 3 threads, 2 contents, failures, lost replies and crashes; lists and users stay | `TaskHasList`: no task is made without a list (where lists stay this is a matter of the check for the list; the race with their deletion is in `db_orphan`); `CreateKeepsData`: only the step that finishes a revise changes a node that stays, so the loser of a create race changes nothing; `AcknowledgedIsListed`: SUCCESS of a create means that the node is listed, although its MERGE may fail and what it matched is never looked at; `HiddenIsTold`: a task that is neither listed nor about to be linked is one whose create ended without SUCCESS |
| `db_failures` | 2 threads, 2 users, failures and crashes, all methods but the revises of users and tasks | `GraphIntegrity`; `NoResurrection`: a task no listing shows never reappears in one; `ImplementsTree`: clients see `TaskTree` |
| `access_audit` | 2 threads, 2 users, failures and crashes | `VerdictHadGround`, `GrantHadGround`, `ListingHadGround`: the visibility and the permission that justify what checkAccess, addAccess and allGrant answer were each there at some instant of the call |
| `workers_access` | 2 threads, 3 users, failures and crashes | `WorkTypeOK`; `ChangesHadGround`, `ReadsHadGround`: whatever a request changed or returned was its user's own, or on a list that was public at some instant of the request, or shared at one and permitted to the user at one; `ShareAsTold`: everybody before `errUser`, and on success everybody, got the permission |
| `workers_names` | 2 threads, 1 user, names up to "a(1)", two creates of each kind | `TypeOK`, `NoHiddenList` for the program; `CreatedAsTold`: a create returns the name it made, and the smaller suffixes were taken; `PassesBounded`, `Answered`: the loops end, every request is answered |
| `sessions` | 2 threads, 2 passwords, clock to 2, failures, restarts | `TypeOK`; `LoggedOutStaysOut`: after the answer to a logout no thread lets its token in; `AccountKept`: the registration told success has the account; `Responds`: every request is answered |
| `dates` | 2 threads, 17 contents | `RightIfAlone`: `IsValid` agrees with the calendar unless another thread converts another date between the `localtime` and the comparison |
| `task_forms` | 2 pages, a program, 11 contents, 6 edits | `StoredIsValid`: the fields stored are together a task that `IsValid` accepts, although it sees only those that are sent; `ShortIsReturned`: up to 1021 characters come back as they were stored; `SavedAsEdited`: a saved form changes what was edited and leaves alone what nobody else has changed since |
| `db_orphan` | 2 threads | violation of `TaskHasList`: a task outlives its list |
| `sessions_relogin` | 1 thread | violation of `FreshTokenUsable`: a login hands out a token that was logged out |
| `share_failed_all` | 2 threads | violation of `FailedAllGaveNothing`: "all users failed" although one was granted |
| `dates_race` | 2 threads | violation of `VerdictIsRight`: a valid date is refused |

### Bounds

Every hazard of `DB` is a race of two calls over one key, so two threads
and one list exhibit it; in `db_tasks` a third thread is there to repair or worsen what two
have done (delete and create again). A MERGE that fails leaves its node unlinked; `NoHiddenList`
excludes that by assuming reliable queries, and what holds in spite of it, `AcknowledgedIsListed`, `HiddenIsTold` and
`NoResurrection`, is checked with failing queries. Two users are needed where permissions are
the question, two contents where one create must not overwrite the other's.
`Owners` restricts whose lists the calls name, `Infos` what callers pass, and
`Methods` which methods they use: each run picks the methods its question is
about, and together they use all of them. Threads are interchangeable, so they are a
symmetry set, except in the runs with liveness.

The number of calls of `DB`, and of requests other than creates, is not bounded: the
state spaces are finite and explored completely. `MaxCreates` bounds creates in `Workers`, because each
may use up a new suffix. In `workers_access` one list and one task suffice: what is
at stake is who may use them, and an owner, a user with a permission, and a user who is not
registered (whose grant fails) are the roles there are. Sharing, publishing, taking
the permission back and revising race with one reading and one deleting
request of the other user. `workers_names` creates two lists and two tasks of the
same name: the second create meets the first, a deletion may free the name
between two passes, and the same request may be sent again.

The bounds of `Sessions`: tokens live one second, so that a clock that stops at 2
sees tokens valid, expired and of an earlier process; one email, since
tokens and accounts of different emails share nothing but the set.

`MCDates` has the last days of months, leap days of ordinary years, of 2000 and
of 1900, day 0, month 13, texts that are no dates, one date without the other and
dates out of order over the turn of a year. Two threads suffice: a third can only write the
struct as the second does.

`MCTaskForms` has the real `Buffer`, contents of 1021 and 1022 characters on both sides of what
fits it, and requests with both dates, in either order, one or none, values
`IsValid` refuses, and the field `date`. With two pages one saves what the other has read before; the program
deletes, creates and revises in between. Nothing in the runs is bounded.

### Two instants

`checkAccess` reads the visibility in one query and the permission in the next, and the workers act on its verdict
later still. So the properties about access ask for a visibility and a permission that were each there at some
instant of the call or request, not for one instant that saw both. No such instant need exist: a list can be
shared when the first query looks, be closed, and have the permission merged by an `addAccess` that was past its
own check, before the second query looks. For `allAccess`, which reads both in one query, there is nothing to audit.

### Findings

Where a property holds only under a condition, the run's methods say so:
deleting users while lists are created does leave lists without an owner (no
route of the API deletes users), and deleting lists while tasks are created
leaves tasks without a list.

* `db_orphan`: `deleteTaskListNode` deletes tasks and list in two transactions,
  `createTaskNode` can link a task in between. `NoResurrection` bounds the damage: the
  orphan stays invisible for good, and `ERR_DUP_NODE` meets whoever uses its name.
* `sessions_relogin`: a token is a function of the email, the
  second and the secret, so whoever logs in, out and in again within a second is
  told success and given a token that is refused. The system test sleeps a second
  between the two.
* `share_failed_all`: `ShareCreate` takes an empty `errUser` for "all users failed", and
  `ReviseGrantTaskList` leaves it empty when it meets an entry without a name after
  others were granted.
* `dates_race`: `IsDate` compares with the struct that another thread's `localtime` or `ctime` has
  overwritten, and refuses a valid date.

One more limit the models show: a content longer than 1021 characters is stored whole and returned
cut, and a page that shows it and saves the form stores the cut text. `ShortIsReturned` says how far
the buffer reaches, and `SavedAsEdited` excludes longer contents.

Two things `SavedAsEdited` says of the code as it is: a field that a user clears stays as it was, and
the answer is success (an empty field counts as not sent); a task whose status was never
set becomes "Done" when its form is saved, so that case is excluded. And where two users
have edited one field, the form saved last wins with what it read before.

### Fairness

`Responds` assumes weak fairness of each thread's handler, and `Answered` of every thread that has a
request, of its worker and its queries together: a handler's thread keeps running and neo4j
answers. The code sets no timeouts, so nothing weaker would do, and apart from the rename
loops every method is a straight line of queries, so no strong fairness is needed. Nothing
is assumed of clients, which may stop sending requests at any time.

`Answered` holds because each pass of a rename loop needs a name somebody else has
taken, and the number of creates is bounded. With an unbounded supply of clients that
create the same name a request can be overtaken for ever; the bound is an assumption about them.

## 4. The proofs

All for any number of threads, users, lists, tasks, values and requests, any set of methods
in use and, where not said otherwise, with failures and crashes.

### DB

* `TypeCorrect`: `Spec => []TypeOK`. By method: first the calls (`CallTypeOK`,
  with one lemma per kind of method), then the graph.
* `Integrity`: `Spec => []GraphIntegrity`. `GraphIntegrity` is inductive relative
  to `TypeOK`. Two lemmas carry it: `DetachKeepsIntegrity` (DETACH DELETE takes
  relationships with their nodes) and `LinksKeepIntegrity` (a MERGE joins two
  nodes that exist in the same transaction), the latter on `NodesStay`: a method
  that does not delete makes no node disappear.
* `NoListIsHidden`: assuming reliable queries and no deletion of users. `NoHiddenList` is
  not inductive: the MERGE must find the user it checked for two queries ago. The
  strengthening `HiddenListInv` adds `LinkersHaveUser`, that a create past its check
  still has its user.
* `HiddenAreTold`: `Spec => HiddenIsTold`, if no method in use deletes users or lists, with failures
  and crashes. `LinkersHaveParent` adds to `LinkersHaveUser` the same for lists (`LinkersHaveList`);
  given it, no query hides a task (`QueryHidesNone`), which leaves the failure of the MERGE and
  the crash. `NoTaskIsHidden` draws the conclusion for reliable queries: getAllTaskNodes
  then shows every task that is not about to be linked (`NoHiddenTask`).
* `Refinement`: `Spec => ImplementsTree`. Every query maps to one step of the tree or
  to a stutter. `GraphIntegrity` is needed twice: a task is contained only in the
  list of its own name, and what a user owns has the user's name.
* `CreatesKeepData`: `Spec => CreateKeepsData`. `QueryKeepsData` names, for each kind of node,
  the one query that may change a node that stays, and that it finishes its revise.
* `UnlistedStaysUnlisted`: `Spec => NoResurrection`. `QueryLinks`: a new Contains relationship
  is the one of a create past its CREATE, so a task that nobody is linking stays unlinked.
* `TasksHaveLists`: `Spec => []TaskHasList`, if no method in use deletes users or lists (where lists are
  deleted it fails, see `db_orphan`), on the same invariant as the next.
* `SuccessIsListed`: `Spec => AcknowledgedIsListed`, if no method in use deletes users or
  lists. A create that reaches its last query links a node that is there, to a
  parent that is there (`LinkersHaveParent`, inductive under those
  conditions); failing queries are covered, since they never return SUCCESS.

* `VerdictsHadGround`, `GrantsHadGround`, `ListingsHadGround`: `AuditSpec` of `AccessAudit` implies `VerdictHadGround`,
  `GrantHadGround` and `ListingHadGround`. The
  permission is read one query after the visibility, and either may change in between, so the invariant
  (`Ground`) says what the history has seen: how the list and the permission stand now, and, before the query
  that decides, that the list was open to sharing.

### The workers

* `WorkTypeCorrect`: `WorkersSpec => []WorkTypeOK`. The seventeen operators are first
  reduced to three shapes: a step of a worker enters a method of `DB` (`Asks`), returns (`Ends`), or
  refuses a request (`Refuses`). What the call of an `Asks` may be, given the
  request and the stage, is `Fits`; the rest of the proofs uses only these.
* `WorkersUseDB`: `WorkersSpec => Spec`. The program's behaviours are behaviours of `DB`: every
  call a worker makes is one of `Requests`, and `DB`'s state changes only by its own steps.
  So all theorems about `Spec`, `GraphIntegrity` and the refinement of `TaskTree`
  among them, hold of the program.
* `OnlyPermittedChanges`, `OnlyPermittedReads`: `AuditSpec` implies `ChangesHadGround` and `ReadsHadGround`.
  Neither follows from the state: the permission may be gone when the act comes. The invariant
  `AuditInv` says for every thread at work on another user's list that while its
  gate is on its way, what `checkAccess` has found out so far was seen (`Gating`); that once it has let the
  request pass, the list was open to it in the way it needs (`Grounded`), and that the call in progress is one that `Fits`.
  `AuditKeepsWorkers` (`AuditSpec => WorkersSpec`) carries the
  invariants of `Workers` and `DB` over.

* The loops are first reduced as the methods were: a handler takes a create or a share up (`LoopTakesUp`), makes the
  call of a pass (`LoopActs`) or answers (`LoopTells`); `LoopInv` says that the call in progress is that of the pass.
* `LoopsEnd`: `AuditSpec => []PassesBounded`. Counting nodes does not do, since what a create found taken may be deleted
  and created again. `LedgerInv` says that the creates can be numbered, and that each name can be given the
  number of the create that made its node last: different names have different numbers, a name
  found taken has one, and no create has a number there before its own CREATE went through. The
  names a create found taken are then as many as other creates (`FS_Injection`, and `Rename` gives a new name in each pass).
  The numbers are no variables of the model: the invariant quantifies over them, and each step says which ones it takes.
* `CreatesTellTheTruth`: `AuditSpec => CreatedAsTold`. `NameInv`: a create has seen every suffix before its pass taken, and
  the node it has made is that of its pass, or none.
* `SharesTellTheTruth`: `AuditSpec => ShareAsTold`. `ShareInv`: every entry before the pass was granted at some instant.
  It needs that no request of the API deletes a user (`UsersStay`): the last query of `addAccess` would match nothing, and
  say nothing about it.

### The dates

* `AloneIsRight`: `Spec => []RightIfAlone`, for any contents and threads. It has two parts. The calendar: years and months
  begin after all days of the earlier ones (`StartsGrow`), so `localtime` finds the year and month a time lies in
  (`Localtime`), gives a day of the calendar back as it is, and for a date that is none, with a month of 1 to 12, another
  day (`RoundTrip`); and days come in the order of their times (`OrderIsTime`), which is what `CompareTime` relies on.
* The struct: `Puts` says that a thread in `localtime` has put its own fields in, since it holds the lock; `Finds`, that a
  reader who is still alone finds its date if that is a day of the calendar, and if not, a day or a month
  that differs. That a writer may not make up for the difference field by field needs the order of the writes: whoever
  has put in the reader's year and month, and now the reader's day, would be writing a day that does not exist.
  `Knows` is what the checks so far have shown of the content.

### Sessions

* `LogoutIsFinal`: `Spec => LoggedOutStaysOut`. A restart empties `invalid_tokens`,
  so the set alone is not enough; `SecretGuards` says that a logged-out token is in
  the set or was signed with an older secret, and that a thread past the
  decoding of its token holds one of the current secret.
* `RegistrationIsKept`: `Spec => []AccountKept`, with failing queries and lost answers. `Create` and `CreateLost`
  write only where there is no user, so `DuplicatedEmail` may say what it likes.

### The forms

* `StoredStaysValid`: `FormsSpec => []StoredIsValid`. A revise is validated without the stored
  fields, so validity is not obviously preserved: dates come in pairs in a valid
  request, since one without the other is refused, so a revise replaces both dates or none.
* `ShownIsStored`: `FormsSpec => []ShortIsReturned`, for a buffer of any size. Both need that the
  fields are numbers (`Typed`).
* `FormsSaveEdits`: `FormsSpec => SavedAsEdited`, from `ShortIsReturned` and from `FilledFromValid`, that what a form
  was filled from was a valid task: without it a status that is none of the three options
  would come back as "Done".

### Assumptions

Those declared with the constants, which TLC evaluates in every run: in `DB` that the sets of keys are
not empty and `None` differs from every node, value and code; in `Workers` that the
requests are well formed (`JobsAssumption`: the deletion of a share has a user), that
the methods the workers call are in use (`CallsAssumption`), that the names the
rename loops can reach are names (`NamesAssumption`, `RenameAssumption`, `CreateAssumption`) and
that `None` is no error code (`NoFaultAssumption`); in `Sessions` that the clock is a number and `None` no password; in `Dates` that the
contents are well formed, the clock shows a date, and `Years` surrounds the dates; in
`TaskForms` that requests and edits have values for the fields and that the buffer has room for a date, a
priority and a status.

### Checked by TLC only

Liveness, which is out of the prover's reach: `Responds`, `Answered`; the bound on the passes of a rename loop,
which `Answered` rests on, is proved (`LoopsEnd`). Every other property of the passing runs is a theorem. The four
violations are of course found by TLC alone.

## 5. Plan

1. Proofs: no safety property of a run is unproved. `WorkersUseDB` carries the theorems about `Spec` over to the program,
   where their conditions on the methods in use hold of what the workers call; to be stated as corollaries of the
   program: that it implements `TaskTree`, keeps the graph's integrity and the data of creates, and hides no list.
2. Models: the form of `tasklist.html` and the buffers of the other reading methods, which are alike.

## 6. Not modelled

* The client pages except the form of `task.html` (one request per click), and `lqxx.cpp`, which reads two environment variables.
* Quoting: what a text with quotes does to the query it is pasted into, to the buffer or to the page.
* The decoding of JSON requests and the texts of the answers: pure functions of the request and
  of the worker's code. The one message that a property is about is that of `ShareCreate`.
* `IsEmail`, `Split`, `GetEnv`: functions of their arguments with no effect on the state; `Users::Delete`, which nothing calls.
* httplib, libneo4j-client and JWT beyond what is stated above.
