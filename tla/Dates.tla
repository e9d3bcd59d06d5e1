-------------------------------- MODULE Dates --------------------------------
(***************************************************************************)
(* The dates of a task: TaskContent::IsValid and Common::IsDate, run by    *)
(* the threads of the server.  IsDate converts a date to a time and back   *)
(* and compares.  The way back is localtime, whose result lies in one      *)
(* struct tm of the whole process: it is written under the lock of the     *)
(* time zone and read without any.  The line that the handlers log calls   *)
(* ctime, which writes the same struct.                                    *)
(*                                                                         *)
(* The race on the struct is resolved as the library writes and the code   *)
(* reads it: field by field, in program order.                             *)
(***************************************************************************)
EXTENDS Integers, Sequences, FiniteSetsExt

CONSTANTS
    Thread,
    Contents,   \* the tasks that requests carry
    Years,      \* the years around those of Contents and Today
    Today,      \* the date on the clock of the server
    None

(* A text is empty, or operator>> reads a month, a day and a year out of   *)
(* it, between delimiters that are the same (date) or not (mixed), or it   *)
(* fails (garbled).  rest: priority and status are known ones.             *)
Form    == {"empty", "date", "mixed", "garbled"}
Text    == [form : Form, m : Int, d : Int, y : Int]
Content == [start : Text, end : Text, rest : BOOLEAN]

ASSUME ContentsAssumption == Contents \subseteq Content
ASSUME TodayAssumption    == Today \in Text /\ Today.form = "date"
ASSUME NoneAssumption     == None \notin Thread

VARIABLES
    tm,        \* the struct tm that localtime returns a pointer to
    writer,    \* the thread that holds the lock of the time zone, or None
    content,   \* content[t]: the task that thread t validates
    at,        \* at[t]: where in IsValid it is
    mode,      \* mode[t]: what IsDate does with the date at[t]
    fields,    \* fields[t]: the fields of tm still to be written or read
    verdict,   \* verdict[t]: what IsValid returned, or None
    alone      \* history: nobody wrote another date while t was reading
dateVars == <<tm, writer, content, at, mode, fields, verdict, alone>>

-----------------------------------------------------------------------------
(* The calendar: mktime and localtime.                                     *)

Leap(y) == y % 4 = 0 /\ (y % 100 # 0 \/ y % 400 = 0)

(* The days before a year, and before a month of it (the table that the C  *)
(* library keeps).                                                         *)
DaysToYear(y) ==
    365 * (y - 1) + (y - 1) \div 4 - (y - 1) \div 100 + (y - 1) \div 400

DaysToMonth(y, m) ==
    <<0, 31, 59, 90, 120, 151, 181, 212, 243, 273, 304, 334>>[m + 1]
        + IF m > 1 /\ Leap(y) THEN 1 ELSE 0

(* mktime takes any month and any day, and counts on from there.           *)
mktime(f) ==
    LET y == f.year + 1900 + f.mon \div 12 IN
    DaysToYear(y) + DaysToMonth(y, f.mon % 12) + f.mday

Start(y, m) == mktime([mday |-> 1, mon |-> m, year |-> y - 1900])

(* The last year and month that begin no later than time.                  *)
localtime(time) ==
    LET year  == Max({y \in Years : Start(y, 0) <= time})
        month == Max({m \in 0..11 : Start(year, m) <= time}) IN
    [mday |-> time - Start(year, month) + 1, mon |-> month, year |-> year - 1900]

(* Mutant: tm_mon counts from 1. *)
FieldsFromOne(x) == [mday |-> x.d, mon |-> x.m, year |-> x.y - 1900]

Fields(x) == [mday |-> x.d, mon |-> x.m - 1, year |-> x.y - 1900]

Order(x) == mktime(Fields(x))

(* Years stands for all of them: the times that are converted lie in years *)
(* of its own, and so do the years after these.                            *)
Texts == {Today} \union {c.start : c \in Contents} \union {c.end : c \in Contents}

ASSUME YearsAssumption ==
    /\ Years \subseteq Int
    /\ \A x \in Texts : x.form = "date" =>
          \E y \in Years : /\ y + 1 \in Years
                           /\ Start(y, 0) <= Order(x) /\ Order(x) < Start(y + 1, 0)

-----------------------------------------------------------------------------
Empty(x) == x.form = "empty"

First(c) == IF ~Empty(c.start) THEN "start"
            ELSE IF ~Empty(c.end) THEN "end" ELSE "rest"
Next(t)  == IF at[t] = "start" /\ ~Empty(content[t].end) THEN "end" ELSE "rest"

WriteOrder == <<"year", "mon", "mday">>
ReadOrder  == <<"mday", "mon", "year">>

(* The date thread t converts; the handlers' log converts the time of day. *)
Date(t) == IF at[t] = "log" THEN Today ELSE content[t][at[t]]

Readable(x) == x.form = "date"

Return(t, v) == /\ verdict' = [verdict EXCEPT ![t] = v]
                /\ at'      = [at EXCEPT ![t] = "idle"]
                /\ mode'    = [mode EXCEPT ![t] = "convert"]
                /\ fields'  = [fields EXCEPT ![t] = <<>>]

Validate(t) ==
    /\ at[t] = "idle"
    /\ \E c \in Contents : /\ content' = [content EXCEPT ![t] = c]
                           /\ at'      = [at EXCEPT ![t] = First(c)]
    /\ verdict' = [verdict EXCEPT ![t] = None]
    /\ alone'   = [alone EXCEPT ![t] = TRUE]
    /\ UNCHANGED <<tm, writer, mode, fields>>

Log(t) ==
    /\ at[t] = "idle"
    /\ at'      = [at EXCEPT ![t] = "log"]
    /\ content' = [content EXCEPT ![t] = None]
    /\ verdict' = [verdict EXCEPT ![t] = None]
    /\ UNCHANGED <<tm, writer, mode, fields, alone>>

(* IsDate up to the lock that localtime takes.                             *)
Convert(t) ==
    /\ at[t] \in {"start", "end", "log"} /\ mode[t] = "convert"
    /\ \/ /\ ~Readable(Date(t))
          /\ Return(t, FALSE)
          /\ UNCHANGED writer
       \/ /\ Readable(Date(t))
          /\ writer = None
          /\ writer' = t
          /\ mode'   = [mode EXCEPT ![t] = "write"]
          /\ fields' = [fields EXCEPT ![t] = WriteOrder]
          /\ UNCHANGED <<at, verdict>>
    /\ UNCHANGED <<tm, content, alone>>

(* localtime puts one field into the struct; the last one ends the call.   *)
Write(t) ==
    LET f == Head(fields[t])
        v == localtime(mktime(Fields(Date(t))))[f]
        last == Len(fields[t]) = 1 IN
    /\ mode[t] = "write"
    /\ tm' = [tm EXCEPT ![f] = v]
    /\ alone' = [o \in Thread |->
                    alone[o] /\ (mode[o] = "read" => v = Fields(Date(o))[f])]
    /\ writer' = IF last THEN None ELSE writer
    /\ IF last /\ at[t] = "log" THEN Return(t, None)
       ELSE /\ mode' = [mode EXCEPT ![t] = IF last THEN "read" ELSE @]
            /\ fields' = [fields EXCEPT ![t] = IF last THEN ReadOrder ELSE Tail(@)]
            /\ UNCHANGED <<at, verdict>>
    /\ UNCHANGED content

(* IsDate compares one field; && stops at the first that differs.          *)
Read(t) ==
    LET f == Head(fields[t])
        last == Len(fields[t]) = 1 IN
    /\ mode[t] = "read"
    /\ IF tm[f] # Fields(Date(t))[f] THEN Return(t, FALSE)
       ELSE /\ mode'   = [mode EXCEPT ![t] = IF last THEN "convert" ELSE @]
            /\ fields' = [fields EXCEPT ![t] = Tail(@)]
            /\ at'     = [at EXCEPT ![t] = IF last THEN Next(t) ELSE @]
            /\ UNCHANGED verdict
    /\ UNCHANGED <<tm, writer, content, alone>>

(* CompareTime, on times of the thread's own.                              *)
InOrder(c) == Order(c.start) <= Order(c.end)

(* The rest of IsValid: both dates or none, their order, the other fields. *)
Rest(t) ==
    LET c == content[t] IN
    /\ at[t] = "rest"
    /\ Return(t, /\ Empty(c.start) <=> Empty(c.end)
                 /\ ~Empty(c.start) => InOrder(c)
                 /\ c.rest)
    /\ UNCHANGED <<tm, writer, content, alone>>

-----------------------------------------------------------------------------
Init == /\ tm = Fields(Today)
        /\ writer  = None
        /\ content = [t \in Thread |-> None]
        /\ at      = [t \in Thread |-> "idle"]
        /\ mode    = [t \in Thread |-> "convert"]
        /\ fields  = [t \in Thread |-> <<>>]
        /\ verdict = [t \in Thread |-> None]
        /\ alone   = [t \in Thread |-> TRUE]

DatesNext == \E t \in Thread : \/ Validate(t) \/ Log(t)
                               \/ Convert(t) \/ Write(t) \/ Read(t) \/ Rest(t)

Spec == Init /\ [][DatesNext]_dateVars

-----------------------------------------------------------------------------
(* What a calendar on the wall says of a date, and of the dates of a task. *)
MonthLength(y, m) == IF m = 2 THEN (IF Leap(y) THEN 29 ELSE 28)
                     ELSE IF m \in {4, 6, 9, 11} THEN 30 ELSE 31

IsCalendarDate(x) == x.m \in 1..12 /\ x.d \in 1..MonthLength(x.y, x.m)

Before(x, z) == \/ x.y < z.y
                \/ x.y = z.y /\ x.m < z.m
                \/ x.y = z.y /\ x.m = z.m /\ x.d < z.d

Acceptable(c) ==
    /\ c.rest
    /\ \/ Empty(c.start) /\ Empty(c.end)
       \/ /\ \A x \in {c.start, c.end} : x.form = "date" /\ IsCalendarDate(x)
          /\ ~Before(c.end, c.start)

(* A task is accepted exactly if its dates are days of the calendar, in    *)
(* order, and its other fields known (TaskContent::IsValid, "@return true  *)
(* if member variables are valid"), whatever other threads do, as long as  *)
(* none of them converts another date between the localtime of this thread *)
(* and the comparisons that follow it.                                     *)
RightIfAlone == \A t \in Thread :
    verdict[t] # None /\ alone[t] => verdict[t] = Acceptable(content[t])

(* The same without the proviso: "True if string in date format, false     *)
(* otherwise" (utils.h, IsDate).                                           *)
VerdictIsRight == \A t \in Thread :
    verdict[t] # None => verdict[t] = Acceptable(content[t])
=============================================================================
