------------------------------- MODULE MCDates -------------------------------
(* Constants for model-checking Dates.                                     *)
EXTENDS Dates, TLC

ThreadSymmetry == Permutations(Thread)

MCYears == (1899..1902) \union (1999..2001) \union (2023..2025)

On(m, d, y) == [form |-> "date", m |-> m, d |-> d, y |-> y]
No(f)       == [form |-> f, m |-> 0, d |-> 0, y |-> 0]
MCToday == On(12, 12, 2023)

Task(s, e) == [start |-> s, end |-> e, rest |-> TRUE]

(* Ends of months, leap days, days and months there are not; texts that    *)
(* are no dates; one date without the other; dates out of order.           *)
MCContents ==
    {Task(x, x) : x \in {On(2, 28, 2023), On(2, 29, 2023), On(2, 29, 2024),
                         On(2, 29, 2000), On(2, 29, 1900), On(12, 31, 1900),
                         On(4, 31, 2024), On(3, 0, 2024), On(13, 1, 2023)}}
    \union {Task(No("empty"), No("empty")), Task(No("garbled"), On(2, 28, 2023)),
            Task(No("empty"), On(2, 28, 2023)), Task(On(2, 28, 2023), No("empty")),
            Task(On(12, 31, 2023), On(1, 1, 2024)),
            Task(On(1, 1, 2024), On(12, 31, 2023)),
            Task([On(2, 28, 2023) EXCEPT !.form = "mixed"], No("empty")),
            [Task(No("empty"), No("empty")) EXCEPT !.rest = FALSE]}
=============================================================================
