----------------------------- MODULE MCCalendarLink -----------------------------
(* Small instances of CalendarLink: one external calendar, which the accounts of *)
(* one person open one after the other.                                          *)
EXTENDS CalendarLink, TLC

CONSTANTS calendar, m1, m2

OneCalendar == [a \in Accounts |-> calendar]
\* The second meeting is there to be scheduled by the first one's completion.
TwoThenNone == (m1 :> 2) @@ (m2 :> 0)

===============================================================================
