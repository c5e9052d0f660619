-------------------------- MODULE UpdateStatementMC --------------------------
(* Instances of UpdateStatement for TLC: days of four units, a filter that is *)
(* the second of them, and a calendar an hour ahead of UTC.                   *)
EXTENDS UpdateStatement, TLC

MCColumns == <<"summary", "start", "end", "all_day", "html_link", "attendees">>

Body(summary, start, end) == ("summary" :> summary) @@ ("start" :> start) @@ ("end" :> end)
Timed(wall, ahead) == Body("a", Node("dateTime", wall, ahead), Node("dateTime", wall + 1, ahead))
AllDayOn(wall) ==
    ("attendees" :> "list") @@ ("start" :> Node("date", wall, 0)) @@ ("end" :> Node("date", wall + Day, 0))

\* In the filter; in it by UTC but on the next day by the wall clock; out of it but
\* listed; all-day.
MCBodies == {Timed(5, 0), Timed(9, 2), Timed(9, 1), AllDayOn(4)}
LocalBodies == {Timed(5, 0), Timed(9, 2)}

To(name, val) == [name |-> name, val |-> val]
MCSets ==
    {<<To("summary", Null), To("attendees", Malformed)>>, <<To("summary", "b"), To("html_link", "x")>>,
     <<To("start", 6)>>, <<To("start", Null)>>,
     <<To("all_day", TRUE)>>, <<To("all_day", FALSE), To("attendees", "list2")>>,
     <<To("start", 6), To("all_day", TRUE)>>, <<To("all_day", TRUE), To("end", 10)>>}
AllDaySets == {<<To("all_day", TRUE)>>, <<To("start", 6)>>}
=============================================================================
