-------------------------- MODULE CalendarCatalogMC --------------------------
(* CalendarCatalog with one or two calendars to begin with and a few ids for *)
(* the calendars that are created.                                          *)
EXTENDS CalendarCatalog, TLC

CONSTANTS k1, k2, t

\* Two connections share the catalog.  An alias may lead to the calendar that is
\* there at first, to one that the first attachment makes, or to none at all.
OneCalendar == {{k1}}
SomeAliases == {[n \in Names |-> IF n = t THEN k ELSE None] : k \in Cals \cup {None}}

\* Both calendars are there.
TwoCalendars == {{k1, k2}}

\* An alias that is another calendar's id.
ClashingAliases == {[n \in Names |-> IF n = k2 THEN k1 ELSE None]}

\* Ids to be given out are interchangeable, and so are connections.
ConnSymmetry == Permutations(Conns) \cup Permutations(Cals \ {k1})
=============================================================================
