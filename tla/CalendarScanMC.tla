--------------------------- MODULE CalendarScanMC ---------------------------
(* CalendarScan with days of three units: an all-day event's first instant   *)
(* is up to two units away from its SQL start.                              *)
EXTENDS CalendarScan

MCRfcMin == -12

Ev(start, offset, length) == [start |-> start, first |-> start - offset, last |-> start - offset + length]

\* Timed events, one of them empty, and all-day events far east and far west.
MCEvents == {Ev(0, 0, 0), Ev(1, 0, 6), Ev(3, 2, 3), Ev(3, -2, 3), Ev(6, 2, 3)}

Cmp(op, flipped, lit) ==
    [op |-> op, column |-> TRUE, flipped |-> flipped, folds |-> TRUE, lit |-> lit,
     folds2 |-> FALSE, lit2 |-> 0]
Between(f, lo, f2, hi) ==
    [op |-> "between", column |-> TRUE, flipped |-> FALSE, folds |-> f, lit |-> lo,
     folds2 |-> f2, lit2 |-> hi]
Other == [op |-> "other", column |-> FALSE, flipped |-> FALSE, folds |-> FALSE, lit |-> 0,
          folds2 |-> FALSE, lit2 |-> 0]
Unfolded(op) == [Cmp(op, FALSE, 0) EXCEPT !.folds = FALSE]

Atoms ==
    {Cmp(op, f, t) : op \in Comparisons, f \in BOOLEAN, t \in {0, 3, 5}}
      \cup {Cmp(">=", FALSE, -TsMax), Cmp("<", FALSE, 10), Cmp("<", FALSE, TsMax)}
      \cup {Between(f, 1, f2, 3) : f \in BOOLEAN, f2 \in BOOLEAN}
      \cup {Other, Unfolded("<")}

\* Every filter of at most two conjuncts.
PairQueries == {{c, d} : c \in Atoms, d \in Atoms} \cup {{}}

\* Every event is before 'infinity', and before the last day that RFC3339 can write.
OpenQueries == {{Cmp(">=", FALSE, 0), Cmp("<", FALSE, t)} : t \in {RfcMax, TsMax}}

Opt(s, e, w) == [start |-> s, end |-> e, length |-> w, s |-> 1, e |-> 4, w |-> 2]
MCOptions == {Opt(s, e, w) : s \in BOOLEAN, e \in BOOLEAN, w \in BOOLEAN}
\* And a window that reaches beyond the years RFC3339 can write.
AllOptions == MCOptions \cup {[Opt(FALSE, FALSE, TRUE) EXCEPT !.w = TsMax]}
NoOptions == {Opt(FALSE, FALSE, FALSE)}
=============================================================================
