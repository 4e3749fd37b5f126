------------------------------- MODULE Layout -------------------------------
(***************************************************************************)
(* How the right-hand column of the screen is divided between the request  *)
(* form, the headers and the response (internal/ui/layout.go).             *)
(***************************************************************************)
EXTENDS Integers

Least(a, b) == IF a < b THEN a ELSE b
Greatest(a, b) == IF a > b THEN a ELSE b

\* minPanelHeight, and the border and title of a panel.
MinPanelHeight == 3
Chrome == 3

\* innerSize: the lines left for a panel's content.
Inner(outer) == Greatest(outer - Chrome, 0)

\* splitHeight: the upper of two panels; the lower has the rest.
SplitTop(total, want, min) ==
  IF total < 2 * min THEN total \div 2 ELSE Least(Greatest(want, min), total - min)

\* splitColumn: the middle panel is settled first, and against the whole column.
SplitMiddle(total, want, min) ==
  IF want <= 0 THEN 0
  ELSE IF total < 3 * min THEN total \div 3 ELSE Least(Greatest(want, min), total - 2 * min)

\* splitColumn, with the form and the response around the headers.
SplitColumn(total, wantTop, wantMiddle, min) ==
  LET middle == SplitMiddle(total, wantMiddle, min)
      top == IF wantMiddle > 0 /\ total < 3 * min
             THEN total \div 3 ELSE SplitTop(total - middle, wantTop, min)
  IN  [top |-> top, middle |-> middle, bottom |-> total - middle - top]
=============================================================================
