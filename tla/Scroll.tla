------------------------------- MODULE Scroll -------------------------------
(***************************************************************************)
(* The cursor and window arithmetic every list panel shares                *)
(* (internal/ui/panels/scroll.go).  Indices count from 0, as in the code.  *)
(***************************************************************************)
EXTENDS Integers

\* clampIndex: an empty list leaves the cursor at zero.
ClampIndex(i, n) ==
  IF n <= 0 \/ i < 0 THEN 0 ELSE IF i < n THEN i ELSE n - 1

\* Mutated clampWindow: the window is scrolled down one row short.
ClampWindowShort(target, offset, height, total) ==
  IF height <= 0 \/ total <= height
  THEN 0
  ELSE LET up == IF target < offset THEN target ELSE offset
           down == IF target >= up + height THEN target - height ELSE up
       IN  IF down > total - height THEN total - height ELSE down

\* clampWindow: the offset that brings target into a window of height rows over
\* total rows, moving as little as possible.
ClampWindow(target, offset, height, total) ==
  IF height <= 0 \/ total <= height
  THEN 0
  ELSE LET up == IF target < offset THEN target ELSE offset
           down == IF target >= up + height THEN target - height + 1 ELSE up
           end == IF down > total - height THEN total - height ELSE down
       IN  IF end < 0 THEN 0 ELSE end
=============================================================================
