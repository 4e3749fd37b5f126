--------------------------- MODULE LayoutProofs ---------------------------
(***************************************************************************)
(* What the arithmetic of the screen gives for every terminal and every    *)
(* list: Layout's columns, and Scroll's cursor and window; and, before it, *)
(* the induction that the panels' proofs rest on.                          *)
(***************************************************************************)
EXTENDS Layout, Scroll, WellFoundedInduction, TLAPS

-----------------------------------------------------------------------------
(* Induction, of which the library's rules take an operator: here over the *)
(* set of the numbers that have a property, and a function for a rule.     *)

\* A set with 0 and every successor has every number.
LEMMA Inductive ==
  ASSUME NEW S, 0 \in S, \A n \in Nat : n \in S => n + 1 \in S
  PROVE  Nat \subseteq S
<1> DEFINE T == Nat \ S
           R == {ss \in Nat \X Nat : ss[1] < ss[2]}
<1>1. SUFFICES ASSUME T # {} PROVE FALSE
  OBVIOUS
<1>2. IsWellFoundedOn(R, Nat)
  BY NatLessThanWellFounded DEF OpToRel
<1>3. PICK m \in T : \A k \in T : ~(<<k, m>> \in R)
  <2>1. T \subseteq Nat
    OBVIOUS
  <2> HIDE DEF T, R
  <2>2. QED BY <1>1, <1>2, <2>1, WFMin
<1>4. m - 1 \in Nat /\ m - 1 \notin S
  OBVIOUS
<1>5. <<m - 1, m>> \in R
  BY <1>4
<1>6. QED BY <1>3, <1>4, <1>5

\* A set of numbers with one in it has a least.
LEMMA Least1 ==
  ASSUME NEW S, S \subseteq Nat, S # {}
  PROVE  \E m \in S : \A k \in S : m <= k
<1> DEFINE R == {ss \in Nat \X Nat : ss[1] < ss[2]}
<1>1. IsWellFoundedOn(R, Nat)
  BY NatLessThanWellFounded DEF OpToRel
<1>2. PICK m \in S : \A k \in S : ~(<<k, m>> \in R)
  <2> HIDE DEF R
  <2>1. QED BY <1>1, WFMin
<1>3. ASSUME NEW k \in S PROVE m <= k
  <2>1. ~(<<k, m>> \in R)
    BY <1>2
  <2>2. QED BY <2>1
<1>4. QED BY <1>3

\* The function with that first value, and each next one by the rule.
Recurs(f, S, first, N, step) ==
  /\ f \in [0 .. N -> S]
  /\ f[0] = first /\ \A n \in 1 .. N : f[n] = step[<<n, f[n - 1]>>]

\* A function given by its first value and a rule for the next one is there.
LEMMA Recursion ==
  ASSUME NEW S, NEW first \in S, NEW N \in Nat, NEW step \in [(1 .. N) \X S -> S]
  PROVE  \E f : Recurs(f, S, first, N, step)
<1> DEFINE Up(f, m) == f[0] = first /\ \A n \in 1 .. m : f[n] = step[<<n, f[n - 1]>>]
           G == {m \in Nat : m <= N => \E f \in [0 .. m -> S] : Up(f, m)}
<1>1. 0 \in G
  <2>1. Up([n \in 0 .. 0 |-> first], 0) /\ [n \in 0 .. 0 |-> first] \in [0 .. 0 -> S]
    OBVIOUS
  <2>2. QED BY <2>1
<1>2. ASSUME NEW m \in Nat, m \in G, m + 1 <= N
      PROVE  \E f \in [0 .. m + 1 -> S] : Up(f, m + 1)
  <2>1. PICK f \in [0 .. m -> S] : Up(f, m)
    BY <1>2
  <2> DEFINE next == step[<<m + 1, f[m]>>]
             g == [n \in 0 .. m + 1 |-> IF n = m + 1 THEN next ELSE f[n]]
  <2>2. next \in S
    BY <1>2
  <2>3. g \in [0 .. m + 1 -> S]
    BY <2>2
  <2>4. g[0] = first /\ \A n \in 0 .. m : g[n] = f[n]
    BY <2>1
  <2>a. g[m + 1] = next /\ m \in 0 .. m
    OBVIOUS
  <2> HIDE DEF g
  <2>b. g[m] = f[m] /\ m + 1 - 1 = m
    BY <2>4, <2>a
  <2>5. g[m + 1] = step[<<m + 1, g[m]>>]
    BY <2>a, <2>b
  <2> HIDE DEF next
  <2>6. ASSUME NEW n \in 1 .. m PROVE g[n] = step[<<n, g[n - 1]>>]
    <3>1. n \in 0 .. m /\ n - 1 \in 0 .. m /\ f[n] = step[<<n, f[n - 1]>>]
      BY <2>1
    <3>2. QED BY <2>4, <3>1
  <2>7. \A n \in 1 .. m + 1 : n \in 1 .. m \/ n = m + 1
    OBVIOUS
  <2>8. Up(g, m + 1)
    BY <2>4, <2>5, <2>6, <2>7
  <2>9. QED BY <2>3, <2>8
<1>3. N \in G
  <2>1. \A m \in Nat : m \in G => m + 1 \in G
    BY <1>2
  <2> HIDE DEF G
  <2>2. QED BY <1>1, <2>1, Inductive
<1>4. QED BY <1>3 DEF Recurs

-----------------------------------------------------------------------------
(* The screen. *)

\* The middle panel never takes what the other two need at the least.
LEMMA MiddleLeavesRoom ==
  ASSUME NEW total \in Nat, NEW want \in Int, NEW min \in Nat
  PROVE  /\ SplitMiddle(total, want, min) \in 0 .. total
         /\ total >= 3 * min => SplitMiddle(total, want, min) <= total - 2 * min
         /\ total >= 3 * min /\ want > 0 => SplitMiddle(total, want, min) >= min
         /\ total < 3 * min /\ want > 0 => SplitMiddle(total, want, min) = total \div 3
<1>1. CASE want <= 0
  BY <1>1 DEF SplitMiddle
<1>2. CASE want > 0 /\ total < 3 * min
  BY <1>2 DEF SplitMiddle
<1>3. CASE want > 0 /\ total >= 3 * min
  BY <1>3 DEF SplitMiddle, Least, Greatest
<1> QED
  BY <1>1, <1>2, <1>3

\* Two panels share a column without a line too many, and each has its least
\* when there is room for both.
LEMMA TopLeavesRoom ==
  ASSUME NEW total \in Nat, NEW want \in Int, NEW min \in Nat
  PROVE  /\ SplitTop(total, want, min) \in 0 .. total
         /\ total >= 2 * min => SplitTop(total, want, min) \in min .. (total - min)
<1>1. CASE total < 2 * min
  BY <1>1 DEF SplitTop
<1>2. CASE total >= 2 * min
  BY <1>2 DEF SplitTop, Least, Greatest
<1> QED
  BY <1>1, <1>2

\* The three panels fill the column exactly, whatever they ask for and however
\* short it is, none of them with a negative height; and in a column with room for
\* all three at their least, each has its least (layout.go:113-119: a form tall
\* enough to fill the screen cannot squeeze the headers out).
THEOREM ColumnIsFilled ==
  ASSUME NEW total \in Nat, NEW wantTop \in Int, NEW wantMiddle \in Int, NEW min \in Nat
  PROVE  LET c == SplitColumn(total, wantTop, wantMiddle, min) IN
         /\ c.top \in Nat /\ c.middle \in Nat /\ c.bottom \in Nat
         /\ c.top + c.middle + c.bottom = total
         /\ total >= 3 * min =>
              /\ c.top >= min /\ c.bottom >= min
              /\ wantMiddle > 0 => c.middle >= min
<1> DEFINE middle == SplitMiddle(total, wantMiddle, min)
           top == IF wantMiddle > 0 /\ total < 3 * min
                  THEN total \div 3 ELSE SplitTop(total - middle, wantTop, min)
<1>1. SplitColumn(total, wantTop, wantMiddle, min)
        = [top |-> top, middle |-> middle, bottom |-> total - middle - top]
  BY DEF SplitColumn
<1>2. /\ middle \in 0 .. total
      /\ total >= 3 * min => middle <= total - 2 * min
      /\ total >= 3 * min /\ wantMiddle > 0 => middle >= min
      /\ total < 3 * min /\ wantMiddle > 0 => middle = total \div 3
  BY MiddleLeavesRoom
<1>3. /\ SplitTop(total - middle, wantTop, min) \in 0 .. (total - middle)
      /\ total - middle >= 2 * min =>
           SplitTop(total - middle, wantTop, min) \in min .. (total - middle - min)
  <2>1. total - middle \in Nat
    BY <1>2
  <2> QED
    BY <2>1, TopLeavesRoom
<1>4. /\ top \in 0 .. (total - middle)
      /\ total >= 3 * min => top >= min /\ total - middle - top >= min
  <2> HIDE DEF middle
  <2>1. CASE wantMiddle > 0 /\ total < 3 * min
    <3>1. middle = total \div 3
      BY <2>1, <1>2
    <3> QED
      BY <2>1, <3>1
  <2>2. CASE ~(wantMiddle > 0 /\ total < 3 * min)
    BY <2>2, <1>2, <1>3
  <2> QED
    BY <2>1, <2>2
<1> HIDE DEF middle, top
<1> QED
  BY <1>1, <1>2, <1>4

-----------------------------------------------------------------------------

\* clampIndex answers with an index of the list, and leaves one alone.
LEMMA ClampIndexIsInside ==
  ASSUME NEW i \in Int, NEW n \in Nat
  PROVE  /\ ClampIndex(i, n) \in Nat
         /\ n > 0 => ClampIndex(i, n) \in 0 .. (n - 1)
         /\ i \in 0 .. (n - 1) => ClampIndex(i, n) = i
BY DEF ClampIndex

\* clampWindow shows its target, from any offset, in any window over any list, and
\* leaves no empty line below the last row of a list that fills the window
\* (scroll.go:50-54).
THEOREM ClampWindowShows ==
  ASSUME NEW n \in Nat, NEW target \in 0 .. (n - 1), NEW from \in Int,
         NEW lines \in Nat \ {0}
  PROVE  LET w == ClampWindow(target, from, lines, n) IN
         /\ w \in Nat
         /\ target \in w .. (w + lines - 1)
         /\ n > lines => w + lines <= n
BY DEF ClampWindow

\* A row in sight is brought into sight without moving the window.
LEMMA ClampWindowIsStill ==
  ASSUME NEW n \in Nat, NEW lines \in Nat \ {0}, NEW from \in Nat,
         NEW target \in from .. (from + lines - 1),
         n > lines, from + lines <= n
  PROVE  ClampWindow(target, from, lines, n) = from
BY DEF ClampWindow

\* The cursor c is on a row of a list of n, if it has one, and the window of so many
\* lines from w shows it.
InWindow(c, w, lines, n) ==
  /\ c \in Nat /\ w \in Nat
  /\ c = ClampIndex(c, n)
  /\ n > 0 => c < n
  /\ n > 0 /\ lines > 0 => c \in w .. (w + lines - 1)

\* moveTo, from anywhere to anywhere: the cursor is on a row and in the window.
LEMMA MoveShows ==
  ASSUME NEW i \in Int, NEW from \in Int, NEW lines \in Nat, NEW n \in Nat
  PROVE  InWindow(ClampIndex(i, n), ClampWindow(ClampIndex(i, n), from, lines, n), lines, n)
BY DEF InWindow, ClampIndex, ClampWindow

\* A window of any other size is brought to the cursor.
LEMMA ResizeShows ==
  ASSUME NEW c \in Int, NEW n \in Nat, c = ClampIndex(c, n), NEW from \in Int, NEW lines \in Nat
  PROVE  InWindow(c, ClampWindow(c, from, lines, n), lines, n)
BY DEF InWindow, ClampIndex, ClampWindow
=============================================================================
