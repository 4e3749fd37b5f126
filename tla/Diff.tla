-------------------------------- MODULE Diff --------------------------------
(***************************************************************************)
(* What the response panel shows of the difference between a method's last *)
(* two answers (internal/diff/diff.go).  A body is a sequence of lines.    *)
(***************************************************************************)
EXTENDS Integers, Sequences, FiniteSets, SequencesExt, FiniteSetsExt

CONSTANTS
  Texts,     \* the lines a body is made of
  MaxLines,  \* bound: lines in a body
  MaxCells,  \* maxCells
  Contexts   \* the lines of context a caller may ask for

VARIABLES before, after   \* the last two answers

bodies == <<before, after>>

Line(op, text) == [op |-> op, text |-> text]
Every(op, texts) == [i \in DOMAIN texts |-> Line(op, texts[i])]
Drop(s, n) == SubSeq(s, n + 1, Len(s))

\* lcs: the lengths of the longest subsequences the ends of b and a share.
Lcs(b, a) ==
  LET table[i \in 1 .. Len(b) + 1, j \in 1 .. Len(a) + 1] ==
        IF i > Len(b) \/ j > Len(a) THEN 0
        ELSE IF b[i] = a[j] THEN table[i + 1, j + 1] + 1
        ELSE Max({table[i + 1, j], table[i, j + 1]})
  IN  table

\* Mutated Walk: of two branches equally good, the insertion.
WalkNewFirst(b, a) ==
  LET table == Lcs(b, a)
      from[i \in 1 .. Len(b) + 1, j \in 1 .. Len(a) + 1] ==
        IF i > Len(b) \/ j > Len(a)
        THEN Every("delete", Drop(b, i - 1)) \o Every("insert", Drop(a, j - 1))
        ELSE IF b[i] = a[j] THEN << Line("equal", b[i]) >> \o from[i + 1, j + 1]
        ELSE IF table[i + 1, j] > table[i, j + 1]
        THEN << Line("delete", b[i]) >> \o from[i + 1, j]
        ELSE << Line("insert", a[j]) >> \o from[i, j + 1]
  IN  from[1, 1]

\* walk: of two branches equally good, the deletion.
Walk(b, a) ==
  LET table == Lcs(b, a)
      from[i \in 1 .. Len(b) + 1, j \in 1 .. Len(a) + 1] ==
        IF i > Len(b) \/ j > Len(a)
        THEN Every("delete", Drop(b, i - 1)) \o Every("insert", Drop(a, j - 1))
        ELSE IF b[i] = a[j] THEN << Line("equal", b[i]) >> \o from[i + 1, j + 1]
        ELSE IF table[i + 1, j] >= table[i, j + 1]
        THEN << Line("delete", b[i]) >> \o from[i + 1, j]
        ELSE << Line("insert", a[j]) >> \o from[i, j + 1]
  IN  from[1, 1]

\* middle: a table that would be too large is not built.
Coarse(b, a) == Len(b) * Len(a) > MaxCells
Middle(b, a) ==
  IF b = << >> \/ a = << >> \/ Coarse(b, a)
  THEN Every("delete", b) \o Every("insert", a)
  ELSE Walk(b, a)

\* compare's peeling: the lines both begin with, and both end with after those.
CommonEnd(b, a, most) ==
  Max({n \in 0 .. most : \A k \in 0 .. n - 1 : b[Len(b) - k] = a[Len(a) - k]})
CommonStart(b, a, most) == Max({n \in 0 .. most : \A k \in 1 .. n : b[k] = a[k]})

Shorter(b, a) == Min({Len(b), Len(a)})
Start(b, a) == CommonStart(b, a, Shorter(b, a))
End(b, a) == CommonEnd(b, a, Shorter(b, a) - Start(b, a))
Inner(s, start, end) == SubSeq(s, start + 1, Len(s) - end)

\* compare.
Lines(b, a) ==
  LET start == Start(b, a)
      end == End(b, a)
  IN  Every("equal", SubSeq(b, 1, start))
        \o Middle(Inner(b, start, end), Inner(a, start, end))
        \o Every("equal", Drop(b, Len(b) - end))

Changes(lines) == {i \in DOMAIN lines : lines[i].op # "equal"}

\* Unified's lines: those near a change.
Kept(lines, context) ==
  LET near == Max({context, 0})
  IN  {i \in DOMAIN lines : \E c \in Changes(lines) : i \in c - near .. c + near}

\* Unified: the lines kept, and the runs between them, each with its place among
\* those and its length.  Equal bodies are shown whole.
Unified(b, a, context) ==
  LET lines == Lines(b, a)
      kept == IF Changes(lines) = {} THEN DOMAIN lines ELSE Kept(lines, context)
      shown == SelectSeq([i \in DOMAIN lines |-> i], LAMBDA i : i \in kept)
      hidden == {r \in (DOMAIN lines) \X (DOMAIN lines) :
                   /\ r[1] <= r[2] /\ r[1] .. r[2] \cap kept = {}
                   /\ r[1] - 1 \in kept \union {0} /\ r[2] + 1 \in kept \union {Len(lines) + 1}}
  IN  [lines |-> [i \in DOMAIN shown |-> lines[shown[i]]],
       skips |-> {[at |-> Cardinality({i \in kept : i < r[1]}), lines |-> r[2] - r[1] + 1] :
                    r \in hidden}]

-----------------------------------------------------------------------------
\* A first answer, with nothing before it, and then another.
Init == before = << >> /\ after = << >>
Answer(body) == before' = after /\ after' = body
Next == \E body \in SeqOf(Texts, MaxLines) : Answer(body)
Spec == Init /\ [][Next]_bodies

-----------------------------------------------------------------------------
(* Properties *)

Side(lines, op) ==
  LET mine == SelectSeq(lines, LAMBDA l : l.op \in {"equal", op})
  IN  [i \in DOMAIN mine |-> mine[i].text]

\* The diff is of these two bodies and hides no change: the lines not inserted are
\* the old body, those not deleted the new one, a deletion comes before the
\* insertion that replaces it, and as many lines are equal as can be unless the
\* middle was too large to compare.  Peeling the ends keeps that, and the lines
\* skipped are counted where they were.
DiffIsExact ==
  LET lines == Lines(before, after)
      equal == Cardinality(DOMAIN lines) - Cardinality(Changes(lines))
      shared == AllSubSeqs(before) \intersect AllSubSeqs(after)
  IN  /\ Side(lines, "delete") = before /\ Side(lines, "insert") = after
      /\ \A i \in 1 .. Len(lines) - 1 : lines[i].op = "insert" => lines[i + 1].op # "delete"
      /\ Len(before) * Len(after) <= MaxCells => equal = Max({Len(s) : s \in shared})
      /\ \A context \in Contexts :
           LET shown == Unified(before, after, context)
               Skipped(i) == MapThenSumSet(LAMBDA s : s.lines, {s \in shown.skips : s.at < i})
               places == {i + Skipped(i) : i \in DOMAIN shown.lines}
           IN  /\ \A i \in DOMAIN shown.lines : shown.lines[i] = lines[i + Skipped(i)]
               /\ Changes(lines) \subseteq places
               /\ Len(shown.lines) + Skipped(Len(lines) + 1) = Len(lines)
=============================================================================
