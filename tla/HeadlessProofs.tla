--------------------------- MODULE HeadlessProofs ---------------------------
(***************************************************************************)
(* What a session starts with is what the command line asks for, and a run *)
(* that exits with zero has had every request answered as it was asked;    *)
(* where the flags stand among the other words makes no difference. All of *)
(* it for every file, every line, every collection and every server.       *)
(***************************************************************************)
EXTENDS Headless, FiniteSetTheorems, WellFoundedInduction, TLAPS

-----------------------------------------------------------------------------
(* Induction, of which the library's rules take an operator: here over the *)
(* set of the numbers that have a property.                                *)

\* A set with 0 and every successor has every number.
LEMMA UpFromZero ==
  ASSUME NEW S, 0 \in S, \A n \in Nat : n \in S => n + 1 \in S
  PROVE  Nat \subseteq S
<1> DEFINE T == Nat \ S
           R == {ss \in Nat \X Nat : ss[1] < ss[2]}
<1>1. SUFFICES ASSUME T # {} PROVE FALSE
  OBVIOUS
<1>2. IsWellFoundedOn(R, Nat)
  BY NatLessThanWellFounded DEF OpToRel
<1>3. PICK m \in T : \A k \in T : ~(<<k, m>> \in R)
  <2>1. T \subseteq Nat
    OBVIOUS
  <2> HIDE DEF T, R
  <2>2. QED BY <1>1, <1>2, <2>1, WFMin
<1>4. m - 1 \in Nat /\ m - 1 \notin S
  OBVIOUS
<1>5. <<m - 1, m>> \in R
  BY <1>4
<1>6. QED BY <1>3, <1>4, <1>5

\* Some of the first numbers have a last one.
LEMMA LastOfSome ==
  ASSUME NEW n \in Nat, NEW T \in SUBSET (1 .. n), T # {}
  PROVE  \E i \in T : \A j \in T : j <= i
<1> DEFINE Ends(R) == R # {} => \E i \in R : \A j \in R : j <= i
           G == {m \in Nat : \A R \in SUBSET (1 .. m) : Ends(R)}
<1>1. 0 \in G
  <2>1. 1 .. 0 = {}
    OBVIOUS
  <2>2. QED BY <2>1
<1>2. ASSUME NEW m \in Nat, m \in G PROVE m + 1 \in G
  <2>1. ASSUME NEW R \in SUBSET (1 .. m + 1) PROVE Ends(R)
    <3>1. CASE m + 1 \in R
      BY <3>1
    <3>2. CASE m + 1 \notin R
      <4>1. R \in SUBSET (1 .. m)
        BY <3>2
      <4>2. QED BY <1>2, <4>1
    <3>3. QED BY <3>1, <3>2
  <2>2. QED BY <2>1
<1>3. n \in G
  <2> HIDE DEF G
  <2> QED BY <1>1, <1>2, UpFromZero
<1>4. QED BY <1>3


\* The function that is base beyond n, and before it what step makes of the two next.
FromBehind(f, n, base, step) ==
  \A i \in DOMAIN f : f[i] = IF i > n THEN base ELSE step[<<i, f[i + 1], f[i + 2]>>]

\* A function given by its values beyond the end and a rule from behind is there.
LEMMA ReadFromBehind ==
  ASSUME NEW S, NEW base \in S, NEW n \in Nat, NEW step \in [(1 .. n) \X S \X S -> S]
  PROVE  \E f \in [1 .. n + 2 -> S] : FromBehind(f, n, base, step)
<1> DEFINE G == {m \in Nat : m <= n => \E f \in [n + 1 - m .. n + 2 -> S] :
                                          FromBehind(f, n, base, step)}
<1>1. 0 \in G
  <2> DEFINE f == [i \in n + 1 - 0 .. n + 2 |-> base]
  <2>1. f \in [n + 1 - 0 .. n + 2 -> S]
    OBVIOUS
  <2>2. FromBehind(f, n, base, step)
    BY DEF FromBehind
  <2> HIDE DEF f
  <2>3. QED BY <2>1, <2>2
<1>2. ASSUME NEW m \in Nat, m \in G, m + 1 <= n
      PROVE  \E f \in [n + 1 - (m + 1) .. n + 2 -> S] : FromBehind(f, n, base, step)
  <2>1. PICK f \in [n + 1 - m .. n + 2 -> S] : FromBehind(f, n, base, step)
    BY <1>2
  <2> DEFINE k == n - m
             next == step[<<k, f[k + 1], f[k + 2]>>]
             g == [i \in k .. n + 2 |-> IF i = k THEN next ELSE f[i]]
  <2>2. /\ k \in 1 .. n /\ n + 1 - (m + 1) = k /\ n + 1 - m = k + 1
        /\ k + 1 \in k + 1 .. n + 2 /\ k + 2 \in k + 1 .. n + 2
    BY <1>2
  <2>3. next \in S
    <3> HIDE DEF k
    <3>1. f[k + 1] \in S /\ f[k + 2] \in S
      BY <2>2
    <3>2. QED BY <2>2, <3>1
  <2> HIDE DEF k, next
  <2>4. g \in [k .. n + 2 -> S]
    BY <2>2, <2>3
  <2>5. g[k] = next /\ \A i \in k + 1 .. n + 2 : g[i] = f[i]
    BY <2>2
  <2> HIDE DEF g
  <2>6. ASSUME NEW i \in k .. n + 2
        PROVE  g[i] = IF i > n THEN base ELSE step[<<i, g[i + 1], g[i + 2]>>]
    <3>1. CASE i = k
      BY <2>2, <2>5, <3>1 DEF next
    <3>2. CASE i # k
      <4>1. i \in k + 1 .. n + 2 /\ DOMAIN f = k + 1 .. n + 2
        BY <2>2, <3>2
      <4>2. i <= n => i + 1 \in k + 1 .. n + 2 /\ i + 2 \in k + 1 .. n + 2
        BY <2>2, <4>1
      <4>3. f[i] = IF i > n THEN base ELSE step[<<i, f[i + 1], f[i + 2]>>]
        BY <2>1, <4>1 DEF FromBehind
      <4>4. QED BY <2>5, <4>1, <4>2, <4>3
    <3>3. QED BY <3>1, <3>2
  <2>7. FromBehind(g, n, base, step)
    BY <2>4, <2>6 DEF FromBehind
  <2>8. QED BY <2>2, <2>4, <2>7
<1>3. n \in G
  <2>1. \A m \in Nat : m \in G => m + 1 \in G
    BY <1>2
  <2> HIDE DEF G
  <2>2. QED BY <1>1, <2>1, UpFromZero
<1>4. PICK f \in [n + 1 - n .. n + 2 -> S] : FromBehind(f, n, base, step)
  BY <1>3
<1>5. QED BY <1>4

\* Likewise from the front.
FromFront(f, n, base, step) == f[0] = base /\ \A k \in 1 .. n : f[k] = step[<<k, f[k - 1]>>]

\* And so is such a function.
LEMMA ReadFromFront ==
  ASSUME NEW S, NEW base \in S, NEW n \in Nat, NEW step \in [(1 .. n) \X S -> S]
  PROVE  \E f \in [0 .. n -> S] : FromFront(f, n, base, step)
<1> DEFINE back == [t \in (1 .. n) \X S \X S |-> step[<<n + 1 - t[1], t[2]>>]]
<1>1. back \in [(1 .. n) \X S \X S -> S]
  <2>1. ASSUME NEW t \in (1 .. n) \X S \X S PROVE step[<<n + 1 - t[1], t[2]>>] \in S
    <3>1. n + 1 - t[1] \in 1 .. n /\ t[2] \in S
      OBVIOUS
    <3>2. <<n + 1 - t[1], t[2]>> \in (1 .. n) \X S
      BY <3>1
    <3>3. QED BY <3>2
  <2>2. QED BY <2>1
<1>2. PICK g \in [1 .. n + 2 -> S] : FromBehind(g, n, base, back)
  <2> HIDE DEF back
  <2> QED BY <1>1, ReadFromBehind
<1> DEFINE f == [k \in 0 .. n |-> g[n + 1 - k]]
<1>3. f \in [0 .. n -> S]
  OBVIOUS
<1>4. f[0] = base
  <2>1. 0 \in 0 .. n /\ n + 1 - 0 = n + 1 /\ n + 1 \in 1 .. n + 2 /\ n + 1 > n
    OBVIOUS
  <2> HIDE DEF back
  <2>2. g[n + 1] = base
    BY <1>2, <2>1 DEF FromBehind
  <2>3. QED BY <2>1, <2>2
<1>5. ASSUME NEW k \in 1 .. n PROVE f[k] = step[<<k, f[k - 1]>>]
  <2> DEFINE i == n + 1 - k
  <2>1. i \in 1 .. n /\ i \in 1 .. n + 2 /\ i + 1 \in 1 .. n + 2 /\ i + 2 \in 1 .. n + 2
        /\ n + 1 - (k - 1) = i + 1 /\ n + 1 - i = k /\ ~(i > n)
    OBVIOUS
  <2>2. f[k] = g[i] /\ f[k - 1] = g[i + 1]
    BY <2>1
  <2> HIDE DEF f, i, back
  <2>3. g[i] = back[<<i, g[i + 1], g[i + 2]>>]
    BY <1>2, <2>1 DEF FromBehind
  <2>4. <<i, g[i + 1], g[i + 2]>> \in (1 .. n) \X S \X S
    BY <2>1
  <2>5. back[<<i, g[i + 1], g[i + 2]>>] = step[<<n + 1 - i, g[i + 1]>>]
    BY <2>4 DEF back
  <2>6. QED BY <2>1, <2>2, <2>3, <2>5
<1>6. QED
  <2> HIDE DEF f
  <2>1. FromFront(f, n, base, step)
    BY <1>4, <1>5 DEF FromFront
  <2>2. QED BY <1>3, <2>1


-----------------------------------------------------------------------------
(* The words. *)

Words == STRING \union {Blank}
Readings == [bare : Seq(Words), flags : Seq(Words \X Words), failed : BOOLEAN]

\* What Parse makes of the rest of the words, at each of them.
Done(rest) == [bare |-> rest, flags |-> << >>, failed |-> FALSE]
Failing == [Done(<< >>) EXCEPT !.failed = TRUE]
Flagged(w, v, p) == [p EXCEPT !.flags = <<<<w, v>>>> \o @]
Bared(w, p) == [p EXCEPT !.bare = <<w>> \o @]
BareAt(words, again, k, after) ==
  IF again THEN Bared(words[k], after) ELSE Done(SubSeq(words, k, Len(words)))

\* Parse's rule: what it makes of the words from i, given what it makes of those from
\* i + 1 and from i + 2.
Rule(words, name, again, i, one, two) ==
  LET n == Len(words)
  IN  CASE i > n -> Done(<< >>)
        [] i = n /\ words[i] = "--" -> Done(<< >>)
        [] i < n /\ words[i] = "--" -> BareAt(words, again, i + 1, two)
        [] i <= n /\ ~IsFlag(words[i]) -> BareAt(words, again, i, one)
        [] i <= n /\ words[i] \in Switches \cap Known(name) -> Flagged(words[i], Blank, one)
        [] i < n /\ words[i] \in Takes \cap Known(name)
             /\ (words[i] = "-V" => words[i + 1] \in DOMAIN Assignments) ->
                Flagged(words[i], words[i + 1], two)
        [] OTHER -> Failing

ReadsFrom(words, name, again, f) ==
  f = [i \in 1 .. (Len(words) + 2) |-> Rule(words, name, again, i, f[i + 1], f[i + 2])]

\* Parse is that function, at the first of the words.
LEMMA ParseReads ==
  \A words, name, again :
    Parse(words, name, again) = (CHOOSE f : ReadsFrom(words, name, again, f))[1]
<1> TAKE words, name, again
<1> DEFINE n == Len(words)
           DoneW(rest) == [bare |-> rest, flags |-> << >>, failed |-> FALSE]
           Flag(w, v, p) == [p EXCEPT !.flags = <<<<w, v>>>> \o @]
           from[i \in 1..(n + 2)] ==
             LET Bare(k) == IF again THEN [from[k + 1] EXCEPT !.bare = <<words[k]>> \o @]
                            ELSE DoneW(SubSeq(words, k, n))
             IN  CASE i > n -> DoneW(<< >>)
                   [] i = n /\ words[i] = "--" -> DoneW(<< >>)
                   [] i < n /\ words[i] = "--" -> Bare(i + 1)
                   [] i <= n /\ ~IsFlag(words[i]) -> Bare(i)
                   [] i <= n /\ words[i] \in Switches \cap Known(name) ->
                        Flag(words[i], Blank, from[i + 1])
                   [] i < n /\ words[i] \in Takes \cap Known(name)
                        /\ (words[i] = "-V" => words[i + 1] \in DOMAIN Assignments) ->
                           Flag(words[i], words[i + 1], from[i + 2])
                   [] OTHER -> [DoneW(<< >>) EXCEPT !.failed = TRUE]
<1>1. Parse(words, name, again) = from[1]
  BY Zenon DEF Parse
<1> QED BY <1>1 DEF ReadsFrom, Rule, BareAt, Flagged, Bared, Done, Failing

\* A reading with another outcome.
LEMMA FailedInstead ==
  \A S, T : \A p \in [bare : S, flags : T, failed : BOOLEAN] : \A d :
    [p EXCEPT !.failed = d] = [bare |-> p.bare, flags |-> p.flags, failed |-> d]
OBVIOUS

\* What is put before a reading makes a reading.
LEMMA FlaggedReading ==
  ASSUME NEW p \in Readings, NEW w \in Words, NEW v \in Words
  PROVE  /\ Flagged(w, v, p) \in Readings
         /\ Flagged(w, v, p) = [bare |-> p.bare, flags |-> <<<<w, v>>>> \o p.flags,
                                failed |-> p.failed]
<1>1. p = [bare |-> p.bare, flags |-> p.flags, failed |-> p.failed]
      /\ p.bare \in Seq(Words) /\ p.flags \in Seq(Words \X Words) /\ p.failed \in BOOLEAN
  BY DEF Readings
<1>2. Flagged(w, v, p) = [bare |-> p.bare, flags |-> <<<<w, v>>>> \o p.flags, failed |-> p.failed]
  <2>1. ASSUME NEW q
        PROVE  [p EXCEPT !.flags = q] = [bare |-> p.bare, flags |-> q, failed |-> p.failed]
    BY DEF Readings
  <2>2. Flagged(w, v, p) = [p EXCEPT !.flags = <<<<w, v>>>> \o p.flags]
    BY Zenon DEF Flagged
  <2>3. QED BY <2>1, <2>2, Zenon
<1>3. <<<<w, v>>>> \o p.flags \in Seq(Words \X Words)
  BY <1>1
<1>4. QED BY <1>1, <1>2, <1>3 DEF Readings

\* Likewise a bare word.
LEMMA BaredReading ==
  ASSUME NEW p \in Readings, NEW w \in Words
  PROVE  /\ Bared(w, p) \in Readings
         /\ Bared(w, p) = [bare |-> <<w>> \o p.bare, flags |-> p.flags, failed |-> p.failed]
<1>1. p = [bare |-> p.bare, flags |-> p.flags, failed |-> p.failed]
      /\ p.bare \in Seq(Words) /\ p.flags \in Seq(Words \X Words) /\ p.failed \in BOOLEAN
  BY DEF Readings
<1>2. Bared(w, p) = [bare |-> <<w>> \o p.bare, flags |-> p.flags, failed |-> p.failed]
  BY DEF Bared, Readings
<1>3. <<w>> \o p.bare \in Seq(Words)
  BY <1>1
<1>4. QED BY <1>1, <1>2, <1>3 DEF Readings

\* Each rule makes a reading of readings.
LEMMA RuleReads ==
  ASSUME NEW words \in Seq(STRING), NEW name, NEW again \in BOOLEAN,
         NEW i \in 1 .. Len(words), NEW one \in Readings, NEW two \in Readings
  PROVE  Rule(words, name, again, i, one, two) \in Readings
<1> DEFINE n == Len(words)
           rule == Rule(words, name, again, i, one, two)
<1>1. ASSUME NEW rest \in Seq(Words)
      PROVE  Done(rest) \in Readings /\ Failing \in Readings
  <2>1. << >> \in Seq(Words) /\ << >> \in Seq(Words \X Words)
    OBVIOUS
  <2>2. Failing = [bare |-> << >>, flags |-> << >>, failed |-> TRUE]
    <3>1. ASSUME NEW p \in Readings, NEW d
          PROVE  [p EXCEPT !.failed = d] = [bare |-> p.bare, flags |-> p.flags, failed |-> d]
      BY FailedInstead, Zenon DEF Readings
    <3>2. /\ Done(<< >>) \in Readings
          /\ Done(<< >>).bare = << >> /\ Done(<< >>).flags = << >>
      BY <2>1 DEF Done, Readings
    <3>3. QED BY <3>1, <3>2, Zenon DEF Failing
  <2>3. QED BY <2>1, <2>2 DEF Done, Readings
<1>2. /\ << >> \in Seq(Words) /\ words \in Seq(Words) /\ Blank \in Words
      /\ \A k \in 1 .. n : words[k] \in Words
  BY DEF Words
<1>3. ASSUME NEW k \in 1 .. n, NEW p \in Readings
      PROVE  BareAt(words, again, k, p) \in Readings
  <2>1. words[k] \in Words /\ SubSeq(words, k, n) \in Seq(Words)
    BY <1>2
  <2>2. QED BY <1>1, <2>1, BaredReading DEF BareAt
<1>4. Flagged(words[i], Blank, one) \in Readings
  BY <1>2, FlaggedReading
<1>5. i < n => i + 1 \in 1 .. n
  OBVIOUS
<1>6. i < n => Flagged(words[i], words[i + 1], two) \in Readings
  BY <1>2, <1>5, FlaggedReading
<1>7. i < n => BareAt(words, again, i + 1, two) \in Readings
  BY <1>3, <1>5
<1>8. BareAt(words, again, i, one) \in Readings
  BY <1>3
<1>9. Done(<< >>) \in Readings /\ Failing \in Readings
  BY <1>1, <1>2
<1>10. n \in Nat /\ i \in Nat /\ ~(i > n)
  OBVIOUS
<1>11. QED
  <2>1. rule = CASE i > n -> Done(<< >>)
                 [] i = n /\ words[i] = "--" -> Done(<< >>)
                 [] i < n /\ words[i] = "--" -> BareAt(words, again, i + 1, two)
                 [] i <= n /\ ~IsFlag(words[i]) -> BareAt(words, again, i, one)
                 [] i <= n /\ words[i] \in Switches \cap Known(name) ->
                      Flagged(words[i], Blank, one)
                 [] i < n /\ words[i] \in Takes \cap Known(name)
                      /\ (words[i] = "-V" => words[i + 1] \in DOMAIN Assignments) ->
                         Flagged(words[i], words[i + 1], two)
                 [] OTHER -> Failing
    BY Zenon DEF Rule
  <2>2. rule \in Readings
    <3> HIDE DEF n, rule
    <3> QED BY <1>4, <1>6, <1>7, <1>8, <1>9, <1>10, <2>1
  <2>3. QED BY <2>2

ParsedBy(words, name, again, f) ==
  /\ f \in [1 .. Len(words) + 2 -> Readings] /\ Parse(words, name, again) = f[1]
  /\ \A i \in 1 .. Len(words) + 2 : f[i] = Rule(words, name, again, i, f[i + 1], f[i + 2])

\* What Parse reads is a reading, and follows the rule at each word.
LEMMA ParseRules ==
  ASSUME NEW words \in Seq(STRING), NEW name, NEW again \in BOOLEAN
  PROVE  \E f : ParsedBy(words, name, again, f)
<1> DEFINE n == Len(words)
           base == Done(<< >>)
           step == [t \in (1 .. n) \X Readings \X Readings |->
                      Rule(words, name, again, t[1], t[2], t[3])]
<1>1. n \in Nat /\ base \in Readings
  BY DEF Done, Readings
<1>2. step \in [(1 .. n) \X Readings \X Readings -> Readings]
  <2>1. ASSUME NEW t \in (1 .. n) \X Readings \X Readings
        PROVE  Rule(words, name, again, t[1], t[2], t[3]) \in Readings
    BY RuleReads
  <2>2. QED BY <2>1
<1>3. PICK f \in [1 .. n + 2 -> Readings] : FromBehind(f, n, base, step)
  <2> HIDE DEF n, base, step
  <2> QED BY <1>1, <1>2, ReadFromBehind
<1>4. ASSUME NEW i \in 1 .. n + 2
      PROVE  f[i] = Rule(words, name, again, i, f[i + 1], f[i + 2])
  <2>1. f[i] = IF i > n THEN base ELSE step[<<i, f[i + 1], f[i + 2]>>]
    BY <1>3 DEF FromBehind
  <2>2. CASE i > n
    <3>1. n \in Nat /\ ~(i <= n) /\ ~(i = n) /\ ~(i < n)
      BY <2>2, <1>1
    <3>2. Rule(words, name, again, i, f[i + 1], f[i + 2]) = Done(<< >>)
      <4> HIDE DEF n
      <4> QED BY <2>2, <3>1 DEF Rule, n
    <3>3. QED BY <2>1, <2>2, <3>2
  <2>3. CASE ~(i > n)
    <3>1. i \in 1 .. n /\ i + 1 \in 1 .. n + 2 /\ i + 2 \in 1 .. n + 2
      BY <2>3, <1>1
    <3>2. <<i, f[i + 1], f[i + 2]>> \in (1 .. n) \X Readings \X Readings
      BY <1>3, <3>1
    <3>3. QED BY <2>1, <2>3, <3>2
  <2>4. QED BY <2>2, <2>3
<1>5. ReadsFrom(words, name, again, f)
  BY <1>3, <1>4 DEF ReadsFrom
<1>6. PICK g : g = (CHOOSE h : ReadsFrom(words, name, again, h))
  OBVIOUS
<1>7. ReadsFrom(words, name, again, g)
  BY <1>5, <1>6
<1>8. Parse(words, name, again) = g[1]
  BY <1>6, ParseReads
<1>9. \A i \in 1 .. n + 2 : g[i] = Rule(words, name, again, i, g[i + 1], g[i + 2])
  BY <1>7 DEF ReadsFrom
<1> DEFINE G == {m \in Nat : \A i \in 1 .. n + 2 : i > n - m => g[i] \in Readings}
<1>10. 0 \in G
  <2>1. ASSUME NEW i \in 1 .. n + 2, i > n PROVE g[i] \in Readings
    <3>1. Rule(words, name, again, i, g[i + 1], g[i + 2]) = base
      BY <2>1, <1>1 DEF Rule
    <3>2. QED BY <1>1, <1>9, <3>1
  <2>2. QED BY <1>1, <2>1
<1>11. ASSUME NEW m \in Nat, m \in G PROVE m + 1 \in G
  <2>1. ASSUME NEW i \in 1 .. n + 2, i > n - (m + 1), ~(i > n - m) PROVE g[i] \in Readings
    <3>1. i = n - m /\ i \in 1 .. n /\ i + 1 \in 1 .. n + 2 /\ i + 2 \in 1 .. n + 2
      BY <1>1, <2>1
    <3>2. g[i + 1] \in Readings /\ g[i + 2] \in Readings
      BY <1>1, <1>11, <3>1
    <3>3. Rule(words, name, again, i, g[i + 1], g[i + 2]) \in Readings
      BY <3>1, <3>2, RuleReads
    <3>4. QED BY <1>9, <3>3
  <2>2. QED BY <1>11, <2>1
<1>12. n \in G
  <2> HIDE DEF G
  <2> QED BY <1>1, <1>10, <1>11, UpFromZero
<1>13. \A i \in 1 .. n + 2 : g[i] \in Readings
  BY <1>1, <1>12
<1>14. g \in [1 .. n + 2 -> Readings]
  BY <1>7, <1>13 DEF ReadsFrom
<1>15. QED BY <1>8, <1>9, <1>14 DEF ParsedBy

\* Flatten's words, after each of the units.
Spells(units, at) ==
  /\ at[0] = << >> /\ \A k \in 1 .. Len(units) : at[k] = at[k - 1] \o units[k]
  /\ Flatten(units) = at[Len(units)]

\* Flatten puts the words of the units behind each other.
LEMMA FlattenSpells ==
  ASSUME NEW W, NEW units \in Seq(Seq(W))
  PROVE  \E at \in [0 .. Len(units) -> Seq(W)] : Spells(units, at)
<1> DEFINE n == Len(units)
           T == Seq(W)
           Of(f) == f = [k \in 0 .. n |-> IF k = 0 THEN << >> ELSE f[k - 1] \o units[k]]
           step == [t \in (1 .. n) \X T |-> t[2] \o units[t[1]]]
           none == << >>
<1>1. Flatten(units) = (CHOOSE f : Of(f))[n]
  BY Zenon DEF Flatten
<1>2. n \in Nat /\ none \in T /\ step \in [(1 .. n) \X T -> T]
  OBVIOUS
<1>3. PICK f \in [0 .. n -> T] : FromFront(f, n, none, step)
  <2> HIDE DEF n, T, step, none
  <2> QED BY <1>2, ReadFromFront
<1>4. f[0] = << >> /\ \A k \in 1 .. n : f[k] = f[k - 1] \o units[k]
  <2>1. ASSUME NEW k \in 1 .. n PROVE f[k] = f[k - 1] \o units[k]
    BY <1>3 DEF FromFront
  <2>2. QED BY <1>3, <2>1 DEF FromFront
<1>5. Of(f)
  <2>1. f = [k \in 0 .. n |-> f[k]]
    OBVIOUS
  <2>2. ASSUME NEW k \in 0 .. n PROVE f[k] = IF k = 0 THEN << >> ELSE f[k - 1] \o units[k]
    <3>1. k = 0 \/ k \in 1 .. n
      BY <1>2
    <3>2. ~(0 \in 1 .. n)
      OBVIOUS
    <3> HIDE DEF n, T, step
    <3>3. QED BY <1>4, <3>1, <3>2
  <2> HIDE DEF n, T, step
  <2>3. QED BY <2>1, <2>2
<1>6. PICK g : g = (CHOOSE h : Of(h))
  OBVIOUS
<1>7. Of(g)
  <2> HIDE DEF Of
  <2> QED BY <1>5, <1>6
<1>8. g[0] = << >> /\ \A k \in 1 .. n : g[k] = g[k - 1] \o units[k]
  <2> HIDE DEF T
  <2> QED BY <1>2, <1>7
<1> DEFINE G == {k \in Nat : k <= n => g[k] \in T}
<1>9. 0 \in G
  BY <1>2, <1>8
<1>10. ASSUME NEW k \in Nat, k \in G PROVE k + 1 \in G
  <2>1. ASSUME k + 1 <= n PROVE g[k + 1] \in T
    <3> DEFINE j == k + 1
    <3>1. j \in 1 .. n /\ j - 1 = k /\ g[k] \in T
      BY <1>2, <1>10, <2>1
    <3>2. units[j] \in T
      BY <3>1
    <3>3. g[j] = g[k] \o units[j]
      <4> HIDE DEF T, n, j
      <4> QED BY <1>8, <3>1
    <3>4. g[j] \in T
      <4> HIDE DEF j
      <4> QED BY <3>1, <3>2, <3>3
    <3>5. QED BY <3>4
  <2>2. QED BY <2>1
<1>11. Nat \subseteq G
  <2> HIDE DEF G
  <2> QED BY <1>9, <1>10, UpFromZero
<1>12. g \in [0 .. n -> T]
  <2>1. \A k \in 0 .. n : g[k] \in T
    BY <1>2, <1>11
  <2> HIDE DEF T, n
  <2> QED BY <1>7, <2>1
<1>13. Spells(units, g)
  BY <1>1, <1>6, <1>8 DEF Spells
<1>14. QED BY <1>12, <1>13


\* SplitCommand's rule: the place of the first bare word from i, given that of the first
\* from i + 1 and from i + 2.
FirstBare(words, i, one, two) ==
  IF i > Len(words) \/ words[i] = "--" THEN 0
  ELSE IF words[i] \in Takes THEN two
  ELSE IF IsFlag(words[i]) THEN one
  ELSE i

FindsFrom(words, f) ==
  f = [i \in 1 .. (Len(words) + 2) |-> FirstBare(words, i, f[i + 1], f[i + 2])]

\* What is split off at the word there is at a place.
SplitAt(words, at) ==
  IF at # 0 /\ words[at] \in Commands
  THEN [name |-> words[at], rest |-> RemoveAt(words, at)]
  ELSE [name |-> Blank, rest |-> words]

\* SplitCommand splits at what that function finds.
LEMMA SplitFinds ==
  \A words : SplitCommand(words) = SplitAt(words, (CHOOSE f : FindsFrom(words, f))[1])
<1> TAKE words
<1> DEFINE n == Len(words)
           next[i \in 1..(n + 2)] ==
             IF i > n \/ words[i] = "--" THEN 0
             ELSE IF words[i] \in Takes THEN next[i + 2]
             ELSE IF IsFlag(words[i]) THEN next[i + 1]
             ELSE i
<1>1. SplitCommand(words) = SplitAt(words, next[1])
  BY Zenon DEF SplitCommand, SplitAt
<1> QED BY <1>1 DEF FindsFrom, FirstBare

\* The place it finds is one of the words, or none, and follows the rule at each word.
LEMMA SplitRules ==
  ASSUME NEW words \in Seq(STRING)
  PROVE  \E f \in [1 .. Len(words) + 2 -> 0 .. Len(words)] :
           /\ SplitCommand(words) = SplitAt(words, f[1])
           /\ \A i \in 1 .. Len(words) + 2 : f[i] = FirstBare(words, i, f[i + 1], f[i + 2])
<1> DEFINE n == Len(words)
           S == 0 .. n
           step == [t \in (1 .. n) \X S \X S |-> FirstBare(words, t[1], t[2], t[3])]
<1>1. n \in Nat /\ 0 \in S
  OBVIOUS
<1>2. ASSUME NEW i \in 1 .. n, NEW one \in S, NEW two \in S
      PROVE  FirstBare(words, i, one, two) \in S
  BY DEF FirstBare
<1>3. step \in [(1 .. n) \X S \X S -> S]
  <2>1. ASSUME NEW t \in (1 .. n) \X S \X S
        PROVE  FirstBare(words, t[1], t[2], t[3]) \in S
    <3> HIDE DEF S
    <3> QED BY <1>2
  <2> HIDE DEF S
  <2>2. QED BY <2>1
<1>4. PICK f \in [1 .. n + 2 -> S] : FromBehind(f, n, 0, step)
  <2> HIDE DEF n, S, step
  <2> QED BY <1>1, <1>3, ReadFromBehind
<1>5. ASSUME NEW i \in 1 .. n + 2
      PROVE  f[i] = FirstBare(words, i, f[i + 1], f[i + 2])
  <2>1. f[i] = IF i > n THEN 0 ELSE step[<<i, f[i + 1], f[i + 2]>>]
    BY <1>4 DEF FromBehind
  <2>2. CASE i > n
    BY <2>1, <2>2 DEF FirstBare
  <2>3. CASE ~(i > n)
    <3>1. i \in 1 .. n /\ i + 1 \in 1 .. n + 2 /\ i + 2 \in 1 .. n + 2
      BY <2>3, <1>1
    <3> HIDE DEF S, n
    <3>2. <<i, f[i + 1], f[i + 2]>> \in (1 .. n) \X S \X S
      BY <1>4, <3>1
    <3>3. QED BY <2>1, <2>3, <3>2
  <2>4. QED BY <2>2, <2>3
<1>6. FindsFrom(words, f)
  BY <1>4, <1>5 DEF FindsFrom
<1>7. PICK g : g = (CHOOSE h : FindsFrom(words, h))
  OBVIOUS
<1>8. FindsFrom(words, g)
  BY <1>6, <1>7
<1>9. \A i \in 1 .. n + 2 : g[i] = FirstBare(words, i, g[i + 1], g[i + 2])
  BY <1>8 DEF FindsFrom
<1> DEFINE G == {m \in Nat : \A i \in 1 .. n + 2 : i > n - m => g[i] \in S}
<1>10. 0 \in G
  <2>1. ASSUME NEW i \in 1 .. n + 2, i > n PROVE g[i] \in S
    <3>1. FirstBare(words, i, g[i + 1], g[i + 2]) = 0
      BY <2>1 DEF FirstBare
    <3>2. QED BY <1>1, <1>9, <3>1
  <2>2. QED BY <1>1, <2>1
<1>11. ASSUME NEW m \in Nat, m \in G PROVE m + 1 \in G
  <2>1. ASSUME NEW i \in 1 .. n + 2, i > n - (m + 1), ~(i > n - m) PROVE g[i] \in S
    <3>1. i = n - m /\ i \in 1 .. n /\ i + 1 \in 1 .. n + 2 /\ i + 2 \in 1 .. n + 2
      BY <1>1, <2>1
    <3> HIDE DEF S
    <3>2. g[i + 1] \in S /\ g[i + 2] \in S
      BY <1>1, <1>11, <3>1
    <3>3. FirstBare(words, i, g[i + 1], g[i + 2]) \in S
      BY <1>2, <3>1, <3>2
    <3>4. QED BY <1>9, <3>3
  <2>2. QED BY <1>11, <2>1
<1>12. n \in G
  <2> HIDE DEF G
  <2> QED BY <1>1, <1>10, <1>11, UpFromZero
<1>13. \A i \in 1 .. n + 2 : g[i] \in S
  BY <1>1, <1>12
<1>14. g \in [1 .. n + 2 -> S]
  <2> HIDE DEF S
  <2> QED BY <1>8, <1>13 DEF FindsFrom
<1>15. SplitCommand(words) = SplitAt(words, g[1])
  BY <1>7, SplitFinds
<1>16. QED BY <1>9, <1>14, <1>15

\* What is left to parse are words.
LEMMA RestIsWords ==
  ASSUME NEW words \in Seq(STRING)
  PROVE  SplitCommand(words).rest \in Seq(STRING)
<1>1. PICK f \in [1 .. Len(words) + 2 -> 0 .. Len(words)] : SplitCommand(words) = SplitAt(words, f[1])
  BY SplitRules
<1>2. 1 \in 1 .. Len(words) + 2
  OBVIOUS
<1>3. f[1] \in 0 .. Len(words)
  BY <1>2
<1>4. RemoveAt(words, f[1]) = SubSeq(words, 1, f[1] - 1) \o SubSeq(words, f[1] + 1, Len(words))
  BY DEF RemoveAt
<1>5. ASSUME f[1] # 0 PROVE RemoveAt(words, f[1]) \in Seq(STRING)
  BY <1>3, <1>4, <1>5
<1>6. QED BY <1>1, <1>5 DEF SplitAt

-----------------------------------------------------------------------------
(* The options. *)

\* What the words come to has a list of flags.
LEMMA FlagsAreListed ==
  ASSUME NEW words \in Seq(STRING)
  PROVE  Dispatch(words).flags \in Seq(Words \X Words)
<1> DEFINE split == SplitCommand(words)
           p == Parse(split.rest, split.name, split.name # "keys")
<1>1. (split.name # "keys") \in BOOLEAN /\ split.rest \in Seq(STRING)
  BY RestIsWords
<1>2. PICK f \in [1 .. Len(split.rest) + 2 -> Readings] : p = f[1]
  <2> HIDE DEF split
  <2>1. QED BY <1>1, ParseRules DEF ParsedBy
<1>3. 1 \in 1 .. Len(split.rest) + 2
  BY <1>1
<1>4. p \in Readings
  BY <1>2, <1>3
<1>5. p.flags \in Seq(Words \X Words) /\ << >> \in Seq(Words \X Words)
  BY <1>4 DEF Readings
<1>6. \A what : Says(what).flags = << >> /\ Outcome(what, p).flags = p.flags
  BY DEF Says, Outcome
<1>7. QED
  <2> HIDE DEF split, p
  <2>1. Dispatch(words).flags \in {<< >>, p.flags}
    BY <1>6 DEF Dispatch, RunCommand, CompletionCommand, KeysCommand, Explore, split, p
  <2>2. QED BY <1>5, <2>1

\* The last flag of a kind is one of the kind.
LEMMA LatestIsOne ==
  ASSUME NEW F, NEW fs \in Seq(F), NEW ws, NEW else
  PROVE  Latest(fs, ws, else) = else \/ Latest(fs, ws, else)[1] \in ws
<1> DEFINE at == {i \in DOMAIN fs : fs[i][1] \in ws}
           last == CHOOSE i \in at : \A j \in at : j <= i
<1>1. Latest(fs, ws, else) = IF at = {} THEN else ELSE fs[last]
  BY Zenon DEF Latest
<1>2. CASE at = {}
  BY <1>1, <1>2
<1>3. CASE at # {}
  <2>1. at \in SUBSET (1 .. Len(fs)) /\ Len(fs) \in Nat
    OBVIOUS
  <2> HIDE DEF at
  <2>2. \E i \in at : \A j \in at : j <= i
    BY <1>3, <2>1, LastOfSome
  <2>3. last \in at
    BY <2>2
  <2> HIDE DEF last
  <2>4. fs[last][1] \in ws
    BY <2>3 DEF at
  <2>5. QED BY <1>1, <1>3, <2>4
<1>4. QED BY <1>2, <1>3

\* The options are of their kinds.
LEMMA OptionsAreSo ==
  ASSUME NEW words \in Seq(STRING), NEW opts, opts = Options(Dispatch(words))
  PROVE  /\ opts.tls \in {Blank, "-tls", "-tls=false"}
         /\ \A s \in DOMAIN opts.sets : opts.sets[s] \in BOOLEAN
<1> DEFINE fs == Dispatch(words).flags
           S == {SettingOf[f[1]] : f \in {g \in Range(fs) : g[1] \in DOMAIN SettingOf}}
           Set(s) == Latest(fs, {f \in DOMAIN SettingOf : SettingOf[f] = s}, << >>)[1]
                       # "-insecure=false"
<1>1. /\ opts.tls = Latest(fs, {"-tls", "-tls=false"}, <<Blank, Blank>>)[1]
      /\ opts.sets = [s \in S |-> Set(s)]
  BY Zenon DEF Options
<1>2. fs \in Seq(Words \X Words)
  BY FlagsAreListed
<1>3. opts.tls \in {Blank, "-tls", "-tls=false"}
  <2> HIDE DEF fs
  <2>1. \/ Latest(fs, {"-tls", "-tls=false"}, <<Blank, Blank>>) = <<Blank, Blank>>
        \/ Latest(fs, {"-tls", "-tls=false"}, <<Blank, Blank>>)[1] \in {"-tls", "-tls=false"}
    BY <1>2, LatestIsOne
  <2>2. QED BY <1>1, <2>1
<1>4. \A s \in DOMAIN opts.sets : opts.sets[s] \in BOOLEAN
  <2> HIDE DEF S
  <2> QED BY <1>1
<1>5. QED BY <1>3, <1>4


-----------------------------------------------------------------------------
(* The session. *)

Prepared == Prepare(job.file, Asked, job.broken)
Envs == Environments(job.file, Asked)
Started == Startups(job.file, Asked, EnvTarget(Envs))

\* A session is there only if no step of prepare has failed.
LEMMA NothingFailed ==
  ASSUME Prepared.code = 0
  PROVE  /\ Prepared = [code |-> 0, envs |-> Envs, startup |-> Started]
         /\ ~Envs.failed /\ ~Started.failed
         /\ Started.list[Started.active].target # Blank
<1> DEFINE Step(name, fails) == [name |-> name, fails |-> fails]
           steps == << Step("config", ~ValidNames(job.file)),
                       Step("environments", Envs.failed),
                       Step("connections", Started.failed),
                       Step("target", ~Started.failed /\ Started.list[Started.active].target = Blank),
                       Step("requests", "requests" \in job.broken),
                       Step("look", "look" \in job.broken),
                       Step("log", "log" \in job.broken),
                       Step("schema", "schema" \in job.broken) >>
           failures == {i \in DOMAIN steps : steps[i].fails}
           first == CHOOSE i \in failures : \A j \in failures : i <= j
<1>0. Prepared = IF failures = {}
                 THEN [code |-> 0, envs |-> Envs, startup |-> Started]
                 ELSE [code |-> IF steps[first].name = "target" THEN 2 ELSE 1]
  BY Zenon DEF Prepared, Prepare, Envs, Started
<1>1. failures = {} /\ Prepared = [code |-> 0, envs |-> Envs, startup |-> Started]
  <2> HIDE DEF failures, first
  <2> QED BY <1>0
<1>3. failures = {}
  BY <1>1
<1>4. DOMAIN steps = 1 .. 8
  OBVIOUS
<1>5. ~steps[2].fails /\ ~steps[3].fails /\ ~steps[4].fails
  <2> HIDE DEF steps
  <2> QED BY <1>3, <1>4
<1>6. QED BY <1>1, <1>5

\* The name of an entry leads to one, or to none.
LEMMA NamedIsThere ==
  ASSUME NEW S, NEW list \in Seq(S), NEW name
  PROVE  Named(list, name) \in DOMAIN list \union {0}
<1>1. CASE name = Blank
  <2>1. list # << >> => 1 \in DOMAIN list
    OBVIOUS
  <2>2. QED BY <1>1, <2>1 DEF Named
<1>2. CASE name # Blank
  <2> DEFINE at == {i \in DOMAIN list : list[i].name = name}
  <2>1. CASE at = {}
    BY <1>2, <2>1, Zenon DEF Named
  <2>2. CASE at # {}
    <3>1. Named(list, name) = CHOOSE i \in DOMAIN list : list[i].name = name
      BY <1>2, <2>2, Zenon DEF Named
    <3>2. QED BY <2>2, <3>1, Zenon
  <2>3. QED BY <2>1, <2>2
<1>3. QED BY <1>1, <1>2

\* What is laid over every environment is in each.
LEMMA LaidOverAll ==
  ASSUME NEW envs, NEW binds, NEW i \in DOMAIN envs, "vars" \in DOMAIN envs[i],
         NEW x \in DOMAIN binds
  PROVE  Laid(envs, binds)[i].vars[x] = binds[x]
<1>1. Laid(envs, binds)[i].vars = Overlaid(envs[i].vars, binds)
  BY DEF Laid
<1>2. QED BY <1>1 DEF Overlaid

\* The environment a session starts in is one of the list, and each of those has the
\* command line's bindings.
LEMMA EnvironmentsAsAsked ==
  ASSUME job \in Jobs, Prepared.code = 0
  PROVE  /\ Envs.active \in DOMAIN Envs.list \union {0}
         /\ Envs.active = 0 => DOMAIN Asked.binds = {}
         /\ DOMAIN job.file.envs \subseteq DOMAIN Envs.list
         /\ \A i \in DOMAIN Envs.list : \A x \in DOMAIN Asked.binds :
              Envs.list[i].vars[x] = Asked.binds[x]
<1> DEFINE file == job.file
           none == file.envs = << >> /\ DOMAIN Asked.binds # {}
           list == IF none THEN << CommandLineOnly >> ELSE file.envs
           active == IF none THEN 1 ELSE Named(file.envs, Asked.env)
<1>1. /\ Envs.list = Laid(list, Asked.binds) /\ Envs.active = active
      /\ Envs.failed = (\/ Asked.env # Blank /\ Named(file.envs, Asked.env) = 0
                        \/ file.envs # << >> /\ UnsetEnv(file.envs[active]))
  BY DEF Envs, Environments
<1>2. ~Envs.failed
  BY NothingFailed
<1>3. /\ file.envs \in Seq({file.envs[i] : i \in DOMAIN file.envs})
      /\ \A i \in DOMAIN file.envs : "vars" \in DOMAIN file.envs[i]
  BY HeadlessAssumption
<1>4. DOMAIN list = DOMAIN Envs.list
  BY <1>1 DEF Laid
<1>5. active \in DOMAIN list \union {0}
  BY <1>3, NamedIsThere
<1>6. DOMAIN file.envs \subseteq DOMAIN list
  BY <1>3
<1>7. ASSUME active = 0 PROVE DOMAIN Asked.binds = {}
  <2>1. ~none /\ Named(file.envs, Asked.env) = 0
    BY <1>7
  <2>2. Asked.env = Blank
    BY <1>1, <1>2, <2>1
  <2>3. file.envs = << >>
    BY <2>1, <2>2 DEF Named
  <2>4. QED BY <2>1, <2>3
<1>8. \A i \in DOMAIN list : "vars" \in DOMAIN list[i]
  <2>1. CASE none
    BY <2>1 DEF CommandLineOnly
  <2>2. CASE ~none
    BY <1>3, <2>2
  <2>3. QED BY <2>1, <2>2
<1>9. \A i \in DOMAIN list : \A x \in DOMAIN Asked.binds : Envs.list[i].vars[x] = Asked.binds[x]
  <2> HIDE DEF list, active
  <2> QED BY <1>1, <1>8, LaidOverAll
<1>10. QED
  <2> HIDE DEF list, active
  <2> QED BY <1>1, <1>4, <1>5, <1>6, <1>7, <1>9

\* The profile a session starts on has the settings it was asked to have, and would
\* not have been let through with settings of TLS and no TLS.
LEMMA ProfileAsAsked ==
  ASSUME job \in Jobs, Prepared.code = 0, NEW p, p = Started.list[Started.active],
         \A s \in DOMAIN Asked.sets : Asked.sets[s] \in BOOLEAN,
         Asked.tls \in {Blank, "-tls", "-tls=false"}
  PROVE  /\ Asked.tls = "-tls=false" => ~p.tls /\ p.settings = {}
         /\ Asked.tls # "-tls=false" /\ DOMAIN Asked.sets # {} => p.tls
         /\ \A s \in DOMAIN Asked.sets : (s \in p.settings) = Asked.sets[s]
         /\ Asked.target # Blank => p.target = Asked.target
<1> DEFINE listed == Connections(job.file)
           list == IF listed = << >> THEN << NoProfile >> ELSE listed
           active == IF Asked.profile = Blank THEN 1 ELSE Named(list, Asked.profile)
           envTarget == EnvTarget(Envs)
           moved == IF envTarget = Blank THEN list[active]
                    ELSE [list[active] EXCEPT !.target = envTarget]
           profile == ApplyFlags(moved, Asked)
<1>1. Started = IF active = 0 \/ Unset(list[active])
                THEN [list |-> list, active |-> active, failed |-> TRUE]
                ELSE [list |-> [list EXCEPT ![active] = profile], active |-> active,
                      failed |-> profile.target # Blank /\ ~Valid(profile)]
  BY Zenon DEF Started, Startups
<1>2. ~Started.failed /\ Started.list[Started.active].target # Blank
  BY NothingFailed
<1>3. /\ active # 0 /\ Started.active = active /\ Started.list = [list EXCEPT ![active] = profile]
      /\ ~(profile.target # Blank /\ ~Valid(profile))
  <2> HIDE DEF list, active, profile
  <2> QED BY <1>1, <1>2
<1> DEFINE top == [job.file.top EXCEPT !.name = "default"]
           file == job.file
           P == {file.profiles[i] : i \in DOMAIN file.profiles} \union {top, NoProfile}
<1>4. listed \in Seq(P) /\ \A q \in P : IsProfile(q)
  <2>1. /\ IsProfile(file.top)
        /\ file.profiles \in Seq({file.profiles[i] : i \in DOMAIN file.profiles})
        /\ \A i \in DOMAIN file.profiles : IsProfile(file.profiles[i])
    BY HeadlessAssumption
  <2>2. IsProfile(top)
    BY <2>1 DEF IsProfile
  <2>3. listed = << top >> \o file.profiles \/ listed = file.profiles
    BY DEF Connections
  <2>4. IsProfile(NoProfile)
    BY DEF NoProfile, IsProfile
  <2>5. \A q \in P : IsProfile(q)
    BY <2>1, <2>2, <2>4
  <2>6. file.profiles \in Seq(P) /\ << top >> \in Seq(P)
    BY <2>1
  <2> HIDE DEF top, listed, P
  <2>7. << top >> \o file.profiles \in Seq(P)
    BY <2>6
  <2>8. QED BY <2>3, <2>5, <2>6, <2>7
<1>5. list \in Seq(P) /\ list # << >> /\ \A i \in DOMAIN list : IsProfile(list[i])
  <2>1. NoProfile \in P
    OBVIOUS
  <2> HIDE DEF listed, P
  <2>2. list \in Seq(P) /\ list # << >>
    BY <1>4, <2>1
  <2>3. QED BY <1>4, <2>2
<1>6. active \in DOMAIN list
  <2>1. Named(list, Asked.profile) \in DOMAIN list \union {0}
    BY <1>5, NamedIsThere
  <2>2. 1 \in DOMAIN list
    BY <1>5
  <2> HIDE DEF list, P
  <2>3. QED BY <1>3, <2>1, <2>2
<1>7. p = profile
  <2> HIDE DEF list, active, profile
  <2> QED BY <1>3, <1>6
<1>8. Valid(profile)
  <2> HIDE DEF list, active, profile
  <2> QED BY <1>2, <1>3, <1>7
<1>9. {"target", "tls", "settings"} \subseteq DOMAIN list[active]
  BY <1>5, <1>6 DEF IsProfile
<1>10. {"target", "tls", "settings"} \subseteq DOMAIN moved
  <2> HIDE DEF list, active, envTarget
  <2> QED BY <1>9
<1>11. /\ p.target = IF Asked.target # Blank THEN Asked.target ELSE moved.target
       /\ p.settings = (moved.settings \cup {s \in DOMAIN Asked.sets : Asked.sets[s]})
                           \ {s \in DOMAIN Asked.sets : ~Asked.sets[s]}
       /\ p.tls = IF Asked.tls # Blank THEN Asked.tls = "-tls"
                  ELSE moved.tls \/ DOMAIN Asked.sets # {}
  <2> HIDE DEF moved
  <2> QED BY <1>7, <1>10 DEF ApplyFlags
<1>12. \A s \in DOMAIN Asked.sets : (s \in p.settings) = Asked.sets[s]
  <2> HIDE DEF moved, profile
  <2> QED BY <1>11
<1>13. ~p.tls => p.settings = {}
  BY <1>7, <1>8 DEF Valid
<1>14. Asked.tls = "-tls=false" => ~p.tls
  <2>1. "-tls=false" # Blank /\ "-tls=false" # "-tls"
    BY Zenon DEF Blank
  <2> HIDE DEF moved, profile
  <2>2. QED BY <1>11, <2>1, Zenon
<1>15. Asked.tls # "-tls=false" /\ DOMAIN Asked.sets # {} => p.tls
  <2> HIDE DEF moved, profile
  <2>1. QED BY <1>11, Zenon
<1>16. QED
  BY <1>11, <1>12, <1>13, <1>14, <1>15
-----------------------------------------------------------------------------
(* The invariants. *)

\* A session is what prepare made of the job, in an environment that it has.
SessionInv ==
  /\ job \in Jobs
  /\ Asked = Options(Dispatch(Flatten(job.line)))
  /\ phase = "start" => session = << >>
  /\ DOMAIN chosen = {"env", "profile"}
  /\ session # << >> =>
       /\ session = Prepared /\ session.code = 0
       /\ chosen.env \in DOMAIN job.file.envs \union {session.envs.active}

Running == phase \in {"discover", "next"} \/ Calling
EntryNames == {Entries[i].name : i \in DOMAIN Entries}
Results == [name : EntryNames, status : {Blank, "NotFound", "OK"}, error : BOOLEAN, skipped : BOOLEAN]

\* What is sent for an entry: every name it needs, as the session's environment has it.
Said(i) == [x \in Entries[i].needs |-> Bindings(session, session.envs.active)[x]]
Sends == {[entry |-> i, answered |-> b, said |-> Said(i)] :
            i \in {j \in DOMAIN Entries : Entries[j].needs \subseteq Bound(chosen.env)}, b \in BOOLEAN}

\* A result says what became of its entry.
Told(i) ==
  /\ report[i].name = Entries[i].name
  /\ report[i].skipped =>
       Entries[i].method \in found /\ Kinds[Entries[i].method] \notin {"unary", "watch"}
  /\ ~report[i].skipped /\ ~report[i].error =>
       \E k \in DOMAIN wire : wire[k].entry = i /\ wire[k].answered

\* A run has a result for each entry it is through with, and the last it sent is for
\* the one it is at.
RunInv ==
  /\ Running \/ phase \in {"start", "explore", "exited"}
  /\ phase = "start" => report = << >> /\ wire = << >> /\ exit = -1
  /\ phase = "explore" => command.does = "explore"
  /\ phase # "exited" => exit # 0
  /\ Running =>
       /\ command.does = "run" /\ session # << >> /\ chosen.env = session.envs.active
       /\ Entries # << >>
       /\ report \in Seq(Results) /\ wire \in Seq(Sends)
       /\ phase = "discover" => report = << >>
       /\ Len(report) <= Len(Entries)
       /\ Calling => At <= Len(Entries) /\ Entry.needs \subseteq Bound(chosen.env)
       /\ phase \in {"close", "drain"} => Len(wire) > 0 /\ wire[Len(wire)].entry = At
       /\ \A i \in DOMAIN report : Told(i)
  /\ phase = "exited" => GreenMeansAnswered


\* What holds of the session as the words are read.
LEMMA SessionInit == Init => SessionInv
<1> SUFFICES ASSUME Init PROVE SessionInv
  OBVIOUS
<1>1. /\ job \in Jobs /\ Asked = Options(Dispatch(Flatten(job.line)))
      /\ session = << >> /\ chosen = [env |-> 0, profile |-> 0]
  BY Zenon DEF Init, Asked
<1>2. DOMAIN chosen = {"env", "profile"}
  BY <1>1
<1>3. QED BY <1>1, <1>2 DEF SessionInv

\* What holds of the session stays as each command goes on.
LEMMA SessionStep == SessionInv /\ [Next]_vars => SessionInv'
<1> SUFFICES ASSUME SessionInv, [Next]_vars PROVE SessionInv'
  OBVIOUS
<1> USE DEF Asked
<1>1. job' = job /\ command' = command
  BY DEF Next, vars, Answer, Start, SwitchEnvironment, SwitchProfile, Discover, NotSent, Begin,
         Answered, CallFails, Open, SendRequest, CloseSend, Recv, Expire, Interrupt, Write,
         Returns, Advance
<1>2. CASE Start
  <2>1. phase' # "start"
    BY <1>2 DEF Start, Exit
  <2>2. \/ UNCHANGED <<session, chosen>>
        \/ /\ session' = Prepared /\ session'.code = 0
           /\ chosen' = [env |-> session'.envs.active, profile |-> session'.startup.active]
    BY <1>2 DEF Start, Prepared
  <2>3. QED BY <1>1, <2>1, <2>2 DEF SessionInv, Prepared
<1>3. ASSUME NEW i \in DOMAIN job.file.envs, SwitchEnvironment(i) PROVE SessionInv'
  <2>1. chosen'.env = i /\ DOMAIN chosen' = DOMAIN chosen /\ UNCHANGED <<phase, session>>
    BY <1>3 DEF SwitchEnvironment, SessionInv
  <2>2. QED BY <1>1, <1>3, <2>1 DEF SessionInv, Prepared
<1>4. ASSUME NEW i, SwitchProfile(i) PROVE SessionInv'
  <2>1. chosen'.env = chosen.env /\ DOMAIN chosen' = DOMAIN chosen /\ UNCHANGED <<phase, session>>
    BY <1>4 DEF SwitchProfile, SessionInv
  <2>2. QED BY <1>1, <2>1 DEF SessionInv, Prepared
<1>5. ASSUME UNCHANGED <<session, chosen>>, phase' = "start" => phase = "start" PROVE SessionInv'
  BY <1>1, <1>5 DEF SessionInv, Prepared
<1>6. CASE Answer
  BY <1>5, <1>6 DEF Answer, Exit
<1>7. CASE Discover \/ NotSent \/ Begin \/ Answered \/ CallFails
  BY <1>5, <1>7 DEF Discover, NotSent, Begin, Answered, CallFails, Returns, Exit
<1>8. CASE Open \/ SendRequest \/ CloseSend \/ Recv
  BY <1>5, <1>8 DEF Open, SendRequest, CloseSend, Recv, Advance, Returns
<1>9. CASE Expire \/ Interrupt \/ Write \/ UNCHANGED vars
  BY <1>5, <1>9 DEF Expire, Interrupt, Write, Exit, vars
<1>10. QED BY <1>2, <1>3, <1>4, <1>6, <1>7, <1>8, <1>9 DEF Next

\* The session, in every state there is.
THEOREM SessionInvHolds == Spec => []SessionInv
BY SessionInit, SessionStep, PTL DEF Spec

\* What was asked for is what the session has.
LEMMA SessionSuffices == SessionInv => SessionIsAsAsked
<1> SUFFICES ASSUME SessionInv, session # << >> PROVE SessionIsAsAsked
  BY DEF SessionIsAsAsked
<1>1. job \in Jobs /\ session = Prepared /\ Prepared.code = 0
  BY DEF SessionInv
<1>2. session.envs = Envs /\ session.startup = Started
  BY <1>1, NothingFailed
<1>3. Flatten(job.line) \in Seq(STRING)
  <2>1. job.line \in Seq(Seq(STRING))
    BY <1>1, HeadlessAssumption
  <2>2. PICK at \in [0 .. Len(job.line) -> Seq(STRING)] : Spells(job.line, at)
    BY <2>1, FlattenSpells
  <2>3. Len(job.line) \in 0 .. Len(job.line)
    BY <2>1
  <2>4. QED BY <2>2, <2>3 DEF Spells
<1>4. /\ Asked.tls \in {Blank, "-tls", "-tls=false"}
      /\ \A s \in DOMAIN Asked.sets : Asked.sets[s] \in BOOLEAN
  <2>1. Asked = Options(Dispatch(Flatten(job.line)))
    BY DEF SessionInv
  <2>2. QED BY <1>3, <2>1, OptionsAreSo
<1>5. Profile(session) = Started.list[Started.active]
  BY <1>2 DEF Profile
<1>6. /\ Asked.tls = "-tls=false" => ~Profile(session).tls /\ Profile(session).settings = {}
      /\ Asked.tls # "-tls=false" /\ DOMAIN Asked.sets # {} => Profile(session).tls
      /\ \A s \in DOMAIN Asked.sets : (s \in Profile(session).settings) = Asked.sets[s]
      /\ Asked.target # Blank => Profile(session).target = Asked.target
  BY <1>1, <1>4, <1>5, ProfileAsAsked
<1>7. ASSUME chosen.env # 0, NEW x \in DOMAIN Asked.binds
      PROVE  Bindings(session, chosen.env)[x] = Asked.binds[x]
  <2>1. chosen.env \in DOMAIN job.file.envs \union {Envs.active}
    BY <1>2 DEF SessionInv
  <2>2. chosen.env \in DOMAIN Envs.list
    BY <1>1, <1>7, <2>1, EnvironmentsAsAsked
  <2>3. Bindings(session, chosen.env) = Envs.list[chosen.env].vars
    BY <1>2, <1>7 DEF Bindings
  <2>4. QED BY <1>1, <2>2, <2>3, EnvironmentsAsAsked
<1>8. QED BY <1>6, <1>7 DEF SessionIsAsAsked

\* What was asked for on the command line is what the session has, or it does not start
\* (headless.go:203, connections.go:105, environments.go:35): TLS, each of its settings,
\* the address, and a -V in every environment it may switch to.
THEOREM SessionsStartAsAsked == Spec => []SessionIsAsAsked
BY SessionInvHolds, SessionSuffices, PTL


-----------------------------------------------------------------------------
(* The run. *)

\* What is picked is a list.
LEMMA PickIsListed ==
  ASSUME NEW name, NEW request, NEW P, P = Pick(Collections, name, request)
  PROVE  P \in Seq({P[i] : i \in DOMAIN P})
<1> DEFINE whole == Collections[name]
           at == {i \in DOMAIN whole : whole[i].name = request}
           first == CHOOSE i \in at : \A j \in at : i <= j
<1>1. P = IF name \notin DOMAIN Collections THEN << >>
          ELSE IF request = Blank THEN whole
          ELSE IF at = {} THEN << >> ELSE << whole[first] >>
  BY Zenon DEF Pick
<1>2. CASE P = << >>
  BY <1>2
<1>3. CASE name \in DOMAIN Collections /\ P = whole
  BY <1>3, HeadlessAssumption
<1>4. CASE P = << whole[first] >>
  <2> DEFINE entry == whole[first]
  <2> HIDE DEF entry
  <2>1. P = << entry >>
    BY <1>4 DEF entry
  <2>2. QED BY <2>1
<1>5. QED BY <1>1, <1>2, <1>3, <1>4

\* The entries are a list.
LEMMA EntriesAreListed ==
  /\ Len(Entries) \in Nat /\ DOMAIN Entries = 1 .. Len(Entries)
  /\ (Entries # << >>) = (Len(Entries) > 0)
<1> DEFINE E == Entries
<1>1. E \in Seq({E[i] : i \in DOMAIN E})
  BY PickIsListed DEF Entries
<1> HIDE DEF E
<1>2. /\ Len(E) \in Nat /\ DOMAIN E = 1 .. Len(E)
      /\ (E # << >>) = (Len(E) > 0)
  BY <1>1
<1>3. QED BY <1>2 DEF E

\* What is asked and what the session has stay, and with them what there is to send.
LEMMA SameEntries ==
  ASSUME UNCHANGED <<command, session, chosen>>
  PROVE  /\ Entries' = Entries /\ Results' = Results /\ Sends' = Sends
         /\ \A i : Said(i)' = Said(i)
<1>1. Entries' = Entries
  BY DEF Entries, Subject
<1>2. Results' = Results
  BY <1>1 DEF Results, EntryNames
<1>3. \A i : Said(i)' = Said(i)
  BY <1>1 DEF Said
<1>4. \A i : Bound(i)' = Bound(i)
  BY DEF Bound
<1>5. Sends' = Sends
  BY <1>1, <1>3, <1>4 DEF Sends
<1>6. QED BY <1>1, <1>2, <1>3, <1>5

\* Nothing has been sent or answered at the start.
LEMMA RunInit == Init => RunInv
BY DEF Init, RunInv, Running, Calling

\* A result for the entry the run is at is put behind the others.
LEMMA ReturnStep ==
  ASSUME RunInv, Running, At <= Len(Entries), NEW result \in Results, Returns(result),
         result.name = Entry.name,
         wire' \in Seq(Sends),
         \A k \in DOMAIN wire : /\ k \in DOMAIN wire' /\ wire'[k].entry = wire[k].entry
                                /\ wire[k].answered => wire'[k].answered,
         result.skipped => /\ Entry.method \in found
                           /\ Kinds[Entry.method] \notin {"unary", "watch"},
         ~result.skipped /\ ~result.error =>
           \E k \in DOMAIN wire' : wire'[k].entry = At /\ wire'[k].answered
  PROVE  RunInv'
<1>1. /\ phase' = "next" /\ report' = Append(report, result)
      /\ UNCHANGED <<job, command, session, chosen, found, exit>>
  BY DEF Returns
<1>2. Entries' = Entries /\ Results' = Results /\ Sends' = Sends
  BY <1>1, SameEntries
<1>3. /\ command.does = "run" /\ session # << >> /\ chosen.env = session.envs.active
      /\ Entries # << >> /\ report \in Seq(Results) /\ \A i \in DOMAIN report : Told(i)
      /\ exit # 0
  BY DEF RunInv, Running, Calling
<1>4. /\ report' \in Seq(Results) /\ Len(report') = At /\ report'[At] = result
      /\ DOMAIN report' = DOMAIN report \union {At}
      /\ \A i \in DOMAIN report : report'[i] = report[i]
  BY <1>1, <1>3 DEF At
<1>5. ASSUME NEW i \in DOMAIN report' PROVE Told(i)'
  <2>1. CASE i \in DOMAIN report
    <3>1. Told(i) /\ report'[i] = report[i]
      BY <1>3, <1>4, <2>1
    <3>2. QED BY <1>1, <1>2, <3>1 DEF Told
  <2>2. CASE i = At
    BY <1>1, <1>2, <1>4, <2>2 DEF Told, Entry
  <2>3. QED BY <1>4, <2>1, <2>2
<1>6. QED
  BY <1>1, <1>2, <1>3, <1>4, <1>5 DEF RunInv, Running, Calling

\* A result has what a result has.
LEMMA ResultIsOne ==
  ASSUME At \in DOMAIN Entries, NEW status \in {Blank, "NotFound", "OK"},
         NEW error \in BOOLEAN, NEW skipped \in BOOLEAN
  PROVE  /\ Result(status, error, skipped) \in Results
         /\ Result(status, error, skipped).name = Entry.name
         /\ Result(status, error, skipped).skipped = skipped
         /\ Result(status, error, skipped).error = error
BY DEF Result, Results, EntryNames, Entry


\* A command that starts to run has everything a run begins with.
LEMMA StartStep == RunInv /\ SessionInv /\ Start => RunInv'
<1> SUFFICES ASSUME RunInv, SessionInv, Start PROVE RunInv'
  OBVIOUS
<1> DEFINE s == Prepared
<1>1. /\ phase = "start" /\ command.does \in {"run", "explore"}
      /\ UNCHANGED <<job, command, found, report, wire>>
      /\ report = << >> /\ wire = << >> /\ exit # 0
  BY DEF Start, RunInv
<1>2. \/ phase' = "exited" /\ (command.does = "run" => exit' = 1)
      \/ command.does = "explore" /\ phase' = "explore" /\ exit' = exit
      \/ /\ command.does = "run" /\ phase' = "discover" /\ exit' = exit
         /\ Entries # << >> /\ s.code = 0 /\ session' = s
         /\ chosen' = [env |-> s.envs.active, profile |-> s.startup.active]
  BY DEF Start, Exit, Prepared
<1>3. CASE phase' = "exited" /\ (command.does = "run" => exit' = 1)
  BY <1>1, <1>3 DEF RunInv, Running, Calling, GreenMeansAnswered
<1>4. CASE command.does = "explore" /\ phase' = "explore" /\ exit' = exit
  BY <1>1, <1>4 DEF RunInv, Running, Calling
<1>5. CASE /\ command.does = "run" /\ phase' = "discover" /\ exit' = exit
           /\ Entries # << >> /\ s.code = 0 /\ session' = s
           /\ chosen' = [env |-> s.envs.active, profile |-> s.startup.active]
  <2>1. s # << >>
    <3>1. s = [code |-> 0, envs |-> Envs, startup |-> Started]
      BY <1>5, NothingFailed
    <3>2. "code" \in DOMAIN s
      BY <3>1
    <3> HIDE DEF s
    <3>3. QED BY <3>2
  <2>2. chosen'.env = session'.envs.active
    BY <1>5
  <2>3. Entries' = Entries
    BY <1>1 DEF Entries, Subject
  <2>4. report' \in Seq(Results') /\ wire' \in Seq(Sends') /\ Len(report') = 0
        /\ DOMAIN report' = {}
    BY <1>1
  <2>5. QED
    <3> HIDE DEF s
    <3> QED BY <1>1, <1>5, <2>1, <2>2, <2>3, <2>4, EntriesAreListed DEF RunInv, Running, Calling
<1>6. QED BY <1>2, <1>3, <1>4, <1>5

\* A run stays what it is while it has no new result.
LEMMA GoingOn ==
  ASSUME RunInv, UNCHANGED <<command, session, chosen, report, exit>>, Running, Running',
         phase' = "discover" => phase = "discover",
         phase = "discover" \/ found' = found,
         Calling' => At <= Len(Entries) /\ Entry.needs \subseteq Bound(chosen.env),
         wire' \in Seq(Sends),
         \A k \in DOMAIN wire : /\ k \in DOMAIN wire' /\ wire'[k].entry = wire[k].entry
                                /\ wire[k].answered => wire'[k].answered,
         phase' \in {"close", "drain"} => Len(wire') > 0 /\ wire'[Len(wire')].entry = At
  PROVE  RunInv'
<1>1. Entries' = Entries /\ Results' = Results /\ Sends' = Sends /\ Entry' = Entry /\ At' = At
  BY SameEntries DEF Entry, At
<1>2. ASSUME NEW i \in DOMAIN report PROVE Told(i)'
  <2>1. CASE phase = "discover"
    <3>1. report = << >>
      BY <2>1 DEF RunInv
    <3>2. QED BY <1>2, <3>1
  <2>2. CASE found' = found
    <3>1. Told(i)
      BY <1>2 DEF RunInv
    <3>2. QED BY <1>1, <2>2, <3>1 DEF Told
  <2>3. QED BY <2>1, <2>2
<1>3. phase' \notin {"start", "explore", "exited"}
  BY DEF Running, Calling
<1>4. Bound(chosen.env)' = Bound(chosen.env)
  BY DEF Bound
<1>5. (Calling => At <= Len(Entries) /\ Entry.needs \subseteq Bound(chosen.env))'
  BY <1>1, <1>4
<1>6. /\ command.does = "run" /\ session # << >> /\ chosen.env = session.envs.active
      /\ Entries # << >> /\ report \in Seq(Results) /\ Len(report) <= Len(Entries) /\ exit # 0
      /\ phase = "discover" => report = << >>
  BY <1>3 DEF RunInv, Running, Calling
<1>7. (/\ command.does = "run" /\ session # << >> /\ chosen.env = session.envs.active
       /\ Entries # << >> /\ report \in Seq(Results) /\ Len(report) <= Len(Entries) /\ exit # 0
       /\ phase = "discover" => report = << >>)'
  BY <1>1, <1>6
<1>8. (wire \in Seq(Sends) /\ (phase \in {"close", "drain"} => Len(wire) > 0 /\ wire[Len(wire)].entry = At))'
  BY <1>1
<1>9. (\A i \in DOMAIN report : Told(i))'
  BY <1>2
<1>10. QED BY <1>3, <1>5, <1>7, <1>8, <1>9 DEF RunInv

\* An entry that is not sent, or a call that fails, is a result that says so.
LEMMA NotSentStep == RunInv /\ (NotSent \/ CallFails) => RunInv'
<1> SUFFICES ASSUME RunInv, NotSent \/ CallFails PROVE RunInv'
  OBVIOUS
<1>1. Running /\ At <= Len(Entries) /\ wire' = wire
  BY DEF NotSent, CallFails, RunInv, Running
<1>2. wire \in Seq(Sends) /\ report \in Seq(Results)
  BY <1>1 DEF RunInv
<1>3. At \in DOMAIN Entries
  BY <1>1, <1>2, EntriesAreListed DEF At
<1>4. ASSUME NEW status \in {Blank, "NotFound"}, Returns(Result(status, TRUE, FALSE)) PROVE RunInv'
  BY <1>1, <1>2, <1>3, <1>4, ResultIsOne, ReturnStep
<1>5. ASSUME Returns(Result(Blank, TRUE, TRUE)), Entry.method \in found,
             Kinds[Entry.method] \notin {"unary", "watch"}
      PROVE  RunInv'
  BY <1>1, <1>2, <1>3, <1>5, ResultIsOne, ReturnStep
<1>6. QED BY <1>4, <1>5 DEF NotSent, CallFails

\* What is sent for an entry is what its environment reads.
LEMMA SentIsSaid ==
  ASSUME RunInv, Calling, NEW answered \in BOOLEAN, Sent(answered)
  PROVE  /\ wire' \in Seq(Sends) /\ Len(wire') = Len(wire) + 1 /\ Len(wire') \in DOMAIN wire'
         /\ wire'[Len(wire')].entry = At /\ wire'[Len(wire')].answered = answered
         /\ \A k \in DOMAIN wire : k \in DOMAIN wire' /\ wire'[k] = wire[k]
<1>1. /\ wire \in Seq(Sends) /\ report \in Seq(Results) /\ chosen.env = session.envs.active
      /\ At <= Len(Entries) /\ Entry.needs \subseteq Bound(chosen.env)
  BY DEF RunInv, Running
<1> DEFINE send == [entry |-> At, answered |-> answered, said |-> Said(At)]
<1>2. wire' = Append(wire, send)
  BY <1>1 DEF Sent, Said, Entry
<1>3. At \in DOMAIN Entries
  BY <1>1, EntriesAreListed DEF At
<1>4. send \in Sends
  BY <1>1, <1>3 DEF Sends, Entry
<1>5. send.entry = At /\ send.answered = answered
  OBVIOUS
<1> HIDE DEF send
<1>6. QED BY <1>1, <1>2, <1>4, <1>5

\* An answer is one for the entry the run is at.
LEMMA AnsweredStep == RunInv /\ Answered => RunInv'
<1> SUFFICES ASSUME RunInv, Answered PROVE RunInv'
  OBVIOUS
<1>1. Calling /\ Running /\ At <= Len(Entries) /\ Sent(TRUE)
  BY DEF Answered, RunInv, Running, Calling
<1>2. /\ wire' \in Seq(Sends) /\ Len(wire') \in DOMAIN wire'
      /\ wire'[Len(wire')].entry = At /\ wire'[Len(wire')].answered
      /\ \A k \in DOMAIN wire : k \in DOMAIN wire' /\ wire'[k] = wire[k]
  BY <1>1, SentIsSaid
<1>3. At \in DOMAIN Entries
  BY <1>1, EntriesAreListed DEF At, RunInv
<1>4. PICK written \in BOOLEAN : Returns(Result("OK", ~written, FALSE))
  BY DEF Answered
<1>5. (~written) \in BOOLEAN
  OBVIOUS
<1>6. QED BY <1>1, <1>2, <1>3, <1>4, <1>5, ResultIsOne, ReturnStep

\* What is sent, with another outcome.
LEMMA AnsweredInstead ==
  \A A, S : \A e \in [entry : A, answered : BOOLEAN, said : S] : \A d :
    [e EXCEPT !.answered = d] = [entry |-> e.entry, answered |-> d, said |-> e.said]
OBVIOUS

\* The end of a watch is the answer to what was last sent, which is the entry's.
LEMMA RecvStep == RunInv /\ Recv => RunInv'
<1> SUFFICES ASSUME RunInv, Recv PROVE RunInv'
  OBVIOUS
<1>1. /\ phase = "drain" /\ Calling /\ Running /\ At <= Len(Entries)
      /\ Entry.needs \subseteq Bound(chosen.env)
      /\ wire \in Seq(Sends) /\ report \in Seq(Results) /\ Len(wire) > 0
      /\ wire[Len(wire)].entry = At
  BY DEF Recv, RunInv, Running, Calling
<1>2. At \in DOMAIN Entries
  BY <1>1, EntriesAreListed DEF At
<1>3. CASE /\ bodies' = bodies + 1
           /\ UNCHANGED <<job, command, phase, session, chosen, found, report, expired,
                          interrupted, wire, exit>>
  BY <1>1, <1>3, GoingOn DEF Running, Calling
<1>4. CASE Returns(Result("OK", TRUE, FALSE)) /\ UNCHANGED wire
  BY <1>1, <1>2, <1>4, ResultIsOne, ReturnStep
<1>5. CASE /\ Returns(Result("OK", FALSE, FALSE))
           /\ wire' = [wire EXCEPT ![Len(wire)].answered = TRUE]
  <2> DEFINE last == Len(wire)
             ended == [wire[last] EXCEPT !.answered = TRUE]
  <2>1. last \in DOMAIN wire /\ wire[last] \in Sends
    BY <1>1
  <2>2. ended \in Sends /\ ended.entry = At /\ ended.answered
    <3>1. PICK i \in {j \in DOMAIN Entries : Entries[j].needs \subseteq Bound(chosen.env)},
               b \in BOOLEAN :
                 wire[last] = [entry |-> i, answered |-> b, said |-> Said(i)]
      BY <2>1 DEF Sends
    <3> DEFINE e == wire[last]
    <3> HIDE DEF e, last
    <3>2. /\ e \in [entry : DOMAIN Entries, answered : BOOLEAN, said : {Said(i)}]
          /\ e.entry = i /\ e.said = Said(i)
      BY <3>1 DEF e
    <3>a. \A d : [e EXCEPT !.answered = d] = [entry |-> e.entry, answered |-> d, said |-> e.said]
      BY <3>2, AnsweredInstead
    <3>3. [e EXCEPT !.answered = TRUE] = [entry |-> i, answered |-> TRUE, said |-> Said(i)]
      BY <3>2, <3>a, Zenon
    <3>4. ended = [entry |-> i, answered |-> TRUE, said |-> Said(i)]
      BY <3>3, Zenon DEF e
    <3>5. i = At
      BY <1>1, <3>2 DEF e, last
    <3> HIDE DEF ended
    <3>6. TRUE \in BOOLEAN
      OBVIOUS
    <3>c. \A d \in BOOLEAN : [entry |-> i, answered |-> d, said |-> Said(i)] \in Sends
      BY <3>1 DEF Sends
    <3>7. ended \in Sends
      BY <3>4, <3>6, <3>c, Zenon
    <3>8. QED BY <3>4, <3>5, <3>7
  <2>3. wire' = [wire EXCEPT ![last] = ended]
    BY <1>5
  <2> HIDE DEF last, ended
  <2>4. /\ wire' \in Seq(Sends) /\ last \in DOMAIN wire' /\ wire'[last] = ended
        /\ \A k \in DOMAIN wire : k \in DOMAIN wire' /\ (k # last => wire'[k] = wire[k])
    BY <1>1, <2>1, <2>2, <2>3
  <2>5. wire[last].entry = At
    BY <1>1 DEF last
  <2>6. \A k \in DOMAIN wire : /\ k \in DOMAIN wire' /\ wire'[k].entry = wire[k].entry
                               /\ wire[k].answered => wire'[k].answered
    BY <2>2, <2>4, <2>5
  <2>7. \E k \in DOMAIN wire' : wire'[k].entry = At /\ wire'[k].answered
    BY <2>2, <2>4
  <2>8. QED BY <1>1, <1>2, <1>5, <2>4, <2>6, <2>7, ResultIsOne, ReturnStep
<1>6. QED BY <1>3, <1>4, <1>5 DEF Recv


\* No other step takes from a run what it has.
LEMMA OtherSteps ==
  ASSUME RunInv, Discover \/ Begin \/ Open \/ SendRequest \/ CloseSend \/ Expire \/ Interrupt
  PROVE  RunInv'
<1>1. CASE Discover
  <2>1. /\ phase = "discover" /\ Running /\ wire \in Seq(Sends)
        /\ UNCHANGED <<command, session, chosen, report, wire>>
    BY <1>1 DEF Discover, RunInv, Running
  <2>2. CASE Exit(1)
    BY <2>2 DEF Exit, RunInv, Running, Calling, GreenMeansAnswered
  <2>3. CASE phase' = "next" /\ exit' = exit
    BY <2>1, <2>3, GoingOn DEF Running, Calling
  <2>4. QED BY <1>1, <2>2, <2>3 DEF Discover
<1>2. CASE Begin
  <2>1. /\ phase = "next" /\ Running /\ wire \in Seq(Sends) /\ phase' \in {"unary", "open"}
        /\ At <= Len(Entries) /\ Entry.needs \subseteq Bound(chosen.env)
        /\ UNCHANGED <<command, session, chosen, found, report, wire, exit>>
    BY <1>2 DEF Begin, RunInv, Running
  <2>2. QED BY <2>1, GoingOn DEF Running, Calling
<1>3. CASE Open \/ CloseSend
  <2>1. /\ \/ phase = "open" /\ phase' = "send"
           \/ phase = "close" /\ phase' = "drain"
        /\ Calling /\ Running /\ wire \in Seq(Sends)
        /\ At <= Len(Entries) /\ Entry.needs \subseteq Bound(chosen.env)
        /\ phase = "close" => Len(wire) > 0 /\ wire[Len(wire)].entry = At
        /\ UNCHANGED <<command, session, chosen, found, report, wire, exit>>
    BY <1>3 DEF Open, CloseSend, Advance, RunInv, Running, Calling
  <2>2. QED BY <2>1, GoingOn DEF Running, Calling
<1>4. CASE SendRequest
  <2>1. /\ phase = "send" /\ phase' = "close" /\ Calling /\ Running /\ Sent(FALSE)
        /\ At <= Len(Entries) /\ Entry.needs \subseteq Bound(chosen.env)
        /\ wire \in Seq(Sends)
        /\ UNCHANGED <<command, session, chosen, found, report, exit>>
    BY <1>4 DEF SendRequest, Advance, RunInv, Running, Calling
  <2>2. /\ wire' \in Seq(Sends) /\ Len(wire') = Len(wire) + 1 /\ wire'[Len(wire')].entry = At
        /\ \A k \in DOMAIN wire : k \in DOMAIN wire' /\ wire'[k] = wire[k]
    BY <2>1, SentIsSaid
  <2>3. Len(wire') > 0
    BY <2>1, <2>2
  <2>4. QED BY <2>1, <2>2, <2>3, GoingOn DEF Running, Calling
<1>5. CASE Expire \/ Interrupt
  <2>1. /\ Running /\ phase' = phase /\ wire \in Seq(Sends)
        /\ Calling => At <= Len(Entries) /\ Entry.needs \subseteq Bound(chosen.env)
        /\ phase \in {"close", "drain"} => Len(wire) > 0 /\ wire[Len(wire)].entry = At
        /\ UNCHANGED <<command, session, chosen, found, report, wire, exit>>
    BY <1>5 DEF Expire, Bounded, Interrupt, RunInv, Running, Calling
  <2>2. UNCHANGED Running /\ UNCHANGED Calling
    BY <2>1 DEF Running, Calling
  <2>3. QED BY <2>1, <2>2, GoingOn
<1>6. QED BY <1>1, <1>2, <1>3, <1>4, <1>5


\* The exit code is zero only if no attempted request has failed.
LEMMA WriteStep == RunInv /\ SessionInv /\ Write => RunInv'
<1> SUFFICES ASSUME RunInv, SessionInv, Write PROVE RunInv'
  OBVIOUS
<1>1. /\ phase = "next" /\ Running /\ At > Len(Entries) /\ phase' = "exited"
      /\ UNCHANGED <<job, command, session, chosen, found, report, wire>>
      /\ exit' = 0 => Failed(report) = 0
  BY DEF Write, Exit, Running
<1>2. /\ session # << >> /\ Entries # << >> /\ report \in Seq(Results) /\ wire \in Seq(Sends)
      /\ Len(report) <= Len(Entries) /\ \A i \in DOMAIN report : Told(i)
  BY <1>1 DEF RunInv
<1>3. Len(report) = Len(Entries) /\ DOMAIN Entries = DOMAIN report
  BY <1>1, <1>2, EntriesAreListed DEF At
<1>4. ASSUME exit' = 0 PROVE \A i \in DOMAIN report : report[i].skipped \/ ~report[i].error
  <2> DEFINE failures == {i \in DOMAIN report : ~report[i].skipped /\ report[i].error}
  <2>1. Cardinality(failures) = 0
    BY <1>1, <1>4 DEF Failed
  <2>2. IsFiniteSet(failures)
    <3>1. IsFiniteSet(1 .. Len(report))
      BY <1>2, FS_Interval
    <3>2. failures \subseteq 1 .. Len(report)
      BY <1>2
    <3>3. QED BY <3>1, <3>2, FS_Subset
  <2> HIDE DEF failures
  <2>3. failures = {}
    BY <2>1, <2>2, FS_EmptySet
  <2>4. QED BY <2>3 DEF failures
<1>5. ASSUME NEW k \in DOMAIN wire, NEW x \in Entries[wire[k].entry].needs
      PROVE  wire[k].said[x] = IF x \in DOMAIN Asked.binds THEN Asked.binds[x]
                               ELSE Bindings(session, session.envs.active)[x]
  <2>1. PICK i \in DOMAIN Entries, b \in BOOLEAN :
              wire[k] = [entry |-> i, answered |-> b, said |-> Said(i)]
    BY <1>2 DEF Sends
  <2>2. wire[k].entry = i /\ wire[k].said = Said(i)
    BY <2>1
  <2>3. wire[k].said[x] = Bindings(session, session.envs.active)[x]
    BY <1>5, <2>2 DEF Said
  <2>4. ASSUME x \in DOMAIN Asked.binds
        PROVE  Bindings(session, session.envs.active)[x] = Asked.binds[x]
    <3>1. job \in Jobs /\ session = Prepared /\ Prepared.code = 0
      BY <1>2 DEF SessionInv
    <3>2. session.envs = Envs
      BY <3>1, NothingFailed
    <3>3. Envs.active \in DOMAIN Envs.list /\ Envs.active # 0
      BY <2>4, <3>1, EnvironmentsAsAsked
    <3>4. QED BY <2>4, <3>1, <3>2, <3>3, EnvironmentsAsAsked DEF Bindings
  <2>5. QED BY <2>3, <2>4
<1>6. ASSUME exit' = 0, NEW i \in DOMAIN Entries
      PROVE  /\ report[i].name = Entries[i].name
             /\ \/ Entries[i].method \in found /\ Kinds[Entries[i].method] \notin {"unary", "watch"}
                \/ \E k \in DOMAIN wire :
                     /\ wire[k].entry = i /\ wire[k].answered
                     /\ \A x \in Entries[i].needs :
                          wire[k].said[x] = IF x \in DOMAIN Asked.binds THEN Asked.binds[x]
                                            ELSE Bindings(session, session.envs.active)[x]
  BY <1>2, <1>3, <1>4, <1>5, <1>6 DEF Told
<1>7. UNCHANGED <<Entries, Asked, Bindings(session, session.envs.active)>>
  BY <1>1, SameEntries DEF Asked
<1>8. GreenMeansAnswered'
  BY <1>1, <1>2, <1>3, <1>6, <1>7 DEF GreenMeansAnswered
<1>9. QED
  BY <1>1, <1>8 DEF RunInv, Running, Calling

\* What holds of a run stays as it goes on.
LEMMA RunStep == RunInv /\ SessionInv /\ [Next]_vars => RunInv'
<1> SUFFICES ASSUME RunInv, SessionInv, [Next]_vars PROVE RunInv'
  OBVIOUS
<1>1. CASE Answer
  <2>1. phase' = "exited" /\ command.does # "run" /\ command' = command
    BY <1>1 DEF Answer, Exit
  <2>2. QED BY <2>1 DEF RunInv, Running, Calling, GreenMeansAnswered
<1>2. CASE \/ \E i \in DOMAIN job.file.envs : SwitchEnvironment(i)
           \/ \E i \in DOMAIN Connections(job.file) : SwitchProfile(i)
  <2>1. phase = "explore" /\ UNCHANGED <<command, phase, exit>>
    BY <1>2 DEF SwitchEnvironment, SwitchProfile
  <2>2. QED BY <2>1 DEF RunInv, Running, Calling
<1>3. CASE UNCHANGED vars
  <2>1. UNCHANGED <<Running, Calling, Entries, Results, Sends, At, Entry, Asked, Subject>>
    BY <1>3, SameEntries DEF vars, Running, Calling, At, Entry, Asked, Subject
  <2>2. \A i : Bound(i)' = Bound(i) /\ Bindings(session, i)' = Bindings(session, i)
    BY <1>3 DEF vars, Bound
  <2>3. \A i : Told(i)' = Told(i)
    BY <1>3, <2>1 DEF vars, Told
  <2>4. UNCHANGED GreenMeansAnswered
    BY <1>3, <2>1 DEF vars, GreenMeansAnswered
  <2>5. QED BY <1>3, <2>1, <2>2, <2>3, <2>4 DEF vars, RunInv
<1>4. QED
  BY <1>1, <1>2, <1>3, StartStep, NotSentStep, AnsweredStep, RecvStep, OtherSteps, WriteStep
  DEF Next

\* The run, in every state there is.
THEOREM RunInvHolds == Spec => []RunInv
BY RunInit, RunStep, SessionInvHolds, PTL DEF Spec

\* A green run means that what it was to check was checked (runner.go): each entry has
\* its result, in order, and is one that a saved request cannot express or was sent as
\* the session's environment reads it and answered to the end.
THEOREM GreenRunsWereAnswered == Spec => []GreenMeansAnswered
<1>1. RunInv => GreenMeansAnswered
  BY DEF RunInv, GreenMeansAnswered
<1>2. QED BY <1>1, RunInvHolds, PTL


-----------------------------------------------------------------------------
(* The order of the words. *)

\* An element of a list.
LEMMA ElementOf == \A S : \A s \in Seq(S) : \A k \in 1 .. Len(s) : s[k] \in S
OBVIOUS

\* Where everything is in two lists behind each other.
LEMMA Appended ==
  ASSUME NEW W, NEW s \in Seq(W), NEW t \in Seq(W), NEW r, r = s \o t
  PROVE  /\ r \in Seq(W) /\ Len(r) = Len(s) + Len(t)
         /\ \A q \in 1 .. Len(s) : q \in 1 .. Len(r) /\ r[q] = s[q]
         /\ \A p \in 1 .. Len(t) : Len(s) + p \in 1 .. Len(r) /\ r[Len(s) + p] = t[p]
         /\ \A q \in 1 .. Len(r) : q \in 1 .. Len(s) \/ q - Len(s) \in 1 .. Len(t)
         /\ \A q \in 1 .. Len(r) : Len(s) + (q - Len(s)) = q
<1>1. r \in Seq(W) /\ Len(r) = Len(s) + Len(t) /\ Len(s) \in Nat /\ Len(t) \in Nat
  OBVIOUS
<1>2. \A q \in 1 .. Len(s) : q \in 1 .. Len(r) /\ r[q] = s[q]
  BY <1>1
<1>3. \A p \in 1 .. Len(t) : Len(s) + p \in 1 .. Len(r) /\ r[Len(s) + p] = t[p]
  <2>1. SUFFICES ASSUME NEW p \in 1 .. Len(t)
                 PROVE  Len(s) + p \in 1 .. Len(r) /\ r[Len(s) + p] = t[p]
    OBVIOUS
  <2>2. Len(s) + p \in 1 .. Len(r) /\ ~(Len(s) + p <= Len(s)) /\ Len(s) + p - Len(s) = p
    BY <1>1
  <2>3. QED BY <1>1, <2>2
<1>4. /\ \A q \in 1 .. Len(r) : q \in 1 .. Len(s) \/ q - Len(s) \in 1 .. Len(t)
      /\ \A q \in 1 .. Len(r) : Len(s) + (q - Len(s)) = q
  BY <1>1
<1>5. QED BY <1>1, <1>2, <1>3, <1>4

\* Each element of each unit is in Flatten, where the units before it end, and nothing
\* else is.
Placed(units, at) ==
  /\ \A k \in 1 .. Len(units) :
       /\ Len(at[k]) = Len(at[k - 1]) + Len(units[k])
       /\ \A p \in 1 .. Len(units[k]) :
            /\ Len(at[k - 1]) + p \in 1 .. Len(Flatten(units))
            /\ Flatten(units)[Len(at[k - 1]) + p] = units[k][p]
  /\ \A q \in 1 .. Len(Flatten(units)) :
       \E k \in 1 .. Len(units) : \E p \in 1 .. Len(units[k]) : Flatten(units)[q] = units[k][p]

\* That is so after Flatten.
LEMMA FlattenPlaces ==
  ASSUME NEW W, NEW units \in Seq(Seq(W)), NEW at \in [0 .. Len(units) -> Seq(W)],
         Spells(units, at)
  PROVE  Placed(units, at)
<1> DEFINE n == Len(units)
           Places(m) == \A k \in 1 .. m : \A p \in 1 .. Len(units[k]) :
                          /\ Len(at[k - 1]) + p \in 1 .. Len(at[m])
                          /\ at[m][Len(at[k - 1]) + p] = units[k][p]
           Sources(m) == \A q \in 1 .. Len(at[m]) :
                           \E k \in 1 .. m : \E p \in 1 .. Len(units[k]) : at[m][q] = units[k][p]
           G == {m \in Nat : m <= n => Places(m) /\ Sources(m)}
<1>1. n \in Nat /\ n \in 0 .. n
  OBVIOUS
<1>2. ASSUME NEW k \in 1 .. n
      PROVE  /\ at[k] = at[k - 1] \o units[k] /\ units[k] \in Seq(W) /\ at[k - 1] \in Seq(W)
             /\ at[k] \in Seq(W) /\ Len(at[k]) = Len(at[k - 1]) + Len(units[k])
  <2>1. at[k] = at[k - 1] \o units[k]
    BY DEF Spells
  <2>2. k - 1 \in 0 .. n /\ k \in 0 .. n
    BY <1>1
  <2> DEFINE T == Seq(W)
  <2>3. units \in Seq(T) /\ at \in [0 .. n -> T]
    OBVIOUS
  <2> HIDE DEF T
  <2>x. units[k] \in T
    BY <2>3, ElementOf, Zenon
  <2>4. units[k] \in T /\ at[k - 1] \in T
    BY <2>2, <2>3, <2>x
  <2> DEFINE s == at[k - 1]
             t == units[k]
             r == at[k]
  <2> HIDE DEF s, t, r
  <2>5. s \in Seq(W) /\ t \in Seq(W) /\ r = s \o t
    BY <2>1, <2>4 DEF T, s, t, r
  <2>6. r \in Seq(W) /\ Len(r) = Len(s) + Len(t)
    BY <2>5, Appended
  <2>7. QED BY <2>5, <2>6 DEF s, t, r
<1>3. 0 \in G
  <2>1. at[0] = << >>
    BY DEF Spells
  <2>2. 1 .. 0 = {} /\ Len(at[0]) = 0
    BY <2>1
  <2>3. QED BY <2>2
<1>4. ASSUME NEW m \in Nat, m \in G PROVE m + 1 \in G
  <2> SUFFICES ASSUME m + 1 <= n PROVE Places(m + 1) /\ Sources(m + 1)
    OBVIOUS
  <2> DEFINE j == m + 1
  <2>1. j \in 1 .. n /\ j - 1 = m /\ m <= n /\ 1 .. j = (1 .. m) \union {j}
    BY <1>1
  <2>2. /\ at[j] = at[m] \o units[j] /\ units[j] \in Seq(W) /\ at[m] \in Seq(W)
        /\ Len(at[j]) = Len(at[m]) + Len(units[j])
    BY <1>2, <2>1
  <2>3. Places(m) /\ Sources(m)
    BY <1>4, <2>1
  <2> DEFINE s == at[m]
             t == units[j]
             r == at[j]
  <2> HIDE DEF j, n, G, s, t, r
  <2>a. s \in Seq(W) /\ t \in Seq(W) /\ r = s \o t
    BY <2>2 DEF s, t, r
  <2>b. /\ \A q \in 1 .. Len(s) : r[q] = s[q] /\ q \in 1 .. Len(r)
        /\ \A p \in 1 .. Len(t) : r[Len(s) + p] = t[p] /\ Len(s) + p \in 1 .. Len(r)
        /\ \A q \in 1 .. Len(r) : q \in 1 .. Len(s) \/ q - Len(s) \in 1 .. Len(t)
        /\ \A q \in 1 .. Len(r) : Len(s) + (q - Len(s)) = q
    BY <2>a, Appended
  <2>4. \A q \in 1 .. Len(at[m]) : at[j][q] = at[m][q] /\ q \in 1 .. Len(at[j])
    BY <2>b DEF s, r
  <2>5. \A p \in 1 .. Len(units[j]) : /\ at[j][Len(at[m]) + p] = units[j][p]
                                      /\ Len(at[m]) + p \in 1 .. Len(at[j])
    BY <2>b DEF s, t, r
  <2>6. Places(j)
    <3> SUFFICES ASSUME NEW k \in 1 .. j, NEW p \in 1 .. Len(units[k])
                 PROVE  /\ Len(at[k - 1]) + p \in 1 .. Len(at[j])
                        /\ at[j][Len(at[k - 1]) + p] = units[k][p]
      OBVIOUS
    <3>1. CASE k = j
      BY <2>1, <2>5, <3>1
    <3>2. CASE k \in 1 .. m
      <4>1. /\ Len(at[k - 1]) + p \in 1 .. Len(at[m])
            /\ at[m][Len(at[k - 1]) + p] = units[k][p]
        BY <2>3, <3>2
      <4>2. QED BY <2>4, <4>1
    <3>3. QED BY <2>1, <3>1, <3>2
  <2>7. Sources(j)
    <3> SUFFICES ASSUME NEW q \in 1 .. Len(at[j])
                 PROVE  \E k \in 1 .. j : \E p \in 1 .. Len(units[k]) : at[j][q] = units[k][p]
      OBVIOUS
    <3>1. CASE q \in 1 .. Len(at[m])
      <4>1. PICK k \in 1 .. m : \E p \in 1 .. Len(units[k]) : at[m][q] = units[k][p]
        BY <2>3, <3>1
      <4>2. k \in 1 .. j
        BY <2>1
      <4>3. QED BY <2>4, <3>1, <4>1, <4>2
    <3>2. CASE q \notin 1 .. Len(at[m])
      <4> DEFINE p == q - Len(at[m])
      <4>1. p \in 1 .. Len(units[j]) /\ Len(at[m]) + p = q
        BY <2>b, <3>2 DEF s, t, r
      <4> HIDE DEF p
      <4>2. at[j][q] = units[j][p]
        BY <2>5, <4>1
      <4>3. j \in 1 .. j
        BY <2>1
      <4>4. QED BY <4>1, <4>2, <4>3
    <3>3. QED BY <3>1, <3>2
  <2>8. QED BY <2>6, <2>7 DEF j
<1>5. Places(n) /\ Sources(n)
  <2>1. n \in G
    <3> HIDE DEF G
    <3> QED BY <1>1, <1>3, <1>4, UpFromZero
  <2>2. QED BY <1>1, <2>1
<1>6. Flatten(units) = at[n]
  BY DEF Spells
<1>7. /\ \A k \in 1 .. n : Len(at[k]) = Len(at[k - 1]) + Len(units[k])
      /\ \A k \in 1 .. n : \A p \in 1 .. Len(units[k]) :
           /\ Len(at[k - 1]) + p \in 1 .. Len(Flatten(units))
           /\ Flatten(units)[Len(at[k - 1]) + p] = units[k][p]
  <2> HIDE DEF n
  <2> QED BY <1>2, <1>5, <1>6
<1>8. \A q \in 1 .. Len(Flatten(units)) :
        \E k \in 1 .. n : \E p \in 1 .. Len(units[k]) : Flatten(units)[q] = units[k][p]
  <2>1. \A q \in 1 .. Len(at[n]) :
          \E k \in 1 .. n : \E p \in 1 .. Len(units[k]) : at[n][q] = units[k][p]
    BY <1>5, Zenon
  <2> HIDE DEF n
  <2>2. QED BY <1>6, <2>1, Zenon
<1> HIDE DEF G
<1>9. QED BY <1>7, <1>8 DEF Placed


\* How many of the units have been chosen after each of them, which is where they went.
Counted(units, set, c) ==
  /\ c \in [0 .. Len(units) -> Nat] /\ c[0] = 0 /\ c[Len(units)] = Len(Those(units, set))
  /\ \A k \in 1 .. Len(units) :
       /\ units[k] \in set => /\ c[k] = c[k - 1] + 1
                              /\ c[k - 1] + 1 \in 1 .. Len(Those(units, set))
                              /\ Those(units, set)[c[k - 1] + 1] = units[k]
       /\ units[k] \notin set => c[k] = c[k - 1]

\* Those of the units are units of the set, each where the count says.
LEMMA ThoseAreCounted ==
  ASSUME NEW U, NEW units \in Seq(U), NEW set
  PROVE  /\ \E c : Counted(units, set, c)
         /\ Those(units, set) \in Seq(U)
         /\ \A q \in 1 .. Len(Those(units, set)) :
              \E k \in 1 .. Len(units) : units[k] \in set /\ Those(units, set)[q] = units[k]
<1> DEFINE n == Len(units)
           part == [k \in DOMAIN units |-> IF units[k] \in set THEN <<units[k]>> ELSE << >>]
           T == Seq(U)
<1>1. /\ n \in Nat /\ DOMAIN part = 1 .. n
      /\ \A k \in 1 .. n : part[k] = IF units[k] \in set THEN <<units[k]>> ELSE << >>
  OBVIOUS
<1>2. part \in Seq(T) /\ Len(part) = n
  <2>1. ASSUME NEW k \in 1 .. n PROVE part[k] \in T
    <3>1. <<units[k]>> \in T /\ << >> \in T
      OBVIOUS
    <3> HIDE DEF part, T
    <3>2. QED BY <1>1, <3>1
  <2>2. part = [k \in 1 .. n |-> part[k]]
    OBVIOUS
  <2> HIDE DEF part, n, T
  <2>3. QED BY <1>1, <2>1, <2>2
<1>3. PICK at \in [0 .. Len(part) -> Seq(U)] : Spells(part, at)
  <2> HIDE DEF part, n
  <2> QED BY <1>2, FlattenSpells
<1>4. Those(units, set) = Flatten(part)
  BY Zenon DEF Those
<1> DEFINE those == Flatten(part)
           c == [k \in 0 .. n |-> Len(at[k])]
<1>5. /\ \A k \in 1 .. n :
           /\ Len(at[k]) = Len(at[k - 1]) + Len(part[k])
           /\ \A p \in 1 .. Len(part[k]) :
                Len(at[k - 1]) + p \in 1 .. Len(those) /\ those[Len(at[k - 1]) + p] = part[k][p]
      /\ \A q \in 1 .. Len(those) :
           \E k \in 1 .. n : \E p \in 1 .. Len(part[k]) : those[q] = part[k][p]
  <2> HIDE DEF part, n
  <2>1. Placed(part, at)
    BY <1>2, <1>3, FlattenPlaces
  <2>2. QED BY <1>2, <2>1 DEF Placed
<1>6. at[0] = << >> /\ those = at[n] /\ those \in Seq(U)
  <2>1. n \in 0 .. n
    BY <1>1
  <2> HIDE DEF part, n
  <2> QED BY <1>2, <1>3, <2>1 DEF Spells
<1>7. ASSUME NEW k \in 1 .. n
      PROVE  /\ units[k] \in set =>
                  Len(part[k]) = 1 /\ part[k][1] = units[k] /\ 1 \in 1 .. Len(part[k])
             /\ units[k] \notin set => Len(part[k]) = 0
  <2> DEFINE u == units[k]
  <2> HIDE DEF part, u
  <2>1. part[k] = IF u \in set THEN << u >> ELSE << >>
    BY <1>1 DEF u
  <2>2. Len(<< u >>) = 1 /\ << u >>[1] = u /\ Len(<< >>) = 0
    OBVIOUS
  <2>3. QED BY <2>1, <2>2 DEF u
<1> HIDE DEF part, those
<1>8. c \in [0 .. n -> Nat] /\ \A k \in 0 .. n : c[k] = Len(at[k])
  <2>1. \A k \in 0 .. n : Len(at[k]) \in Nat
    BY <1>2, <1>3
  <2>2. QED BY <2>1
<1> HIDE DEF c
<1>9. ASSUME NEW k \in 1 .. n
      PROVE  /\ units[k] \in set => /\ c[k] = c[k - 1] + 1 /\ c[k - 1] + 1 \in 1 .. Len(those)
                                    /\ those[c[k - 1] + 1] = units[k]
             /\ units[k] \notin set => c[k] = c[k - 1]
  <2>1. c[k] = Len(at[k]) /\ c[k - 1] = Len(at[k - 1]) /\ c[k - 1] \in Nat
    <3>1. k \in 0 .. n /\ k - 1 \in 0 .. n
      BY <1>1
    <3> HIDE DEF n
    <3>2. QED BY <1>8, <3>1
  <2> HIDE DEF n
  <2>2. CASE units[k] \in set
    BY <1>5, <1>7, <2>1, <2>2
  <2>3. CASE units[k] \notin set
    <3>1. Len(part[k]) = 0 /\ Len(at[k]) = Len(at[k - 1]) + Len(part[k])
      BY <1>5, <1>7, <2>3
    <3>2. QED BY <2>1, <2>3, <3>1
  <2>4. QED BY <2>2, <2>3
<1>10. c[0] = 0 /\ c[n] = Len(those)
  BY <1>1, <1>6, <1>8
<1>11. Counted(units, set, c)
  BY <1>4, <1>8, <1>9, <1>10 DEF Counted, those
<1>12. ASSUME NEW q \in 1 .. Len(those)
       PROVE  \E k \in 1 .. n : units[k] \in set /\ those[q] = units[k]
  <2>1. PICK k \in 1 .. n : \E p \in 1 .. Len(part[k]) : those[q] = part[k][p]
    BY <1>5
  <2>2. PICK p \in 1 .. Len(part[k]) : those[q] = part[k][p]
    BY <2>1
  <2>3. units[k] \in set /\ p = 1
    BY <1>7, <2>2
  <2>4. QED BY <1>7, <2>2, <2>3
<1>13. QED BY <1>4, <1>6, <1>11, <1>12 DEF those


\* The words are those of the units, each unit's from its place o[j] on.
Spelled(words, units, o) ==
  /\ o \in [1 .. Len(units) + 1 -> Nat] /\ o[1] = 1 /\ o[Len(units) + 1] = Len(words) + 1
  /\ \A j \in 1 .. Len(units) :
       /\ o[j + 1] = o[j] + Len(units[j])
       /\ \A p \in 1 .. Len(units[j]) : words[o[j] + p - 1] = units[j][p]

\* Flatten spells the units.
LEMMA FlattenIsSpelled ==
  ASSUME NEW units \in Seq(Seq(STRING))
  PROVE  /\ Flatten(units) \in Seq(STRING)
         /\ \E o : Spelled(Flatten(units), units, o)
<1> DEFINE n == Len(units)
           words == Flatten(units)
<1>1. PICK at \in [0 .. n -> Seq(STRING)] : Spells(units, at)
  BY FlattenSpells
<1>2. Placed(units, at)
  BY <1>1, FlattenPlaces
<1> DEFINE o == [j \in 1 .. n + 1 |-> Len(at[j - 1]) + 1]
<1>3. n \in Nat /\ n \in 0 .. n /\ n + 1 \in 1 .. n + 1 /\ n + 1 - 1 = n /\ 1 \in 1 .. n + 1
  OBVIOUS
<1> HIDE DEF n
<1>4. /\ at[0] = << >> /\ words = at[n] /\ words \in Seq(STRING)
  BY <1>1, <1>3 DEF Spells, n
<1>5. \A j \in 1 .. n + 1 : j - 1 \in 0 .. n /\ Len(at[j - 1]) \in Nat
  <2>1. ASSUME NEW j \in 1 .. n + 1 PROVE j - 1 \in 0 .. n /\ Len(at[j - 1]) \in Nat
    <3>1. j - 1 \in 0 .. n
      BY <1>3
    <3>2. at[j - 1] \in Seq(STRING)
      BY <1>1, <3>1
    <3>3. QED BY <3>1, <3>2
  <2>2. QED BY <2>1
<1>6. o \in [1 .. n + 1 -> Nat] /\ o[1] = 1 /\ o[n + 1] = Len(words) + 1
  BY <1>3, <1>4, <1>5
<1>7. ASSUME NEW j \in 1 .. n
      PROVE  /\ o[j + 1] = o[j] + Len(units[j])
             /\ \A p \in 1 .. Len(units[j]) : words[o[j] + p - 1] = units[j][p]
  <2>1. /\ j \in 1 .. n + 1 /\ j + 1 \in 1 .. n + 1 /\ j + 1 - 1 = j
    BY <1>3
  <2>2. o[j] = Len(at[j - 1]) + 1 /\ o[j + 1] = Len(at[j]) + 1 /\ Len(at[j - 1]) \in Nat
    BY <1>5, <2>1
  <2>3. /\ Len(at[j]) = Len(at[j - 1]) + Len(units[j])
        /\ \A p \in 1 .. Len(units[j]) : words[Len(at[j - 1]) + p] = units[j][p]
    BY <1>2 DEF Placed, n
  <2>4. Len(units[j]) \in Nat
    <3>1. units[j] \in Seq(STRING)
      BY ElementOf DEF n
    <3>2. QED BY <3>1
  <2> HIDE DEF o, words
  <2>5. ASSUME NEW p \in 1 .. Len(units[j]) PROVE words[o[j] + p - 1] = units[j][p]
    <3>1. o[j] + p - 1 = Len(at[j - 1]) + p
      BY <2>2, <2>4
    <3>2. QED BY <2>3, <3>1
  <2>6. o[j + 1] = o[j] + Len(units[j])
    <3>1. \A a, b \in Nat : (a + b) + 1 = (a + 1) + b
      OBVIOUS
    <3>2. (Len(at[j - 1]) + Len(units[j])) + 1 = (Len(at[j - 1]) + 1) + Len(units[j])
      BY <2>2, <2>4, <3>1
    <3>3. QED BY <2>2, <2>3, <3>2, Zenon
  <2>7. QED BY <2>5, <2>6
<1>8. Spelled(words, units, o)
  <2> HIDE DEF o, words
  <2> QED BY <1>6, <1>7 DEF Spelled, n
<1>9. QED BY <1>4, <1>8

IsBare(u) == Len(u) = 1 /\ ~IsFlag(u[1])

\* The units are the bare ones bs and the flags fs, in some order that keeps theirs: c[j]
\* is how many bare ones are before the one at j.
Woven(units, bs, fs, c) ==
  /\ c \in [1 .. Len(units) + 1 -> Nat] /\ c[1] = 0 /\ c[Len(units) + 1] = Len(bs)
  /\ Len(units) = Len(bs) + Len(fs)
  /\ \A j \in 1 .. Len(units) :
       \/ /\ IsBare(units[j]) /\ c[j + 1] = c[j] + 1
          /\ c[j] + 1 \in 1 .. Len(bs) /\ bs[c[j] + 1] = units[j]
       \/ /\ ~IsBare(units[j]) /\ c[j + 1] = c[j]
          /\ j - c[j] \in 1 .. Len(fs) /\ fs[j - c[j]] = units[j]

\* The two sets the units are sorted by.
BareOf(units) == {u \in Range(units) : IsBare(u)}

\* A line is woven of its bare units and its flags.
LEMMA LineIsWoven ==
  ASSUME NEW units \in Seq(Seq(STRING)),
         NEW bs, bs = Those(units, BareOf(units)),
         NEW fs, fs = Those(units, Range(units) \ BareOf(units))
  PROVE  \E c : Woven(units, bs, fs, c)
<1> DEFINE n == Len(units)
           B == BareOf(units)
           F == Range(units) \ BareOf(units)
<1>1. n \in Nat
  OBVIOUS
<1>2. \A k \in 1 .. n : (units[k] \in B <=> IsBare(units[k])) /\ (units[k] \in F <=> ~IsBare(units[k]))
  BY DEF BareOf, Range
<1> HIDE DEF B, F
<1>3. PICK b : Counted(units, B, b)
  BY ThoseAreCounted
<1>4. PICK f : Counted(units, F, f)
  BY ThoseAreCounted
<1>5. /\ b \in [0 .. n -> Nat] /\ b[0] = 0 /\ b[n] = Len(bs)
      /\ f \in [0 .. n -> Nat] /\ f[0] = 0 /\ f[n] = Len(fs)
      /\ \A k \in 1 .. n :
           /\ units[k] \in B => /\ b[k] = b[k - 1] + 1 /\ b[k - 1] + 1 \in 1 .. Len(bs)
                                /\ bs[b[k - 1] + 1] = units[k]
           /\ units[k] \notin B => b[k] = b[k - 1]
           /\ units[k] \in F => /\ f[k] = f[k - 1] + 1 /\ f[k - 1] + 1 \in 1 .. Len(fs)
                                /\ fs[f[k - 1] + 1] = units[k]
           /\ units[k] \notin F => f[k] = f[k - 1]
  BY <1>3, <1>4 DEF Counted, B, F
<1> HIDE DEF n
<1> DEFINE G == {k \in Nat : k <= n => b[k] + f[k] = k}
<1>7. \A k \in 0 .. n : b[k] + f[k] = k
  <2>1. ASSUME NEW k \in Nat, k \in G PROVE k + 1 \in G
    <3> SUFFICES ASSUME k + 1 <= n PROVE b[k + 1] + f[k + 1] = k + 1
      OBVIOUS
    <3> DEFINE j == k + 1
    <3>1. j \in 1 .. n /\ j - 1 = k /\ k \in 0 .. n /\ b[k] + f[k] = k
      BY <1>1, <2>1
    <3>2. b[k] \in Nat /\ f[k] \in Nat
      BY <1>5, <3>1
    <3> HIDE DEF j, G
    <3>3. units[j] \in B <=> units[j] \notin F
      BY <1>2, <3>1 DEF n
    <3>4. b[j] + f[j] = k + 1
      BY <1>5, <3>1, <3>2, <3>3
    <3>5. QED BY <3>4 DEF j
  <2>2. 0 \in G
    BY <1>5
  <2>3. Nat \subseteq G
    <3> HIDE DEF G
    <3> QED BY <2>1, <2>2, UpFromZero
  <2>4. QED BY <2>3
<1> DEFINE c == [j \in 1 .. n + 1 |-> b[j - 1]]
<1>8. \A j \in 1 .. n + 1 : j - 1 \in 0 .. n /\ b[j - 1] \in Nat /\ f[j - 1] \in Nat
  BY <1>1, <1>5
<1>9. c \in [1 .. n + 1 -> Nat] /\ \A j \in 1 .. n + 1 : c[j] = b[j - 1]
  BY <1>8
<1> HIDE DEF c
<1>10. c[1] = 0 /\ c[n + 1] = Len(bs) /\ n = Len(bs) + Len(fs)
  <2>1. 1 \in 1 .. n + 1 /\ n + 1 \in 1 .. n + 1 /\ n + 1 - 1 = n /\ n \in 0 .. n /\ 1 - 1 = 0
    BY <1>1
  <2>2. \A j \in 1 .. n + 1 : \A k : k = j - 1 => c[j] = b[k]
    BY <1>9
  <2>3. c[1] = 0 /\ c[n + 1] = Len(bs)
    BY <1>5, <2>1, <2>2
  <2>4. b[n] + f[n] = n
    BY <1>7, <2>1
  <2>5. QED BY <1>5, <2>3, <2>4
<1>11. ASSUME NEW j \in 1 .. n
       PROVE  \/ /\ IsBare(units[j]) /\ c[j + 1] = c[j] + 1
                 /\ c[j] + 1 \in 1 .. Len(bs) /\ bs[c[j] + 1] = units[j]
              \/ /\ ~IsBare(units[j]) /\ c[j + 1] = c[j]
                 /\ j - c[j] \in 1 .. Len(fs) /\ fs[j - c[j]] = units[j]
  <2>1. j \in 1 .. n + 1 /\ j + 1 \in 1 .. n + 1 /\ j + 1 - 1 = j /\ j - 1 \in 0 .. n
    BY <1>1
  <2>2. c[j] = b[j - 1] /\ c[j + 1] = b[j] /\ b[j - 1] + f[j - 1] = j - 1
        /\ b[j - 1] \in Nat /\ f[j - 1] \in Nat
    BY <1>7, <1>8, <1>9, <2>1
  <2>3. CASE IsBare(units[j])
    BY <1>2, <1>5, <2>2, <2>3 DEF n
  <2>4. CASE ~IsBare(units[j])
    <3>1. units[j] \in F /\ units[j] \notin B
      BY <1>2, <2>4 DEF n
    <3>2. f[j - 1] + 1 = j - c[j]
      BY <2>2
    <3>3. QED BY <1>5, <2>2, <2>4, <3>1, <3>2
  <2>5. QED BY <2>3, <2>4
<1>12. Woven(units, bs, fs, c)
  BY <1>9, <1>10, <1>11 DEF Woven, n
<1>13. QED BY <1>12


\* The line with its flags at the end is woven of the same.
LEMMA SortedIsWoven ==
  ASSUME NEW U, NEW bs \in Seq(U), NEW fs \in Seq(U),
         \A i \in 1 .. Len(bs) : IsBare(bs[i]), \A i \in 1 .. Len(fs) : ~IsBare(fs[i])
  PROVE  \E c : Woven(bs \o fs, bs, fs, c)
<1> DEFINE units == bs \o fs
           m == Len(bs)
           n == Len(units)
           c == [j \in 1 .. n + 1 |-> IF j <= m THEN j - 1 ELSE m]
<1>1. /\ m \in Nat /\ n \in Nat /\ Len(fs) \in Nat /\ n = m + Len(fs)
      /\ \A q \in 1 .. m : units[q] = bs[q]
      /\ \A p \in 1 .. Len(fs) : units[m + p] = fs[p]
  BY Appended
<1> HIDE DEF units, m, n
<1>2. c \in [1 .. n + 1 -> Nat] /\ \A j \in 1 .. n + 1 : c[j] = IF j <= m THEN j - 1 ELSE m
  BY <1>1
<1> HIDE DEF c
<1>3. c[1] = 0 /\ c[n + 1] = m
  BY <1>1, <1>2
<1>4. ASSUME NEW j \in 1 .. n
      PROVE  \/ /\ IsBare(units[j]) /\ c[j + 1] = c[j] + 1
                /\ c[j] + 1 \in 1 .. m /\ bs[c[j] + 1] = units[j]
             \/ /\ ~IsBare(units[j]) /\ c[j + 1] = c[j]
                /\ j - c[j] \in 1 .. Len(fs) /\ fs[j - c[j]] = units[j]
  <2>1. j \in 1 .. n + 1 /\ j + 1 \in 1 .. n + 1
    BY <1>1
  <2>2. CASE j <= m
    <3>1. c[j] = j - 1 /\ c[j + 1] = j /\ j \in 1 .. m /\ j - 1 + 1 = j
      BY <1>1, <1>2, <2>1, <2>2
    <3>2. units[j] = bs[j] /\ IsBare(bs[j])
      BY <1>1, <3>1 DEF m
    <3>3. QED BY <3>1, <3>2
  <2>3. CASE ~(j <= m)
    <3>1. c[j] = m /\ c[j + 1] = m /\ j - m \in 1 .. Len(fs) /\ m + (j - m) = j
      BY <1>1, <1>2, <2>1, <2>3
    <3>2. units[j] = fs[j - m] /\ ~IsBare(fs[j - m])
      BY <1>1, <3>1
    <3>3. QED BY <3>1, <3>2
  <2>4. QED BY <2>2, <2>3
<1>5. Woven(units, bs, fs, c)
  BY <1>1, <1>2, <1>3, <1>4 DEF Woven, m, n
<1>6. QED BY <1>5 DEF units

\* The places of the units go up.
LEMMA PlacesGoUp ==
  ASSUME NEW units \in Seq(Seq(STRING)), NEW words, NEW o, Spelled(words, units, o),
         NEW i \in 1 .. Len(units) + 1, NEW j \in 1 .. Len(units) + 1, i <= j
  PROVE  o[i] <= o[j]
<1> DEFINE n == Len(units)
           G == {k \in Nat : i + k <= n + 1 => o[i] <= o[i + k]}
<1>1. n \in Nat /\ \A k \in 1 .. n : Len(units[k]) \in Nat
  <2>1. ASSUME NEW k \in 1 .. n PROVE Len(units[k]) \in Nat
    <3>1. units[k] \in Seq(STRING)
      BY ElementOf
    <3>2. QED BY <3>1
  <2>2. QED BY <2>1
<1> HIDE DEF n
<1>2. /\ o \in [1 .. n + 1 -> Nat] /\ \A k \in 1 .. n : o[k + 1] = o[k] + Len(units[k])
  BY DEF Spelled, n
<1>3. 0 \in G
  <2>1. o[i] \in Nat /\ i + 0 = i
    BY <1>2 DEF n
  <2>2. QED BY <2>1
<1>4. ASSUME NEW k \in Nat, k \in G PROVE k + 1 \in G
  <2> SUFFICES ASSUME i + (k + 1) <= n + 1 PROVE o[i] <= o[i + (k + 1)]
    OBVIOUS
  <2> DEFINE a == i + k
  <2>1. a \in 1 .. n /\ a \in 1 .. n + 1 /\ i + (k + 1) = a + 1 /\ o[i] <= o[a]
    BY <1>1, <1>4 DEF n
  <2>2. o[a] \in Nat /\ o[i] \in Nat /\ o[a + 1] = o[a] + Len(units[a]) /\ Len(units[a]) \in Nat
    <3> HIDE DEF a
    <3> QED BY <1>1, <1>2, <2>1 DEF n
  <2> HIDE DEF a, G
  <2>3. o[i] <= o[a + 1]
    BY <2>1, <2>2
  <2>4. QED BY <2>1, <2>3, Zenon
<1>5. j - i \in G
  <2>1. j - i \in Nat
    BY <1>1 DEF n
  <2> HIDE DEF G
  <2>2. QED BY <1>3, <1>4, <2>1, UpFromZero
<1>6. i + (j - i) = j /\ j <= n + 1
  BY <1>1 DEF n
<1>7. QED BY <1>5, <1>6

\* A unit of a line is one flag, with its value if it takes one, or one bare word.
LEMMA UnitIsPlain ==
  ASSUME NEW units \in Seq(Seq(STRING)), Plain(units), NEW words, NEW o, Spelled(words, units, o),
         Len(words) \in Nat, NEW j \in 1 .. Len(units), NEW u, u = units[j], NEW i, i = o[j]
  PROVE  /\ u \in Seq(STRING) /\ i \in 1 .. Len(words) /\ words[i] = u[1] /\ u[1] \in STRING
         /\ u[1] # "--"
         /\ u[1] \notin Takes => Len(u) = 1 /\ o[j + 1] = i + 1
         /\ u[1] \in Takes => /\ Len(u) = 2 /\ o[j + 1] = i + 2 /\ i < Len(words)
                              /\ words[i + 1] = u[2] /\ u[2] \in STRING
<1> DEFINE n == Len(units)
<1>1. n \in Nat /\ j \in 1 .. n + 1 /\ j + 1 \in 1 .. n + 1 /\ n + 1 \in 1 .. n + 1
      /\ 1 \in 1 .. n + 1 /\ 1 <= j /\ j + 1 <= n + 1
  OBVIOUS
<1>2. u \in Seq(STRING)
  BY ElementOf
<1>3. u # << >> /\ u[1] # "--" /\ Len(u) = IF u[1] \in Takes THEN 2 ELSE 1
  <2>1. u \in Range(units)
    BY DEF Range
  <2>2. QED BY <2>1, Zenon DEF Plain
<1> HIDE DEF n
<1>4. /\ o \in [1 .. n + 1 -> Nat] /\ o[1] = 1 /\ o[n + 1] = Len(words) + 1
      /\ o[j + 1] = i + Len(u) /\ \A p \in 1 .. Len(u) : words[i + p - 1] = u[p]
  BY DEF Spelled, n
<1>5. i \in Nat
  BY <1>1, <1>4
<1>6. 1 <= i /\ o[j + 1] <= Len(words) + 1
  <2>1. o[1] <= o[j] /\ o[j + 1] <= o[n + 1]
    BY <1>1, PlacesGoUp DEF n
  <2>2. QED BY <1>4, <2>1
<1>7. i + 1 - 1 = i /\ i + 2 - 1 = i + 1
  BY <1>5
<1>8. u[1] \in STRING /\ words[i] = u[1]
  BY <1>2, <1>3, <1>4, <1>7
<1>9. CASE u[1] \in Takes
  <2>1. Len(u) = 2 /\ 2 \in 1 .. Len(u)
    BY <1>3, <1>9
  <2>2. words[i + 2 - 1] = u[2] /\ u[2] \in STRING
    BY <1>2, <1>4, <2>1
  <2>3. QED BY <1>2, <1>3, <1>4, <1>5, <1>6, <1>7, <1>8, <1>9, <2>1, <2>2
<1>10. CASE u[1] \notin Takes
  BY <1>2, <1>3, <1>4, <1>5, <1>6, <1>8, <1>10
<1>11. QED BY <1>9, <1>10


\* A flag Parse fails at, and what it lists one as.
Bad(u, name) == /\ u[1] \notin Switches \cap Known(name)
                /\ ~(/\ u[1] \in Takes \cap Known(name)
                     /\ u[1] = "-V" => u[2] \in DOMAIN Assignments)
FlagOf(u) == <<u[1], IF u[1] \in Takes THEN u[2] ELSE Blank>>
Heads(bs) == [i \in 1 .. Len(bs) |-> bs[i][1]]
FlagsOf(fs) == [i \in 1 .. Len(fs) |-> FlagOf(fs[i])]

\* A unit at i and what is behind it, by the rule.
UnitAt(words, name, again, u, i) ==
  /\ u \in Seq(STRING) /\ i \in 1 .. Len(words) /\ words[i] = u[1] /\ u[1] \in STRING
  /\ u[1] # "--" /\ (IsBare(u) => again)
  /\ u[1] \notin Takes => Len(u) = 1
  /\ u[1] \in Takes => Len(u) = 2 /\ i < Len(words) /\ words[i + 1] = u[2] /\ u[2] \in STRING

\* A unit read: behind what is read after it.
ReadAs(u, name, r, after) ==
  /\ IsBare(u) => /\ r.failed = after.failed /\ r.bare = <<u[1]>> \o after.bare
                  /\ r.flags = after.flags
  /\ ~IsBare(u) /\ Bad(u, name) => r.failed = TRUE
  /\ ~IsBare(u) /\ ~Bad(u, name) =>
       /\ r.failed = after.failed /\ r.bare = after.bare
       /\ r.flags = <<FlagOf(u)>> \o after.flags

\* What the rule makes of a unit.
LEMMA UnitIsRead ==
  ASSUME NEW words \in Seq(STRING), NEW name, NEW again \in BOOLEAN, NEW u, NEW i,
         UnitAt(words, name, again, u, i), NEW one \in Readings, NEW two \in Readings
  PROVE  LET r == Rule(words, name, again, i, one, two)
         IN  /\ u[1] \in Takes => ReadAs(u, name, r, two)
             /\ u[1] \notin Takes => ReadAs(u, name, r, one)
<1> DEFINE n == Len(words)
           w == u[1]
           r == Rule(words, name, again, i, one, two)
           after == IF w \in Takes THEN two ELSE one
<1> SUFFICES /\ IsBare(u) => /\ r.failed = after.failed /\ r.bare = <<u[1]>> \o after.bare
                             /\ r.flags = after.flags
             /\ ~IsBare(u) /\ Bad(u, name) => r.failed = TRUE
             /\ ~IsBare(u) /\ ~Bad(u, name) =>
                  /\ r.failed = after.failed /\ r.bare = after.bare
                  /\ r.flags = <<FlagOf(u)>> \o after.flags
  BY DEF ReadAs
<1>1. /\ n \in Nat /\ i \in Nat /\ ~(i > n) /\ i <= n /\ words[i] = w /\ w # "--" /\ w \in Words
      /\ Blank \in Words
  BY DEF UnitAt, Words
<1>2. w \in Takes => ~IsBare(u) /\ i < n /\ words[i + 1] = u[2] /\ u[2] \in Words
  BY DEF UnitAt, IsBare, Words
<1>3. w \notin Takes => (IsBare(u) <=> ~IsFlag(w)) /\ after = one
  BY DEF UnitAt, IsBare
<1>12. w \in Takes => after = two
  OBVIOUS
<1>4. Known(name) \subseteq Takes \union Switches /\ (w \in Takes \union Switches => IsFlag(w))
  BY DEF Known, IsFlag
<1>5. r = CASE i > n -> Done(<< >>)
            [] i = n /\ words[i] = "--" -> Done(<< >>)
            [] i < n /\ words[i] = "--" -> BareAt(words, again, i + 1, two)
            [] i <= n /\ ~IsFlag(words[i]) -> BareAt(words, again, i, one)
            [] i <= n /\ words[i] \in Switches \cap Known(name) ->
                 Flagged(words[i], Blank, one)
            [] i < n /\ words[i] \in Takes \cap Known(name)
                 /\ (words[i] = "-V" => words[i + 1] \in DOMAIN Assignments) ->
                    Flagged(words[i], words[i + 1], two)
            [] OTHER -> Failing
  BY Zenon DEF Rule
<1> HIDE DEF n, w, r, after
<1>6. Failing.failed = TRUE
  <2>1. Done(<< >>) \in [bare : {<< >>}, flags : {<< >>}, failed : BOOLEAN]
    BY DEF Done
  <2>2. \A d : [Done(<< >>) EXCEPT !.failed = d].failed = d
    BY <2>1
  <2>3. QED BY <2>2, Zenon DEF Failing
<1>7. CASE ~IsFlag(w)
  <2>1. w \notin Takes /\ IsBare(u) /\ again /\ after = one
    BY <1>3, <1>4, <1>7 DEF UnitAt
  <2>2. r = BareAt(words, again, i, one)
    BY <1>1, <1>4, <1>5, <1>7
  <2>3. r = Bared(w, one)
    BY <1>1, <2>1, <2>2 DEF BareAt
  <2>4. Bared(w, one) = [bare |-> <<w>> \o one.bare, flags |-> one.flags, failed |-> one.failed]
    BY <1>1, BaredReading
  <2> DEFINE t == <<w>> \o one.bare
  <2> HIDE DEF t
  <2>5. r.failed = one.failed /\ r.bare = t /\ r.flags = one.flags
    BY <2>3, <2>4 DEF t
  <2>6. QED BY <2>1, <2>5, Zenon DEF t, w
<1>8. CASE IsFlag(w) /\ w \in Switches \cap Known(name)
  <2>1. w \notin Takes /\ ~IsBare(u) /\ after = one /\ ~Bad(u, name) /\ FlagOf(u) = <<w, Blank>>
    BY <1>3, <1>8, FlagsAssumption DEF Bad, FlagOf, w
  <2>2. r = Flagged(w, Blank, one)
    BY <1>1, <1>5, <1>8, <2>1
  <2>3. Flagged(w, Blank, one) = [bare |-> one.bare, flags |-> <<<<w, Blank>>>> \o one.flags,
                                  failed |-> one.failed]
    BY <1>1, FlaggedReading
  <2>4. QED BY <2>1, <2>2, <2>3
<1>9. CASE IsFlag(w) /\ w \notin Switches \cap Known(name) /\ Bad(u, name)
  <2>1. ~(w \in Takes \cap Known(name) /\ (w = "-V" => words[i + 1] \in DOMAIN Assignments))
    BY <1>2, <1>9 DEF Bad, w
  <2>2. r = Failing
    BY <1>1, <1>5, <1>9, <2>1
  <2>3. ~IsBare(u)
    BY <1>9 DEF IsBare, w
  <2>4. QED BY <1>6, <1>9, <2>2, <2>3
<1>10. CASE IsFlag(w) /\ w \notin Switches \cap Known(name) /\ ~Bad(u, name)
  <2>1. w \in Takes \cap Known(name) /\ (w = "-V" => words[i + 1] \in DOMAIN Assignments)
    BY <1>2, <1>10 DEF Bad, w
  <2>2. /\ ~IsBare(u) /\ after = two /\ FlagOf(u) = <<w, words[i + 1]>> /\ i < n
        /\ words[i + 1] \in Words
    BY <1>2, <1>12, <2>1 DEF FlagOf, w
  <2>3. r = Flagged(w, words[i + 1], two)
    BY <1>1, <1>5, <1>10, <2>1, <2>2
  <2>4. Flagged(w, words[i + 1], two) =
          [bare |-> two.bare, flags |-> <<<<w, words[i + 1]>>>> \o two.flags,
           failed |-> two.failed]
    BY <1>1, <2>2, FlaggedReading
  <2>5. QED BY <1>10, <2>2, <2>3, <2>4
<1>11. QED BY <1>7, <1>8, <1>9, <1>10

\* A list from one of its elements on.
LEMMA ListFrom ==
  ASSUME NEW S, NEW s \in Seq(S)
  PROVE  /\ SubSeq(s, Len(s) + 1, Len(s)) = << >> /\ SubSeq(s, 1, Len(s)) = s
         /\ \A k \in 1 .. Len(s) : <<s[k]>> \o SubSeq(s, k + 1, Len(s)) = SubSeq(s, k, Len(s))
OBVIOUS


\* A function on the first numbers is a list of its values.
LEMMA ListOfItsOwn ==
  ASSUME NEW n \in Nat, NEW g, g = [k \in 1 .. n |-> g[k]]
  PROVE  g \in Seq({g[k] : k \in 1 .. n}) /\ Len(g) = n
<1> DEFINE S == {g[k] : k \in 1 .. n}
<1>1. \A k \in 1 .. n : g[k] \in S
  OBVIOUS
<1> HIDE DEF S
<1>2. g \in Seq(S) /\ Len(g) = n
  BY <1>1
<1>3. QED BY <1>2 DEF S

\* What Parse makes of units whose bare ones and flags are known.
LEMMA ParseOfWeave ==
  ASSUME NEW units \in Seq(Seq(STRING)), Plain(units), NEW bs \in Seq(Seq(STRING)),
         NEW fs \in Seq(Seq(STRING)), NEW c, Woven(units, bs, fs, c), NEW words \in Seq(STRING),
         NEW o, Spelled(words, units, o), NEW name, NEW again \in BOOLEAN,
         again \/ Len(bs) = 0, NEW p, p = Parse(words, name, again)
  PROVE  /\ p \in Readings
         /\ p.failed <=> \E i \in 1 .. Len(fs) : Bad(fs[i], name)
         /\ ~p.failed => p.bare = Heads(bs) /\ p.flags = FlagsOf(fs)
<1> DEFINE n == Len(units)
           m == Len(words)
           hb == Heads(bs)
           hf == FlagsOf(fs)
<1>1. PICK f : ParsedBy(words, name, again, f)
  BY ParseRules
<1>a. /\ f \in [1 .. m + 2 -> Readings] /\ Parse(words, name, again) = f[1]
      /\ \A i \in 1 .. m + 2 : f[i] = Rule(words, name, again, i, f[i + 1], f[i + 2])
  BY <1>1 DEF ParsedBy
<1>2. n \in Nat /\ m \in Nat /\ Len(bs) \in Nat /\ Len(fs) \in Nat
  OBVIOUS
<1>3. ASSUME NEW j \in 1 .. n
      PROVE  /\ j \in 1 .. n + 1 /\ o[j] \in 1 .. m /\ UnitAt(words, name, again, units[j], o[j])
             /\ o[j + 1] = o[j] + (IF units[j][1] \in Takes THEN 2 ELSE 1)
  <2> DEFINE u == units[j]
             i == o[j]
  <2>1. j \in 1 .. n + 1
    BY <1>2
  <2> HIDE DEF u, i
  <2>2. IsBare(u) => again
    <3>1. IsBare(u) => c[j] + 1 \in 1 .. Len(bs)
      BY DEF Woven, u
    <3>2. Len(bs) = 0 => 1 .. Len(bs) = {}
      OBVIOUS
    <3>3. QED BY <3>1, <3>2
  <2>3. /\ u \in Seq(STRING) /\ i \in 1 .. Len(words) /\ words[i] = u[1] /\ u[1] \in STRING
        /\ u[1] # "--"
        /\ u[1] \notin Takes => Len(u) = 1 /\ o[j + 1] = i + 1
        /\ u[1] \in Takes => /\ Len(u) = 2 /\ o[j + 1] = i + 2 /\ i < Len(words)
                             /\ words[i + 1] = u[2] /\ u[2] \in STRING
    BY <1>2, UnitIsPlain DEF u, i
  <2>4. UnitAt(words, name, again, u, i)
    BY <2>2, <2>3 DEF UnitAt
  <2>5. o[j + 1] = i + (IF u[1] \in Takes THEN 2 ELSE 1)
    BY <2>3
  <2>6. QED BY <2>1, <2>3, <2>4, <2>5 DEF u, i
<1>4. /\ \A j \in 1 .. n :
           \/ /\ IsBare(units[j]) /\ c[j + 1] = c[j] + 1
              /\ c[j] + 1 \in 1 .. Len(bs) /\ bs[c[j] + 1] = units[j]
           \/ /\ ~IsBare(units[j]) /\ c[j + 1] = c[j]
              /\ j - c[j] \in 1 .. Len(fs) /\ fs[j - c[j]] = units[j]
      /\ c \in [1 .. n + 1 -> Nat] /\ c[1] = 0 /\ c[n + 1] = Len(bs) /\ n = Len(bs) + Len(fs)
      /\ o[1] = 1 /\ o[n + 1] = m + 1 /\ o \in [1 .. n + 1 -> Nat]
  BY DEF Woven, Spelled
<1>5. /\ hb \in Seq({hb[k] : k \in 1 .. Len(bs)})
      /\ Len(hb) = Len(bs) /\ \A k \in 1 .. Len(bs) : hb[k] = bs[k][1]
  <2>1. hb = [k \in 1 .. Len(bs) |-> hb[k]] /\ \A k \in 1 .. Len(bs) : hb[k] = bs[k][1]
    BY DEF Heads
  <2> HIDE DEF hb
  <2>2. QED BY <1>2, <2>1, ListOfItsOwn
<1>6. /\ hf \in Seq({hf[k] : k \in 1 .. Len(fs)})
      /\ Len(hf) = Len(fs) /\ \A k \in 1 .. Len(fs) : hf[k] = FlagOf(fs[k])
  <2>1. hf = [k \in 1 .. Len(fs) |-> hf[k]] /\ \A k \in 1 .. Len(fs) : hf[k] = FlagOf(fs[k])
    BY DEF FlagsOf
  <2> HIDE DEF hf
  <2>2. QED BY <1>2, <2>1, ListOfItsOwn
<1>7. /\ SubSeq(hb, Len(bs) + 1, Len(bs)) = << >> /\ SubSeq(hb, 1, Len(bs)) = hb
      /\ \A k \in 1 .. Len(bs) : <<bs[k][1]>> \o SubSeq(hb, k + 1, Len(bs)) = SubSeq(hb, k, Len(bs))
  <2> HIDE DEF hb
  <2>1. /\ SubSeq(hb, Len(hb) + 1, Len(hb)) = << >> /\ SubSeq(hb, 1, Len(hb)) = hb
        /\ \A k \in 1 .. Len(hb) : <<hb[k]>> \o SubSeq(hb, k + 1, Len(hb)) = SubSeq(hb, k, Len(hb))
    BY <1>5, ListFrom
  <2>2. QED BY <1>5, <2>1, Zenon
<1>8. /\ SubSeq(hf, Len(fs) + 1, Len(fs)) = << >> /\ SubSeq(hf, 1, Len(fs)) = hf
      /\ \A k \in 1 .. Len(fs) : <<FlagOf(fs[k])>> \o SubSeq(hf, k + 1, Len(fs)) = SubSeq(hf, k, Len(fs))
  <2> HIDE DEF hf
  <2>1. /\ SubSeq(hf, Len(hf) + 1, Len(hf)) = << >> /\ SubSeq(hf, 1, Len(hf)) = hf
        /\ \A k \in 1 .. Len(hf) : <<hf[k]>> \o SubSeq(hf, k + 1, Len(hf)) = SubSeq(hf, k, Len(hf))
    BY <1>6, ListFrom
  <2>2. QED BY <1>6, <2>1, Zenon
<1> HIDE DEF n, m, hb, hf
<1> DEFINE Fails(q) == \E i \in 1 .. Len(fs) : q <= i /\ Bad(fs[i], name)
           Read(j) == /\ f[o[j]].failed <=> Fails(j - c[j])
                      /\ ~f[o[j]].failed => /\ f[o[j]].bare = SubSeq(hb, c[j] + 1, Len(bs))
                                            /\ f[o[j]].flags = SubSeq(hf, j - c[j], Len(fs))
           G == {k \in Nat : k <= n => Read(n + 1 - k)}
<1>9. 0 \in G
  <2>1. f[m + 1] = Done(<< >>)
    <3>1. m + 1 \in 1 .. m + 2 /\ m + 1 > Len(words)
      BY <1>2 DEF m
    <3>2. Rule(words, name, again, m + 1, f[m + 1 + 1], f[m + 1 + 2]) = Done(<< >>)
      <4>1. ~(m + 1 <= Len(words)) /\ ~(m + 1 = Len(words)) /\ ~(m + 1 < Len(words))
        BY <1>2 DEF m
      <4> HIDE DEF G
      <4>2. QED BY <3>1, <4>1 DEF Rule
    <3>3. QED BY <1>a, <3>1, <3>2
  <2>2. /\ f[m + 1].failed = FALSE /\ f[m + 1].bare = << >> /\ f[m + 1].flags = << >>
    BY <2>1 DEF Done
  <2>3. n + 1 - c[n + 1] = Len(fs) + 1
    BY <1>2, <1>4
  <2>4. ~Fails(Len(fs) + 1)
    BY <1>2
  <2> HIDE DEF Fails
  <2>5. Read(n + 1)
    BY <1>4, <1>7, <1>8, <2>2, <2>3, <2>4
  <2> HIDE DEF Read
  <2>6. n + 1 - 0 = n + 1
    BY <1>2
  <2>7. QED BY <2>5, <2>6
<1>10. ASSUME NEW k \in Nat, k \in G PROVE k + 1 \in G
  <2> SUFFICES ASSUME k + 1 <= n PROVE Read(n + 1 - (k + 1))
    OBVIOUS
  <2> DEFINE j == n + 1 - (k + 1)
             u == units[j]
             i == o[j]
             r == f[i]
             after == f[o[j + 1]]
  <2>1. j \in 1 .. n /\ j + 1 = n + 1 - k /\ k <= n
    BY <1>2
  <2>2. Read(j + 1)
    <3> HIDE DEF Read, j
    <3> QED BY <1>10, <2>1
  <2> HIDE DEF G, j, u, i, r
  <2>3. UnitAt(words, name, again, u, i) /\ i \in 1 .. m /\ j \in 1 .. n + 1
        /\ o[j + 1] = i + (IF u[1] \in Takes THEN 2 ELSE 1)
    BY <1>3, <2>1 DEF u, i
  <2>4. after = IF u[1] \in Takes THEN f[i + 2] ELSE f[i + 1]
    BY <2>3
  <2>5. /\ i \in 1 .. m + 2 /\ i + 1 \in 1 .. m + 2 /\ i + 2 \in 1 .. m + 2
    BY <1>2, <2>3
  <2>6. /\ r = Rule(words, name, again, i, f[i + 1], f[i + 2]) /\ f[i + 1] \in Readings
        /\ f[i + 2] \in Readings
    BY <1>a, <2>5 DEF r
  <2> HIDE DEF after
  <2>7. ReadAs(u, name, r, after)
    BY <2>3, <2>4, <2>6, UnitIsRead
  <2> DEFINE d == c[j]
             e == j - c[j]
  <2>8. /\ after.failed <=> Fails((j + 1) - c[j + 1])
        /\ ~after.failed => /\ after.bare = SubSeq(hb, c[j + 1] + 1, Len(bs))
                            /\ after.flags = SubSeq(hf, (j + 1) - c[j + 1], Len(fs))
    <3> HIDE DEF Fails
    <3> QED BY <2>2, Zenon DEF after
  <2>9. d \in Nat /\ j \in Nat
    <3>1. c \in [1 .. n + 1 -> Nat]
      BY <1>4
    <3>2. QED BY <1>2, <2>1, <2>3, <3>1
  <2>13. \/ /\ IsBare(u) /\ c[j + 1] = d + 1 /\ d + 1 \in 1 .. Len(bs) /\ bs[d + 1] = u
         \/ ~IsBare(u) /\ c[j + 1] = d /\ e \in 1 .. Len(fs) /\ fs[e] = u
    <3> HIDE DEF Fails, Read
    <3> QED BY <1>4, <2>1, Zenon DEF u
  <2> SUFFICES /\ r.failed <=> Fails(e)
               /\ ~r.failed => /\ r.bare = SubSeq(hb, d + 1, Len(bs))
                               /\ r.flags = SubSeq(hf, e, Len(fs))
    BY Zenon DEF j, i, r
  <2>10. CASE IsBare(u)
    <3>1. c[j + 1] = d + 1 /\ d + 1 \in 1 .. Len(bs) /\ bs[d + 1] = u
          /\ (j + 1) - (d + 1) = e
      <4>1. (j + 1) - (d + 1) = e
        <5>1. \A x, y \in Nat : (x + 1) - (y + 1) = x - y
          OBVIOUS
        <5>2. QED BY <2>9, <5>1, Zenon
      <4> HIDE DEF d, e
      <4>2. QED BY <2>10, <2>13, <4>1, Zenon
    <3> HIDE DEF d, e, Fails
    <3>2. <<u[1]>> \o SubSeq(hb, d + 1 + 1, Len(bs)) = SubSeq(hb, d + 1, Len(bs))
      BY <1>7, <3>1
    <3>3. QED BY <2>7, <2>8, <2>10, <3>1, <3>2 DEF ReadAs
  <2>11. CASE ~IsBare(u)
    <3>1. c[j + 1] = d /\ e \in 1 .. Len(fs) /\ fs[e] = u /\ (j + 1) - d = e + 1
      BY <2>9, <2>11, <2>13
    <3>2. Fails(e) <=> Bad(u, name) \/ Fails(e + 1)
      <4> HIDE DEF d, e
      <4>1. \A i_1 \in 1 .. Len(fs) : e <= i_1 <=> i_1 = e \/ e + 1 <= i_1
        BY <1>2, <3>1
      <4>2. QED BY <3>1, <4>1
    <3> HIDE DEF d, e, Fails
    <3>3. <<FlagOf(u)>> \o SubSeq(hf, e + 1, Len(fs)) = SubSeq(hf, e, Len(fs))
      BY <1>8, <3>1
    <3>4. QED BY <2>7, <2>8, <2>11, <3>1, <3>2, <3>3 DEF ReadAs
  <2>12. QED BY <2>10, <2>11
<1>11. Read(1)
  <2>1. n \in G
    <3> HIDE DEF G
    <3> QED BY <1>2, <1>9, <1>10, UpFromZero
  <2> HIDE DEF Read
  <2>2. n + 1 - n = 1 /\ n <= n
    BY <1>2
  <2>3. Read(n + 1 - n)
    BY <1>2, <2>1, <2>2
  <2>4. QED BY <2>2, <2>3
<1>12. Fails(1) <=> \E i \in 1 .. Len(fs) : Bad(fs[i], name)
  BY <1>2
<1>13. f[1] \in Readings
  BY <1>2, <1>a
<1>14. 1 - c[1] = 1 /\ c[1] + 1 = 1
  BY <1>4
<1> HIDE DEF Fails
<1>15. p = f[1]
  BY <1>a
<1>16. /\ p.failed <=> Fails(1)
       /\ ~p.failed => p.bare = SubSeq(hb, 1, Len(bs)) /\ p.flags = SubSeq(hf, 1, Len(fs))
  <2>1. o[1] = 1
    BY <1>4
  <2>2. QED BY <1>11, <1>14, <1>15, <2>1, Zenon
<1>17. QED BY <1>7, <1>8, <1>12, <1>13, <1>15, <1>16 DEF hb, hf


\* The first bare unit, if there is one: before it nothing has been counted.
FirstAt(units, bs, c, J) == /\ J \in 1 .. Len(units) /\ IsBare(units[J]) /\ c[J + 1] = 1
                            /\ \A i \in 1 .. J : c[i] = 0
                            /\ Len(bs) # 0 /\ bs[1] = units[J]

\* SplitCommand splits there.
LEMMA SplitOfWeave ==
  ASSUME NEW units \in Seq(Seq(STRING)), Plain(units), NEW bs \in Seq(Seq(STRING)), NEW fs, NEW c,
         Woven(units, bs, fs, c), NEW words \in Seq(STRING), NEW o, Spelled(words, units, o)
  PROVE  \/ \E J \in 1 .. Len(units) :
              FirstAt(units, bs, c, J) /\ SplitCommand(words) = SplitAt(words, o[J])
         \/ Len(bs) = 0 /\ SplitCommand(words) = SplitAt(words, 0)
<1> DEFINE n == Len(units)
           m == Len(words)
<1>1. PICK f \in [1 .. m + 2 -> 0 .. m] :
        /\ SplitCommand(words) = SplitAt(words, f[1])
        /\ \A i \in 1 .. m + 2 : f[i] = FirstBare(words, i, f[i + 1], f[i + 2])
  BY SplitRules
<1>2. n \in Nat /\ m \in Nat /\ Len(bs) \in Nat
  OBVIOUS
<1>3. ASSUME NEW j \in 1 .. n
      PROVE  /\ j \in 1 .. n + 1 /\ o[j] \in 1 .. m
             /\ IF IsBare(units[j]) THEN f[o[j]] = o[j] ELSE f[o[j]] = f[o[j + 1]]
  <2> DEFINE u == units[j]
             i == o[j]
  <2>1. j \in 1 .. n + 1
    BY <1>2
  <2> HIDE DEF u, i
  <2>2. /\ u \in Seq(STRING) /\ i \in 1 .. Len(words) /\ words[i] = u[1] /\ u[1] \in STRING
        /\ u[1] # "--"
        /\ u[1] \notin Takes => Len(u) = 1 /\ o[j + 1] = i + 1
        /\ u[1] \in Takes => /\ Len(u) = 2 /\ o[j + 1] = i + 2 /\ i < Len(words)
                             /\ words[i + 1] = u[2] /\ u[2] \in STRING
    BY <1>2, UnitIsPlain DEF u, i
  <2>3. i \in 1 .. m + 2 /\ ~(i > Len(words))
    BY <1>2, <2>2
  <2>4. f[i] = FirstBare(words, i, f[i + 1], f[i + 2])
    BY <1>1, <2>3
  <2>5. f[i] = IF u[1] \in Takes THEN f[i + 2] ELSE IF IsFlag(u[1]) THEN f[i + 1] ELSE i
    BY <2>2, <2>3, <2>4 DEF FirstBare
  <2>6. u[1] \in Takes => IsFlag(u[1])
    BY DEF IsFlag
  <2>7. IF IsBare(u) THEN f[i] = i ELSE f[i] = f[o[j + 1]]
    BY <2>2, <2>5, <2>6 DEF IsBare
  <2>8. QED BY <2>1, <2>2, <2>7 DEF u, i
<1>4. /\ \A j \in 1 .. n :
           \/ /\ IsBare(units[j]) /\ c[j + 1] = c[j] + 1
              /\ c[j] + 1 \in 1 .. Len(bs) /\ bs[c[j] + 1] = units[j]
           \/ ~IsBare(units[j]) /\ c[j + 1] = c[j]
      /\ c \in [1 .. n + 1 -> Nat] /\ c[1] = 0 /\ c[n + 1] = Len(bs)
      /\ o[1] = 1 /\ o[n + 1] = m + 1
  BY DEF Woven, Spelled
<1> HIDE DEF n, m
<1> DEFINE Find(j) == \/ \E J \in j .. n : /\ IsBare(units[J]) /\ f[o[j]] = o[J]
                                           /\ \A i \in j .. J : c[i] = c[j]
                      \/ c[j] = Len(bs) /\ f[o[j]] = 0
           G == {k \in Nat : k <= n => Find(n + 1 - k)}
<1>5. 0 \in G
  <2>1. m + 1 \in 1 .. m + 2 /\ m + 1 > Len(words)
    BY <1>2 DEF m
  <2>2. f[m + 1] = 0
    BY <1>1, <2>1 DEF FirstBare
  <2>3. Find(n + 1)
    BY <1>4, <2>2
  <2> HIDE DEF Find
  <2>4. n + 1 - 0 = n + 1
    BY <1>2
  <2>5. QED BY <2>3, <2>4
<1>6. ASSUME NEW k \in Nat, k \in G PROVE k + 1 \in G
  <2> SUFFICES ASSUME k + 1 <= n PROVE Find(n + 1 - (k + 1))
    OBVIOUS
  <2> DEFINE j == n + 1 - (k + 1)
  <2>1. j \in 1 .. n /\ j + 1 = n + 1 - k /\ k <= n /\ j \in Nat
    BY <1>2
  <2>2. Find(j + 1)
    <3> HIDE DEF Find, j
    <3> QED BY <1>6, <2>1
  <2> HIDE DEF G, j
  <2> SUFFICES Find(j)
    BY DEF j
  <2>3. CASE IsBare(units[j])
    <3>1. f[o[j]] = o[j] /\ j \in j .. n /\ \A i \in j .. j : c[i] = c[j]
      BY <1>2, <1>3, <2>1, <2>3
    <3>2. QED BY <2>3, <3>1
  <2>4. CASE ~IsBare(units[j])
    <3>1. f[o[j]] = f[o[j + 1]] /\ c[j + 1] = c[j]
      BY <1>3, <1>4, <2>1, <2>4
    <3>2. CASE \E J \in (j + 1) .. n : /\ IsBare(units[J]) /\ f[o[j + 1]] = o[J]
                                       /\ \A i \in (j + 1) .. J : c[i] = c[j + 1]
      <4>1. PICK J \in (j + 1) .. n : /\ IsBare(units[J]) /\ f[o[j + 1]] = o[J]
                                      /\ \A i \in (j + 1) .. J : c[i] = c[j + 1]
        BY <3>2
      <4>2. J \in j .. n /\ \A i \in j .. J : i = j \/ i \in (j + 1) .. J
        BY <1>2, <2>1
      <4>3. \A i \in j .. J : c[i] = c[j]
        BY <3>1, <4>1, <4>2
      <4>4. QED BY <3>1, <4>1, <4>2, <4>3
    <3>3. CASE c[j + 1] = Len(bs) /\ f[o[j + 1]] = 0
      BY <3>1, <3>3
    <3>4. QED BY <2>2, <3>2, <3>3
  <2>5. QED BY <2>3, <2>4
<1>7. Find(1)
  <2>1. n \in G
    <3> HIDE DEF G
    <3> QED BY <1>2, <1>5, <1>6, UpFromZero
  <2> HIDE DEF Find
  <2>2. n + 1 - n = 1 /\ n <= n
    BY <1>2
  <2>3. Find(n + 1 - n)
    BY <1>2, <2>1, <2>2
  <2>4. QED BY <2>2, <2>3
<1>8. CASE \E J \in 1 .. n : /\ IsBare(units[J]) /\ f[1] = o[J] /\ \A i \in 1 .. J : c[i] = 0
  <2>1. PICK J \in 1 .. n : /\ IsBare(units[J]) /\ f[1] = o[J] /\ \A i \in 1 .. J : c[i] = 0
    BY <1>8
  <2>2. J \in 1 .. J
    BY <1>2
  <2>3. c[J] = 0 /\ c[J + 1] = c[J] + 1 /\ c[J] + 1 \in 1 .. Len(bs) /\ bs[c[J] + 1] = units[J]
    BY <1>4, <2>1, <2>2
  <2>4. c[J + 1] = 1 /\ 1 \in 1 .. Len(bs) /\ bs[1] = units[J] /\ Len(bs) # 0
    BY <1>2, <2>3
  <2>5. FirstAt(units, bs, c, J)
    BY <2>1, <2>4 DEF FirstAt, n
  <2>6. QED BY <1>1, <2>1, <2>5 DEF n
<1>9. CASE Len(bs) = 0 /\ f[1] = 0
  BY <1>1, <1>9
<1>10. QED
  <2>1. \/ \E J \in 1 .. n : /\ IsBare(units[J]) /\ f[1] = o[J] /\ \A i \in 1 .. J : c[i] = 0
        \/ Len(bs) = 0 /\ f[1] = 0
    BY <1>4, <1>7
  <2>2. QED BY <1>8, <1>9, <2>1

\* A list without one of its elements.
Without(S, s, J, r) ==
  /\ r \in Seq(S) /\ Len(r) = Len(s) - 1
  /\ \A k \in 1 .. Len(r) : r[k] = IF k < J THEN s[k] ELSE s[k + 1]

\* Which is what RemoveAt makes of it.
LEMMA RemovedFrom ==
  ASSUME NEW S, NEW s \in Seq(S), NEW J \in 1 .. Len(s)
  PROVE  Without(S, s, J, RemoveAt(s, J))
<1> DEFINE a == SubSeq(s, 1, J - 1)
           b == SubSeq(s, J + 1, Len(s))
           r == RemoveAt(s, J)
<1>1. r = a \o b
  BY DEF RemoveAt
<1>2. /\ a \in Seq(S) /\ Len(a) = J - 1 /\ \A k \in 1 .. Len(a) : a[k] = s[k]
      /\ b \in Seq(S) /\ Len(b) = Len(s) - J /\ \A k \in 1 .. Len(b) : b[k] = s[J + k]
  OBVIOUS
<1> HIDE DEF a, b, r
<1>3. r \in Seq(S) /\ Len(r) = Len(s) - 1
  <2>1. r \in Seq(S) /\ Len(r) = Len(a) + Len(b)
    <3>1. a \in Seq(S) /\ b \in Seq(S)
      BY <1>2
    <3>2. QED BY <1>1, <3>1
  <2>2. (J - 1) + (Len(s) - J) = Len(s) - 1
    OBVIOUS
  <2>3. QED BY <1>2, <2>1, <2>2
<1>4. ASSUME NEW k \in 1 .. Len(r) PROVE r[k] = IF k < J THEN s[k] ELSE s[k + 1]
  <2>1. CASE k < J
    BY <1>1, <1>2, <1>3, <2>1
  <2>2. CASE ~(k < J)
    <3>1. /\ k - Len(a) \in 1 .. Len(b) /\ Len(a) + (k - Len(a)) = k
          /\ J + (k - Len(a)) = k + 1
      BY <1>2, <1>3, <2>2
    <3>4. a \in Seq(S) /\ b \in Seq(S)
      BY <1>2
    <3>5. \A p \in 1 .. Len(b) : r[Len(a) + p] = b[p]
      BY <1>1, <3>4, Appended
    <3>2. r[Len(a) + (k - Len(a))] = b[k - Len(a)]
      BY <3>1, <3>5, Zenon
    <3>3. QED BY <1>2, <2>2, <3>1, <3>2
  <2>3. QED BY <2>1, <2>2
<1>5. QED BY <1>3, <1>4 DEF Without, r

\* The counts go up.
LEMMA CountsGoUp ==
  ASSUME NEW units \in Seq(Seq(STRING)), NEW bs, NEW fs, NEW c, Woven(units, bs, fs, c),
         NEW i \in 1 .. Len(units) + 1, NEW j \in 1 .. Len(units) + 1, i <= j
  PROVE  c[i] <= c[j]
<1> DEFINE n == Len(units)
           G == {k \in Nat : i + k <= n + 1 => c[i] <= c[i + k]}
<1>1. n \in Nat
  OBVIOUS
<1>2. /\ c \in [1 .. n + 1 -> Nat]
      /\ \A k \in 1 .. n : c[k + 1] = c[k] + 1 \/ c[k + 1] = c[k]
  BY DEF Woven
<1> HIDE DEF n
<1>3. 0 \in G
  <2>1. c[i] \in Nat /\ i + 0 = i
    BY <1>2 DEF n
  <2>2. QED BY <2>1
<1>4. ASSUME NEW k \in Nat, k \in G PROVE k + 1 \in G
  <2> SUFFICES ASSUME i + (k + 1) <= n + 1 PROVE c[i] <= c[i + (k + 1)]
    OBVIOUS
  <2> DEFINE a == i + k
  <2>1. a \in 1 .. n /\ a \in 1 .. n + 1 /\ i + (k + 1) = a + 1 /\ c[i] <= c[a]
    BY <1>1, <1>4 DEF n
  <2>2. c[a] \in Nat /\ c[i] \in Nat /\ (c[a + 1] = c[a] + 1 \/ c[a + 1] = c[a])
    <3> HIDE DEF a
    <3> QED BY <1>1, <1>2, <2>1 DEF n
  <2> HIDE DEF a, G
  <2>3. c[i] <= c[a + 1]
    BY <2>1, <2>2
  <2>4. QED BY <2>1, <2>3, Zenon
<1>5. j - i \in G
  <2>1. j - i \in Nat
    BY <1>1 DEF n
  <2> HIDE DEF G
  <2>2. QED BY <1>3, <1>4, <2>1, UpFromZero
<1>6. i + (j - i) = j /\ j <= n + 1
  BY <1>1 DEF n
<1>7. QED BY <1>5, <1>6

\* Without its first bare unit, a line is woven of the others.
LEMMA LessIsWoven ==
  ASSUME NEW units \in Seq(Seq(STRING)), NEW bs \in Seq(Seq(STRING)),
         NEW fs \in Seq(Seq(STRING)), NEW c, Woven(units, bs, fs, c), NEW J, FirstAt(units, bs, c, J)
  PROVE  \E d : Woven(RemoveAt(units, J), Tail(bs), fs, d)
<1> DEFINE n == Len(units)
           rest == RemoveAt(units, J)
           tail == Tail(bs)
           d == [j \in 1 .. n |-> IF j <= J THEN 0 ELSE c[j + 1] - 1]
<1>1. /\ J \in 1 .. n /\ c[J + 1] = 1 /\ \A i \in 1 .. J : c[i] = 0
      /\ n \in Nat /\ Len(bs) \in Nat /\ Len(bs) # 0
  BY DEF FirstAt
<1>2. rest \in Seq(Seq(STRING)) /\ Len(rest) = n - 1
      /\ \A k \in 1 .. n - 1 : rest[k] = IF k < J THEN units[k] ELSE units[k + 1]
  <2>1. Without(Seq(STRING), units, J, rest)
    BY <1>1, RemovedFrom
  <2> HIDE DEF rest
  <2>2. QED BY <2>1 DEF Without
<1>3. /\ Len(tail) = Len(bs) - 1 /\ \A k \in 1 .. Len(bs) - 1 : tail[k] = bs[k + 1]
  BY <1>1
<1>4. /\ c \in [1 .. n + 1 -> Nat] /\ c[n + 1] = Len(bs) /\ n = Len(bs) + Len(fs)
      /\ \A j \in 1 .. n :
           \/ /\ IsBare(units[j]) /\ c[j + 1] = c[j] + 1
              /\ c[j] + 1 \in 1 .. Len(bs) /\ bs[c[j] + 1] = units[j]
           \/ /\ ~IsBare(units[j]) /\ c[j + 1] = c[j]
              /\ j - c[j] \in 1 .. Len(fs) /\ fs[j - c[j]] = units[j]
  BY DEF Woven
<1>5. \A j \in 1 .. n + 1 : j > J => c[j] \in Nat /\ 1 <= c[j]
  <2>1. ASSUME NEW j \in 1 .. n + 1, j > J PROVE c[j] \in Nat /\ 1 <= c[j]
    <3>1. J + 1 \in 1 .. n + 1 /\ J + 1 <= j
      BY <1>1, <2>1
    <3>2. c[J + 1] <= c[j]
      BY <3>1, CountsGoUp
    <3>3. QED BY <1>1, <1>4, <3>2
  <2>2. QED BY <2>1
<1> HIDE DEF n, rest, tail
<1>6. ASSUME NEW j \in 1 .. n
      PROVE  /\ d[j] \in Nat /\ (j <= J => d[j] = 0)
             /\ j >= J => d[j] = c[j + 1] - 1 /\ c[j + 1] \in Nat /\ 1 <= c[j + 1]
  <2>1. j + 1 \in 1 .. n + 1 /\ J \in Nat /\ j \in Nat
    BY <1>1
  <2>2. d[j] = IF j <= J THEN 0 ELSE c[j + 1] - 1
    OBVIOUS
  <2> HIDE DEF d
  <2>3. j >= J => c[j + 1] \in Nat /\ 1 <= c[j + 1]
    BY <1>5, <2>1
  <2>4. CASE j <= J /\ ~(j >= J)
    BY <2>2, <2>4
  <2>5. CASE j = J
    BY <1>1, <2>1, <2>2, <2>3, <2>5
  <2>6. CASE ~(j <= J) /\ j >= J
    BY <2>2, <2>3, <2>6
  <2>7. QED BY <2>1, <2>4, <2>5, <2>6
<1>7. d \in [1 .. n -> Nat]
  <2>1. d = [j \in 1 .. n |-> d[j]]
    OBVIOUS
  <2> HIDE DEF d
  <2>2. QED BY <1>6, <2>1
<1> HIDE DEF d
<1>8. d[1] = 0 /\ d[n] = Len(bs) - 1
  <2>1. 1 \in 1 .. n /\ 1 <= J /\ n \in 1 .. n /\ n >= J
    BY <1>1
  <2>2. QED BY <1>4, <1>6, <2>1
<1>9. ASSUME NEW j \in 1 .. n - 1
      PROVE  \/ /\ IsBare(rest[j]) /\ d[j + 1] = d[j] + 1
                /\ d[j] + 1 \in 1 .. Len(tail) /\ tail[d[j] + 1] = rest[j]
             \/ /\ ~IsBare(rest[j]) /\ d[j + 1] = d[j]
                /\ j - d[j] \in 1 .. Len(fs) /\ fs[j - d[j]] = rest[j]
  <2>1. j \in 1 .. n /\ j + 1 \in 1 .. n /\ j + 1 \in 1 .. n + 1 /\ j \in Nat /\ J \in Nat
    BY <1>1
  <2>2. CASE j < J
    <3>1. j \in 1 .. J /\ j + 1 \in 1 .. J /\ j <= J /\ j + 1 <= J
      BY <1>1, <2>1, <2>2
    <3>2. c[j] = 0 /\ c[j + 1] = 0 /\ d[j] = 0 /\ d[j + 1] = 0 /\ rest[j] = units[j]
      BY <1>1, <1>2, <1>6, <2>1, <2>2, <3>1
    <3>3. \/ IsBare(units[j]) /\ c[j + 1] = c[j] + 1
          \/ ~IsBare(units[j]) /\ j - c[j] \in 1 .. Len(fs) /\ fs[j - c[j]] = units[j]
      BY <1>4, <2>1, Zenon
    <3>4. c[j + 1] # c[j] + 1
      BY <3>2
    <3>5. ~IsBare(units[j]) /\ j - d[j] \in 1 .. Len(fs) /\ fs[j - d[j]] = units[j]
      BY <3>2, <3>3, <3>4, Zenon
    <3>6. QED BY <3>2, <3>5
  <2>3. CASE ~(j < J)
    <3> DEFINE i == j + 1
    <3>1. j >= J /\ j + 1 >= J
      BY <2>1, <2>3
    <3>2. /\ d[j] = c[i] - 1 /\ c[i] \in Nat /\ 1 <= c[i] /\ d[i] = c[i + 1] - 1
          /\ c[i + 1] \in Nat /\ rest[j] = units[i] /\ i \in 1 .. n
      <4>1. d[j] = c[i] - 1 /\ c[i] \in Nat /\ 1 <= c[i]
        BY <1>6, <2>1, <3>1
      <4>2. d[i] = c[i + 1] - 1 /\ c[i + 1] \in Nat
        BY <1>6, <2>1, <3>1
      <4>3. rest[j] = units[i]
        BY <1>2, <2>3
      <4>4. QED BY <2>1, <4>1, <4>2, <4>3
    <3>3. j - d[j] = i - c[i] /\ d[j] + 1 = c[i]
      <4>1. \A x, y \in Nat : x - (y - 1) = (x + 1) - y /\ (y - 1) + 1 = y
        OBVIOUS
      <4>2. QED BY <2>1, <3>2, <4>1, Zenon
    <3> HIDE DEF i
    <3>4. CASE IsBare(units[i])
      <4>1. c[i + 1] = c[i] + 1 /\ c[i] + 1 \in 1 .. Len(bs) /\ bs[c[i] + 1] = units[i]
        BY <1>4, <3>2, <3>4
      <4>2. c[i] \in 1 .. Len(bs) - 1
        <5>1. \A x, y \in Nat : x + 1 \in 1 .. y /\ 1 <= x => x \in 1 .. y - 1
          OBVIOUS
        <5>2. QED BY <1>1, <3>2, <4>1, <5>1
      <4>5. tail[c[i]] = units[i]
        BY <1>3, <4>1, <4>2
      <4>3. d[i] = d[j] + 1
        BY <3>2, <3>3, <4>1
      <4>4. QED BY <1>3, <3>2, <3>3, <3>4, <4>2, <4>3, <4>5 DEF i
    <3>5. CASE ~IsBare(units[i])
      <4>1. c[i + 1] = c[i] /\ i - c[i] \in 1 .. Len(fs) /\ fs[i - c[i]] = units[i]
        BY <1>4, <3>2, <3>5
      <4>2. d[i] = d[j]
        BY <3>2, <4>1
      <4>3. QED BY <3>2, <3>3, <3>5, <4>1, <4>2 DEF i
    <3>6. QED BY <3>4, <3>5
  <2>4. QED BY <2>2, <2>3
<1>10. Len(rest) + 1 = n /\ Len(rest) = Len(tail) + Len(fs)
  <2>1. Len(fs) \in Nat
    OBVIOUS
  <2>2. QED BY <1>1, <1>2, <1>3, <1>4, <2>1
<1>11. Woven(rest, tail, fs, d)
  BY <1>2, <1>3, <1>7, <1>8, <1>9, <1>10 DEF Woven
<1>12. QED BY <1>11 DEF rest, tail


\* And spells the words without that one.
LEMMA LessIsSpelled ==
  ASSUME NEW units \in Seq(Seq(STRING)), Plain(units), NEW words \in Seq(STRING), NEW o,
         Spelled(words, units, o), NEW J \in 1 .. Len(units), IsBare(units[J])
  PROVE  /\ RemoveAt(units, J) \in Seq(Seq(STRING)) /\ Plain(RemoveAt(units, J))
         /\ RemoveAt(words, o[J]) \in Seq(STRING)
         /\ \E q : Spelled(RemoveAt(words, o[J]), RemoveAt(units, J), q)
<1> DEFINE n == Len(units)
           m == Len(words)
           I == o[J]
           rest == RemoveAt(units, J)
           left == RemoveAt(words, I)
           q == [j \in 1 .. n |-> IF j <= J THEN o[j] ELSE o[j + 1] - 1]
<1>1. n \in Nat /\ m \in Nat /\ J \in 1 .. n
  OBVIOUS
<1>2. rest \in Seq(Seq(STRING)) /\ Len(rest) = n - 1
      /\ \A k \in 1 .. n - 1 : rest[k] = IF k < J THEN units[k] ELSE units[k + 1]
  <2>1. Without(Seq(STRING), units, J, rest)
    BY <1>1, RemovedFrom
  <2> HIDE DEF rest
  <2>2. QED BY <2>1 DEF Without
<1>3. /\ o \in [1 .. n + 1 -> Nat] /\ o[1] = 1 /\ o[n + 1] = m + 1
      /\ \A j \in 1 .. n :
           /\ o[j + 1] = o[j] + Len(units[j])
           /\ \A p \in 1 .. Len(units[j]) : words[o[j] + p - 1] = units[j][p]
  BY DEF Spelled
<1>4. /\ I \in 1 .. m /\ o[J + 1] = I + 1
  <2>1. J \in 1 .. n + 1
    BY <1>1
  <2> DEFINE u == units[J]
  <2> HIDE DEF n, I, u
  <2>2. /\ u \in Seq(STRING) /\ I \in 1 .. Len(words) /\ words[I] = u[1] /\ u[1] \in STRING
        /\ u[1] # "--"
        /\ u[1] \notin Takes => Len(u) = 1 /\ o[J + 1] = I + 1
        /\ u[1] \in Takes => /\ Len(u) = 2 /\ o[J + 1] = I + 2 /\ I < Len(words)
                             /\ words[I + 1] = u[2] /\ u[2] \in STRING
    BY <1>1, UnitIsPlain DEF u, I, m
  <2>3. Len(units[J]) = 1
    BY DEF IsBare
  <2>4. QED BY <1>3, <2>2, <2>3 DEF I, n
<1>5. left \in Seq(STRING) /\ Len(left) = m - 1
      /\ \A k \in 1 .. m - 1 : left[k] = IF k < I THEN words[k] ELSE words[k + 1]
  <2> HIDE DEF I
  <2>1. Without(STRING, words, I, left)
    BY <1>4, RemovedFrom
  <2> HIDE DEF left
  <2>2. QED BY <2>1 DEF Without
<1>6. Plain(rest)
  <2>1. ASSUME NEW u \in Range(rest) PROVE u \in Range(units)
    <3>1. PICK k \in 1 .. n - 1 : u = rest[k]
      <4> HIDE DEF rest, n
      <4> QED BY <1>2 DEF Range
    <3>2. u = units[k] \/ u = units[k + 1]
      <4> HIDE DEF rest
      <4> QED BY <1>2, <3>1
    <3>3. k \in 1 .. n /\ k + 1 \in 1 .. n
      BY <1>1
    <3>4. QED BY <3>2, <3>3 DEF Range
  <2>2. QED BY <2>1, Zenon DEF Plain
<1> HIDE DEF n, m, I, rest, left
<1>7. ASSUME NEW j \in 1 .. n
      PROVE  /\ q[j] \in Nat /\ o[j + 1] \in Nat
             /\ j <= J => q[j] = o[j] /\ o[j] \in Nat /\ o[j] <= I
             /\ j >= J => q[j] = o[j + 1] - 1 /\ I + 1 <= o[j + 1]
  <2>1. /\ j \in 1 .. n + 1 /\ j + 1 \in 1 .. n + 1 /\ J \in 1 .. n + 1 /\ J + 1 \in 1 .. n + 1
        /\ J \in Nat /\ j \in Nat
    BY <1>1
  <2>2. q[j] = IF j <= J THEN o[j] ELSE o[j + 1] - 1
    OBVIOUS
  <2> HIDE DEF q
  <2>3. o[j] \in Nat /\ o[j + 1] \in Nat /\ I \in Nat
    BY <1>1, <1>3, <1>4, <2>1
  <2>4. ASSUME j <= J PROVE o[j] <= I
    BY <2>1, <2>4, PlacesGoUp DEF n, I
  <2>5. ASSUME j >= J PROVE I + 1 <= o[j + 1]
    <3>1. J + 1 <= j + 1
      BY <2>1, <2>5
    <3>2. o[J + 1] <= o[j + 1]
      BY <2>1, <3>1, PlacesGoUp DEF n
    <3>3. QED BY <1>4, <3>2
  <2>6. CASE j <= J /\ ~(j >= J)
    BY <2>2, <2>3, <2>4, <2>6
  <2>7. CASE j = J
    <3>1. q[j] = o[j] /\ o[j] = I /\ o[j + 1] = I + 1 /\ j <= J /\ j >= J
      BY <1>4, <2>1, <2>2, <2>7 DEF I
    <3>2. q[j] = o[j + 1] - 1 /\ I + 1 <= o[j + 1] /\ o[j] <= I
      BY <2>3, <3>1
    <3>3. QED BY <2>3, <3>1, <3>2
  <2>8. CASE ~(j <= J) /\ j >= J
    BY <2>2, <2>3, <2>5, <2>8
  <2>9. QED BY <2>1, <2>6, <2>7, <2>8
<1>8. q \in [1 .. n -> Nat]
  <2>1. q = [j \in 1 .. n |-> q[j]]
    OBVIOUS
  <2> HIDE DEF q
  <2>2. QED BY <1>7, <2>1
<1> HIDE DEF q
<1>9. q[1] = 1 /\ q[n] = m
  <2>1. 1 \in 1 .. n /\ 1 <= J /\ n \in 1 .. n /\ n >= J
    BY <1>1
  <2>2. q[1] = o[1] /\ q[n] = o[n + 1] - 1
    BY <1>7, <2>1
  <2>3. QED BY <1>1, <1>3, <2>2
<1>10. \A j \in 1 .. n : \A p \in 1 .. Len(units[j]) : o[j] + p - 1 \in Nat
  <2>1. ASSUME NEW j \in 1 .. n, NEW p \in 1 .. Len(units[j]) PROVE o[j] + p - 1 \in Nat
    <3>1. j \in 1 .. n + 1
      BY <1>1
    <3>2. o[j] \in Nat
      BY <1>3, <3>1
    <3>3. QED BY <3>2
  <2>2. QED BY <2>1
<1>11. \A j \in 1 .. n : Len(units[j]) \in Nat
  <2>1. ASSUME NEW j \in 1 .. n PROVE Len(units[j]) \in Nat
    <3>1. units[j] \in Seq(STRING)
      BY ElementOf DEF n
    <3>2. QED BY <3>1
  <2>2. QED BY <2>1
<1>12. ASSUME NEW j \in 1 .. n - 1
       PROVE  /\ q[j + 1] = q[j] + Len(rest[j])
              /\ \A p \in 1 .. Len(rest[j]) : left[q[j] + p - 1] = rest[j][p]
  <2>1. j \in 1 .. n /\ j + 1 \in 1 .. n /\ j + 1 \in 1 .. n + 1 /\ j \in Nat /\ J \in Nat
    BY <1>1
  <2>2. CASE j < J
    <3>1. j <= J /\ j + 1 <= J
      BY <2>1, <2>2
    <3>2. /\ q[j] = o[j] /\ q[j + 1] = o[j + 1] /\ rest[j] = units[j] /\ o[j + 1] <= I
          /\ o[j] \in Nat /\ o[j + 1] \in Nat
      BY <1>2, <1>7, <2>1, <2>2, <3>1
    <3>3. o[j + 1] = o[j] + Len(units[j]) /\ Len(units[j]) \in Nat
      BY <1>3, <1>11, <2>1
    <3>4. ASSUME NEW p \in 1 .. Len(units[j]) PROVE left[o[j] + p - 1] = units[j][p]
      <4> DEFINE x == o[j] + p - 1
      <4>1. words[x] = units[j][p]
        BY <1>3, <2>1
      <4>2. x \in 1 .. m - 1 /\ x < I
        <5>1. 1 <= o[j]
          <6>1. 1 \in 1 .. n + 1 /\ j \in 1 .. n + 1 /\ 1 <= j
            BY <1>1, <2>1
          <6>2. o[1] <= o[j]
            BY <6>1, PlacesGoUp DEF n
          <6>3. QED BY <1>3, <6>2
        <5>2. I \in Nat /\ I <= m /\ o[j] + Len(units[j]) <= I
          BY <1>1, <1>4, <3>2, <3>3
        <5>3. \A a, b, d, e \in Nat : 1 <= a /\ a + b <= d /\ d <= e =>
                \A y \in 1 .. b : a + y - 1 \in 1 .. e - 1 /\ a + y - 1 < d
          OBVIOUS
        <5>4. QED BY <1>1, <3>2, <3>3, <5>1, <5>2, <5>3, Zenon
      <4> HIDE DEF x
      <4>3. left[x] = words[x]
        BY <1>5, <4>2
      <4>4. QED BY <4>1, <4>3 DEF x
    <3>5. QED BY <3>2, <3>3, <3>4
  <2>3. CASE ~(j < J)
    <3> DEFINE i == j + 1
    <3>1. j >= J /\ i >= J
      BY <2>1, <2>3
    <3>2. rest[j] = units[i] /\ i \in 1 .. n
      BY <1>2, <2>1, <2>3
    <3>3. q[j] = o[i] - 1 /\ o[i] \in Nat /\ I + 1 <= o[i]
      BY <1>7, <2>1, <3>1
    <3> HIDE DEF i
    <3>4. q[i] = o[i + 1] - 1 /\ o[i + 1] \in Nat
      BY <1>7, <3>1, <3>2
    <3>5. o[i + 1] = o[i] + Len(units[i]) /\ Len(units[i]) \in Nat
      BY <1>3, <1>11, <3>2
    <3>6. q[i] = q[j] + Len(units[i])
      BY <3>3, <3>4, <3>5
    <3>7. ASSUME NEW p \in 1 .. Len(units[i]) PROVE left[q[j] + p - 1] = units[i][p]
      <4> DEFINE x == q[j] + p - 1
      <4>1. words[o[i] + p - 1] = units[i][p]
        BY <1>3, <3>2
      <4>2. x + 1 = o[i] + p - 1 /\ x \in Nat /\ ~(x < I)
        BY <1>4, <3>3
      <4>3. x <= m - 1 /\ 1 <= x
        <5>1. i + 1 \in 1 .. n + 1 /\ n + 1 \in 1 .. n + 1 /\ i + 1 <= n + 1
          BY <1>1, <3>2
        <5>2. o[i + 1] <= o[n + 1]
          BY <5>1, PlacesGoUp DEF n
        <5>3. o[i] + Len(units[i]) <= m + 1
          BY <1>3, <3>5, <5>2
        <5>4. I \in Nat /\ 1 <= I
          BY <1>4
        <5>5. \A a, b, d, e \in Nat : 1 <= d /\ d + 1 <= a /\ a + b <= e + 1 =>
                \A y \in 1 .. b : a - 1 + y - 1 <= e - 1 /\ 1 <= a - 1 + y - 1
          OBVIOUS
        <5>6. (o[i] - 1) + p - 1 <= m - 1 /\ 1 <= (o[i] - 1) + p - 1
          BY <1>1, <3>3, <3>5, <5>3, <5>4, <5>5
        <5>7. QED BY <3>3, <5>6
      <4> HIDE DEF x
      <4>4. left[x] = words[x + 1]
        BY <1>1, <1>5, <4>2, <4>3
      <4>5. QED BY <4>1, <4>2, <4>4 DEF x
    <3>8. QED BY <3>2, <3>6, <3>7 DEF i
  <2>4. QED BY <2>2, <2>3
<1>13. Len(rest) + 1 = n /\ Len(left) + 1 = m
  BY <1>1, <1>2, <1>5
<1>14. Spelled(left, rest, q)
  BY <1>2, <1>8, <1>9, <1>12, <1>13 DEF Spelled
<1>15. QED BY <1>2, <1>5, <1>6, <1>14 DEF rest, left, I


\* The command the bare units are for, and its arguments.
Command(bs) == IF Len(bs) # 0 /\ bs[1][1] \in Commands THEN bs[1][1] ELSE Blank
Arguments(bs) == IF Len(bs) # 0 /\ bs[1][1] \in Commands THEN Tail(bs) ELSE bs

\* A line read as that command, its arguments and the flags.
ReadsAs(words, bs, fs) ==
  LET split == SplitCommand(words)
      p == Parse(split.rest, split.name, split.name # "keys")
  IN  /\ split.name = Command(bs) /\ p \in Readings
      /\ p.failed <=> \E i \in 1 .. Len(fs) : Bad(fs[i], Command(bs))
      /\ ~p.failed => p.bare = Heads(Arguments(bs)) /\ p.flags = FlagsOf(fs)

\* The command the line is split at is that one.
LEMMA CommandOfWeave ==
  ASSUME NEW units \in Seq(Seq(STRING)), Plain(units), NEW bs \in Seq(Seq(STRING)), NEW fs, NEW c,
         Woven(units, bs, fs, c), NEW words \in Seq(STRING), NEW o, Spelled(words, units, o)
  PROVE  /\ SplitCommand(words).name = Command(bs)
         /\ \/ SplitCommand(words).rest = words /\ Arguments(bs) = bs
            \/ \E J \in 1 .. Len(units) : /\ FirstAt(units, bs, c, J)
                                          /\ SplitCommand(words).rest = RemoveAt(words, o[J])
                                          /\ Len(bs) # 0 /\ Arguments(bs) = Tail(bs)
<1>1. CASE \E J \in 1 .. Len(units) :
             FirstAt(units, bs, c, J) /\ SplitCommand(words) = SplitAt(words, o[J])
  <2>1. PICK J \in 1 .. Len(units) :
               FirstAt(units, bs, c, J) /\ SplitCommand(words) = SplitAt(words, o[J])
    BY <1>1
  <2>2. Len(bs) # 0 /\ bs[1] = units[J]
    BY <2>1 DEF FirstAt
  <2> DEFINE u == units[J]
             i == o[J]
  <2> HIDE DEF u, i
  <2>3. /\ u \in Seq(STRING) /\ i \in 1 .. Len(words) /\ words[i] = u[1] /\ u[1] \in STRING
        /\ u[1] # "--"
        /\ u[1] \notin Takes => Len(u) = 1 /\ o[J + 1] = i + 1
        /\ u[1] \in Takes => /\ Len(u) = 2 /\ o[J + 1] = i + 2 /\ i < Len(words)
                             /\ words[i + 1] = u[2] /\ u[2] \in STRING
    <3>1. Len(words) \in Nat
      OBVIOUS
    <3>2. QED BY <3>1, UnitIsPlain DEF u, i
  <2>4. i # 0 /\ words[i] = bs[1][1]
    BY <2>2, <2>3 DEF u
  <2>5. SplitCommand(words) = SplitAt(words, i)
    BY <2>1 DEF i
  <2>6. CASE bs[1][1] \in Commands
    <3>1. SplitCommand(words).name = bs[1][1] /\ SplitCommand(words).rest = RemoveAt(words, i)
      BY <2>4, <2>5, <2>6 DEF SplitAt
    <3>2. QED BY <2>1, <2>2, <2>6, <3>1 DEF Command, Arguments, i
  <2>7. CASE bs[1][1] \notin Commands
    <3>1. SplitCommand(words).name = Blank /\ SplitCommand(words).rest = words
      BY <2>4, <2>5, <2>7 DEF SplitAt
    <3>2. QED BY <2>7, <3>1 DEF Command, Arguments
  <2>8. QED BY <2>6, <2>7
<1>2. CASE Len(bs) = 0 /\ SplitCommand(words) = SplitAt(words, 0)
  BY <1>2 DEF Command, Arguments, SplitAt
<1>3. QED BY <1>1, <1>2, SplitOfWeave

\* And the line is read as its bare units and its flags.
LEMMA LineReadsAs ==
  ASSUME NEW units \in Seq(Seq(STRING)), Plain(units), NEW bs \in Seq(Seq(STRING)),
         NEW fs \in Seq(Seq(STRING)), NEW c, Woven(units, bs, fs, c), NEW words \in Seq(STRING),
         NEW o, Spelled(words, units, o), Command(bs) = "keys" => Len(bs) <= 1
  PROVE  ReadsAs(words, bs, fs)
<1> DEFINE split == SplitCommand(words)
           name == Command(bs)
           again == name # "keys"
           p == Parse(split.rest, name, again)
           rest == Arguments(bs)
<1>1. split.name = name
  BY CommandOfWeave
<1>2. again \/ Len(rest) = 0
  <2>1. ASSUME name = "keys" PROVE Len(rest) = 0
    <3>1. Len(bs) # 0 /\ bs[1][1] \in Commands
      BY <2>1 DEF Command, Blank
    <3>2. Len(bs) <= 1 /\ Len(bs) \in Nat /\ rest = Tail(bs)
      BY <2>1, <3>1 DEF Arguments
    <3>3. Len(Tail(bs)) = Len(bs) - 1
      <4> DEFINE S == Seq(STRING)
      <4> HIDE DEF S, rest
      <4>1. bs \in Seq(S)
        BY DEF S
      <4>2. QED BY <3>1, <4>1
    <3>4. Len(bs) - 1 = 0
      <4>1. \A x \in Nat : x # 0 /\ x <= 1 => x - 1 = 0
        OBVIOUS
      <4>2. QED BY <3>1, <3>2, <4>1
    <3>5. QED BY <3>2, <3>3, <3>4
  <2>2. QED BY <2>1
<1>3. again \in BOOLEAN
  OBVIOUS
<1> HIDE DEF again, name, split
<1> DEFINE Reads == /\ p \in Readings
                    /\ p.failed <=> \E i \in 1 .. Len(fs) : Bad(fs[i], name)
                    /\ ~p.failed => p.bare = Heads(rest) /\ p.flags = FlagsOf(fs)
<1>4. Reads
  <2>1. CASE split.rest = words /\ rest = bs
    <3> HIDE DEF p, rest
    <3>1. p = Parse(words, name, again)
      BY <2>1 DEF p
    <3>2. again \/ Len(bs) = 0
      BY <1>2, <2>1
    <3>3. QED BY <1>3, <2>1, <3>1, <3>2, ParseOfWeave
  <2>2. CASE \E J \in 1 .. Len(units) : /\ FirstAt(units, bs, c, J)
                                        /\ split.rest = RemoveAt(words, o[J])
                                        /\ Len(bs) # 0 /\ rest = Tail(bs)
    <3>1. PICK J \in 1 .. Len(units) : /\ FirstAt(units, bs, c, J)
                                       /\ split.rest = RemoveAt(words, o[J])
                                       /\ Len(bs) # 0 /\ rest = Tail(bs)
      BY <2>2
    <3> DEFINE less == RemoveAt(units, J)
               left == RemoveAt(words, o[J])
    <3>2. IsBare(units[J])
      BY <3>1 DEF FirstAt
    <3>3. /\ less \in Seq(Seq(STRING)) /\ Plain(less) /\ left \in Seq(STRING)
          /\ \E q : Spelled(left, less, q)
      BY <3>2, LessIsSpelled
    <3>4. \E d : Woven(less, Tail(bs), fs, d)
      BY <3>1, LessIsWoven
    <3>5. rest \in Seq(Seq(STRING))
      <4> DEFINE S == Seq(STRING)
      <4> HIDE DEF S, rest
      <4>1. bs \in Seq(S)
        BY DEF S
      <4>2. Tail(bs) \in Seq(S)
        BY <3>1, <4>1
      <4>3. QED BY <3>1, <4>2 DEF S
    <3> HIDE DEF less, left, p, rest
    <3>6. p = Parse(left, name, again) /\ \E d : Woven(less, rest, fs, d)
      BY <3>1, <3>4 DEF p, left
    <3>7. QED BY <1>2, <1>3, <3>3, <3>5, <3>6, ParseOfWeave
  <2>3. QED BY <2>1, <2>2, CommandOfWeave DEF split
<1>5. QED BY <1>1, <1>4, Zenon DEF ReadsAs, split, name, again

\* Two lines that are read as the same do the same.
LEMMA ReadTheSame ==
  ASSUME NEW words, NEW others, NEW bs, NEW fs, ReadsAs(words, bs, fs), ReadsAs(others, bs, fs),
         WantsHelp(words) <=> WantsHelp(others)
  PROVE  Dispatch(words) = Dispatch(others)
<1> DEFINE s == SplitCommand(words)
           t == SplitCommand(others)
           p == Parse(s.rest, s.name, s.name # "keys")
           q == Parse(t.rest, t.name, t.name # "keys")
           Does(name, r) == IF r.failed THEN Says("usage")
                            ELSE IF name # Blank /\ Version(r) THEN Says("version")
                            ELSE CASE name = "run" -> RunCommand(r)
                                   [] name = "completion" -> CompletionCommand(r)
                                   [] name = "keys" -> KeysCommand(r)
                                   [] OTHER -> Explore(r)
           Chosen(help, name, r) == CASE help -> Says("help")
                                      [] ~help /\ name = "__complete" -> Says("candidates")
                                      [] OTHER -> Does(name, r)
<1>1. /\ Dispatch(words) = Chosen(WantsHelp(words), s.name, p)
      /\ Dispatch(others) = Chosen(WantsHelp(others), t.name, q)
  BY Zenon DEF Dispatch
<1>2. /\ s.name = t.name /\ p \in Readings /\ q \in Readings /\ (p.failed <=> q.failed)
      /\ ~p.failed => p.bare = q.bare /\ p.flags = q.flags
  BY Zenon DEF ReadsAs
<1> HIDE DEF s, t, p, q
<1>3. Does(s.name, p) = Does(t.name, q)
  <2>1. CASE p.failed
    BY <1>2, <2>1, Zenon
  <2>2. CASE ~p.failed
    <3>1. \A r \in Readings : r = [bare |-> r.bare, flags |-> r.flags, failed |-> r.failed]
          /\ r.failed \in BOOLEAN
      BY DEF Readings
    <3>2. p = q
      BY <1>2, <2>2, <3>1
    <3>3. QED BY <1>2, <3>2, Zenon
  <2>3. QED BY <2>1, <2>2
<1> HIDE DEF Does
<1>4. QED BY <1>1, <1>2, <1>3


Among(w, units) == \E k \in 1 .. Len(units) : \E p \in 1 .. Len(units[k]) : w = units[k][p]

\* A word is among the words of units when it is one of a unit's.
LEMMA WordOfAUnit ==
  ASSUME NEW units \in Seq(Seq(STRING)), NEW w
  PROVE  w \in Range(Flatten(units)) <=> Among(w, units)
<1>1. PICK at \in [0 .. Len(units) -> Seq(STRING)] : Spells(units, at)
  BY FlattenSpells
<1>2. Placed(units, at)
  BY <1>1, FlattenPlaces
<1> DEFINE words == Flatten(units)
<1>3. words \in Seq(STRING)
  BY FlattenIsSpelled
<1> HIDE DEF words
<1>4. w \in Range(words) <=> \E q \in 1 .. Len(words) : w = words[q]
  BY <1>3 DEF Range
<1>5. ASSUME NEW q \in 1 .. Len(words), w = words[q]
      PROVE  \E k \in 1 .. Len(units) : \E p \in 1 .. Len(units[k]) : w = units[k][p]
  BY <1>2, <1>5 DEF Placed, words
<1>6. ASSUME NEW k \in 1 .. Len(units), NEW p \in 1 .. Len(units[k]), w = units[k][p]
      PROVE  \E q \in 1 .. Len(words) : w = words[q]
  <2>1. /\ Len(at[k - 1]) + p \in 1 .. Len(words)
        /\ words[Len(at[k - 1]) + p] = units[k][p]
    BY <1>2 DEF Placed, words
  <2>2. QED BY <1>6, <2>1
<1>7. QED BY <1>4, <1>5, <1>6, Zenon DEF words, Among

\* Two lines of the same units have the same words.
LEMMA SameWords ==
  ASSUME NEW units \in Seq(Seq(STRING)), NEW others \in Seq(Seq(STRING)),
         \A k \in 1 .. Len(units) : \E q \in 1 .. Len(others) : units[k] = others[q]
  PROVE  WantsHelp(Flatten(units)) => WantsHelp(Flatten(others))
<1> SUFFICES ASSUME WantsHelp(Flatten(units)) PROVE WantsHelp(Flatten(others))
  OBVIOUS
<1> DEFINE w == "-h"
<1>0. w \in Range(Flatten(units)) /\ (w \in Range(Flatten(others)) => WantsHelp(Flatten(others)))
  BY Zenon DEF WantsHelp
<1> HIDE DEF w
<1>1. PICK k \in 1 .. Len(units) : \E p \in 1 .. Len(units[k]) : w = units[k][p]
  <2>1. Among(w, units)
    BY <1>0, WordOfAUnit
  <2>2. QED BY <2>1 DEF Among
<1>2. PICK p \in 1 .. Len(units[k]) : w = units[k][p]
  BY <1>1
<1>3. PICK q \in 1 .. Len(others) : units[k] = others[q]
  OBVIOUS
<1>4. p \in 1 .. Len(others[q]) /\ w = others[q][p]
  BY <1>2, <1>3
<1>5. w \in Range(Flatten(others))
  BY <1>4, WordOfAUnit DEF Among
<1>6. QED BY <1>0, <1>5

\* Where the flags are makes no difference, on any line.
LEMMA FlagsAreAnywhere ==
  ASSUME NEW units \in Seq(Seq(STRING))
  PROVE  FlagsGoAnywhere(units)
<1> DEFINE bs == Those(units, BareOf(units))
           fs == Those(units, Range(units) \ BareOf(units))
           sorted == bs \o fs
           line == Flatten(units)
           flagsLast == Flatten(sorted)
<1>1. FlagsGoAnywhere(units) <=>
        (Plain(units) /\ ~(SplitCommand(line).name = "keys" /\ Len(bs) > 1) =>
           Dispatch(line) = Dispatch(flagsLast))
  BY Zenon DEF FlagsGoAnywhere, BareOf, IsBare
<1> SUFFICES ASSUME Plain(units), ~(SplitCommand(line).name = "keys" /\ Len(bs) > 1)
             PROVE  Dispatch(line) = Dispatch(flagsLast)
  BY <1>1, Zenon
<1>2. /\ bs \in Seq(Seq(STRING)) /\ fs \in Seq(Seq(STRING))
      /\ \A q \in 1 .. Len(bs) : \E k \in 1 .. Len(units) : units[k] \in BareOf(units) /\ bs[q] = units[k]
      /\ \A q \in 1 .. Len(fs) : \E k \in 1 .. Len(units) :
           units[k] \in Range(units) \ BareOf(units) /\ fs[q] = units[k]
  <2> DEFINE S == Seq(STRING)
  <2> HIDE DEF S, bs, fs
  <2>1. units \in Seq(S)
    BY DEF S
  <2>2. bs \in Seq(S) /\ \A q \in 1 .. Len(bs) : \E k \in 1 .. Len(units) :
                           units[k] \in BareOf(units) /\ bs[q] = units[k]
    BY <2>1, ThoseAreCounted DEF bs
  <2>3. fs \in Seq(S) /\ \A q \in 1 .. Len(fs) : \E k \in 1 .. Len(units) :
                           units[k] \in Range(units) \ BareOf(units) /\ fs[q] = units[k]
    <3> DEFINE F == Range(units) \ BareOf(units)
    <3> HIDE DEF F
    <3>1. /\ Those(units, F) \in Seq(S)
          /\ \A q \in 1 .. Len(Those(units, F)) :
               \E k \in 1 .. Len(units) : units[k] \in F /\ Those(units, F)[q] = units[k]
      BY <2>1, ThoseAreCounted
    <3>2. QED BY <3>1, Zenon DEF F, fs
  <2>4. QED BY <2>2, <2>3 DEF S
<1>3. \A q \in 1 .. Len(bs) : IsBare(bs[q])
  BY <1>2 DEF BareOf
<1>4. \A q \in 1 .. Len(fs) : ~IsBare(fs[q])
  BY <1>2 DEF BareOf
<1>5. \E c : Woven(units, bs, fs, c)
  BY LineIsWoven
<1> HIDE DEF bs, fs
<1>6. /\ sorted \in Seq(Seq(STRING)) /\ \A q \in 1 .. Len(bs) : q \in 1 .. Len(sorted) /\ sorted[q] = bs[q]
      /\ \A p \in 1 .. Len(fs) : Len(bs) + p \in 1 .. Len(sorted) /\ sorted[Len(bs) + p] = fs[p]
      /\ \A q \in 1 .. Len(sorted) : q \in 1 .. Len(bs) \/ q - Len(bs) \in 1 .. Len(fs)
      /\ \A q \in 1 .. Len(sorted) : Len(bs) + (q - Len(bs)) = q
  <2> DEFINE S == Seq(STRING)
             r == sorted
  <2> HIDE DEF S, r
  <2>1. bs \in Seq(S) /\ fs \in Seq(S) /\ r = bs \o fs
    BY <1>2 DEF S, r
  <2>2. /\ r \in Seq(S)
        /\ \A q \in 1 .. Len(bs) : q \in 1 .. Len(r) /\ r[q] = bs[q]
        /\ \A p \in 1 .. Len(fs) : Len(bs) + p \in 1 .. Len(r) /\ r[Len(bs) + p] = fs[p]
        /\ \A q \in 1 .. Len(r) : q \in 1 .. Len(bs) \/ q - Len(bs) \in 1 .. Len(fs)
        /\ \A q \in 1 .. Len(r) : Len(bs) + (q - Len(bs)) = q
    BY <2>1, Appended
  <2>3. QED BY <2>2 DEF S, r
<1>7. \E d : Woven(sorted, bs, fs, d)
  <2> DEFINE S == Seq(STRING)
  <2> HIDE DEF S
  <2>1. bs \in Seq(S) /\ fs \in Seq(S)
    BY <1>2 DEF S
  <2>2. QED BY <1>3, <1>4, <2>1, SortedIsWoven
<1> HIDE DEF sorted
<1>8. ASSUME NEW q \in 1 .. Len(sorted)
      PROVE  \E k \in 1 .. Len(units) : sorted[q] = units[k]
  <2>1. CASE q \in 1 .. Len(bs)
    BY <1>2, <1>6, <2>1
  <2>2. CASE q - Len(bs) \in 1 .. Len(fs)
    <3> DEFINE p == q - Len(bs)
    <3>1. p \in 1 .. Len(fs) /\ Len(bs) + p = q
      BY <1>6, <2>2
    <3> HIDE DEF p
    <3>2. PICK k \in 1 .. Len(units) : fs[p] = units[k]
      BY <1>2, <3>1
    <3>3. sorted[Len(bs) + p] = fs[p]
      BY <1>6, <3>1
    <3>4. QED BY <3>1, <3>2, <3>3, Zenon
  <2>3. QED BY <1>6, <2>1, <2>2
<1>9. ASSUME NEW k \in 1 .. Len(units)
      PROVE  \E q \in 1 .. Len(sorted) : units[k] = sorted[q]
  <2>1. PICK c : Woven(units, bs, fs, c)
    BY <1>5
  <2>2. \/ c[k] + 1 \in 1 .. Len(bs) /\ bs[c[k] + 1] = units[k]
        \/ k - c[k] \in 1 .. Len(fs) /\ fs[k - c[k]] = units[k]
    BY <2>1 DEF Woven
  <2>3. QED BY <1>6, <2>2
<1>10. Plain(sorted)
  <2>1. ASSUME NEW u \in Range(sorted) PROVE u \in Range(units)
    <3> DEFINE S == Seq(STRING)
    <3> HIDE DEF S
    <3>1. sorted \in Seq(S)
      BY <1>6 DEF S
    <3>2. \E q \in 1 .. Len(sorted) : u = sorted[q]
      BY <3>1 DEF Range
    <3>3. QED BY <1>8, <3>2 DEF Range
  <2>2. QED BY <2>1, Zenon DEF Plain
<1>11. /\ line \in Seq(STRING) /\ \E o : Spelled(line, units, o)
       /\ flagsLast \in Seq(STRING) /\ \E o : Spelled(flagsLast, sorted, o)
  BY <1>6, FlattenIsSpelled
<1>12. WantsHelp(line) <=> WantsHelp(flagsLast)
  <2>1. WantsHelp(line) => WantsHelp(flagsLast)
    BY <1>6, <1>9, SameWords
  <2>2. WantsHelp(flagsLast) => WantsHelp(line)
    BY <1>6, <1>8, SameWords
  <2>3. QED BY <2>1, <2>2
<1> HIDE DEF line, flagsLast
<1>13. Command(bs) = "keys" => Len(bs) <= 1
  <2>1. SplitCommand(line).name = Command(bs)
    BY <1>2, <1>5, <1>11, CommandOfWeave
  <2>2. Len(bs) \in Nat
    BY <1>2
  <2>3. QED BY <2>1, <2>2 DEF line
<1>14. ReadsAs(line, bs, fs)
  BY <1>2, <1>5, <1>11, <1>13, LineReadsAs
<1>15. ReadsAs(flagsLast, bs, fs)
  BY <1>2, <1>6, <1>7, <1>10, <1>11, <1>13, LineReadsAs
<1>16. QED BY <1>12, <1>14, <1>15, ReadTheSame

\* Whatever order its words come in, a line starts the same thing: one line and the same
\* line with its flags at the end differ in nothing (splitCommand, parseArgs).
THEOREM WordsComeInAnyOrder == Spec => []WordsInAnyOrder
<1>1. SessionInv => WordsInAnyOrder
  <2>1. ASSUME SessionInv PROVE job.line \in Seq(Seq(STRING))
    BY <2>1, HeadlessAssumption DEF SessionInv
  <2>2. QED BY <2>1, FlagsAreAnywhere DEF WordsInAnyOrder
<1>2. QED BY <1>1, SessionInvHolds, PTL


=============================================================================
