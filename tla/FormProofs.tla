----------------------------- MODULE FormProofs -----------------------------
(***************************************************************************)
(* The rows on screen are those of the form, the cursor is on one of them  *)
(* and in the window: for every schema, every message that is recalled,    *)
(* every height and any number of edits.                                   *)
(***************************************************************************)
EXTENDS FormPanel, LayoutProofs, FiniteSetTheorems, SequenceTheorems, TLAPS

-----------------------------------------------------------------------------
(* Sets in order. *)

\* A strict total order on a set, as a set of pairs.
Orders(R, S) ==
  /\ \A x \in S : <<x, x>> \notin R
  /\ \A x, y, z \in S : <<x, y>> \in R /\ <<y, z>> \in R => <<x, z>> \in R
  /\ \A x, y \in S : x = y \/ <<x, y>> \in R \/ <<y, x>> \in R

\* Those before an element.
Below(R, S, x) == {y \in S : <<y, x>> \in R}

\* As many are before an element as its place says, and there is one for every place.
LEMMA PlacesAreTaken ==
  ASSUME NEW S, IsFiniteSet(S), NEW R, Orders(R, S)
  PROVE  /\ \A x \in S : Cardinality(Below(R, S, x)) \in 0 .. Cardinality(S) - 1
         /\ \A x, y \in S : <<x, y>> \in R
                              => Cardinality(Below(R, S, x)) < Cardinality(Below(R, S, y))
         /\ \A i \in 0 .. Cardinality(S) - 1 : \E x \in S : Cardinality(Below(R, S, x)) = i
<1> DEFINE n == Cardinality(S)
           b == [x \in S |-> Cardinality(Below(R, S, x))]
<1>1. ASSUME NEW x \in S
      PROVE  IsFiniteSet(Below(R, S, x)) /\ b[x] \in 0 .. n - 1 /\ b[x] = Cardinality(Below(R, S, x))
  <2>1. Below(R, S, x) \in SUBSET (S \ {x})
    BY DEF Below, Orders
  <2>2. IsFiniteSet(S \ {x}) /\ Cardinality(S \ {x}) = n - 1
    BY FS_RemoveElement
  <2>3. IsFiniteSet(Below(R, S, x)) /\ Cardinality(Below(R, S, x)) <= n - 1
    BY <2>1, <2>2, FS_Subset
  <2>4. Cardinality(Below(R, S, x)) \in Nat /\ n \in Nat
    BY <2>3, FS_CardinalityType
  <2>5. QED BY <2>3, <2>4
<1>2. ASSUME NEW x \in S, NEW y \in S, <<x, y>> \in R PROVE b[x] < b[y]
  <2> DEFINE T == Below(R, S, x) \union {x}
  <2>1. T \in SUBSET Below(R, S, y) /\ x \notin Below(R, S, x)
    BY <1>2 DEF Below, Orders
  <2>2. IsFiniteSet(T) /\ Cardinality(T) = Cardinality(Below(R, S, x)) + 1
    BY <1>1, <2>1, FS_AddElement
  <2>3. Cardinality(T) <= Cardinality(Below(R, S, y))
    BY <1>1, <2>1, FS_Subset
  <2> HIDE DEF T
  <2>4. QED BY <1>1, <2>2, <2>3
<1> HIDE DEF b
<1>3. b \in Injection(S, 0 .. n - 1)
  <2>1. b \in [S -> 0 .. n - 1]
    BY <1>1 DEF b
  <2>2. ASSUME NEW x \in S, NEW y \in S, b[x] = b[y] PROVE x = y
    <3>1. b[x] \in Nat /\ b[y] \in Nat
      BY <1>1
    <3>2. <<x, y>> \notin R /\ <<y, x>> \notin R
      BY <1>2, <2>2, <3>1
    <3>3. QED BY <3>2 DEF Orders
  <2>3. QED BY <2>1, <2>2 DEF Injection, IsInjective
<1>4. b \in Surjection(S, 0 .. n - 1)
  <2>1. n \in Nat
    BY FS_CardinalityType
  <2>2. IsFiniteSet(0 .. n - 1) /\ Cardinality(0 .. n - 1) = n
    BY <2>1, FS_Interval
  <2>3. QED BY <1>3, <2>2, FS_Injection
<1>5. \A i \in 0 .. n - 1 : \E x \in S : b[x] = i
  BY <1>4 DEF Surjection
<1>6. QED BY <1>1, <1>2, <1>5

\* A list of all of S, in that order.
InOrder(rs, R, S) ==
  /\ rs \in Seq(S) /\ Len(rs) = Cardinality(S)
  /\ \A x \in S : \E i \in 1 .. Len(rs) : rs[i] = x
  /\ \A i, j \in 1 .. Len(rs) : i < j => <<rs[i], rs[j]>> \in R

\* What Sorted makes of a set is that.
LEMMA SortedIsInOrder ==
  ASSUME NEW S, IsFiniteSet(S), NEW R, Orders(R, S), NEW rs,
         rs = [i \in 1 .. Cardinality(S) |->
                 CHOOSE x \in S : Cardinality(Below(R, S, x)) = i - 1]
  PROVE  InOrder(rs, R, S)
<1> DEFINE n == Cardinality(S)
<1>1. n \in Nat
  BY FS_CardinalityType
<1>2. ASSUME NEW i \in 1 .. n
      PROVE  rs[i] \in S /\ Cardinality(Below(R, S, rs[i])) = i - 1
  <2>1. i - 1 \in 0 .. n - 1
    BY <1>1
  <2>2. \E x \in S : Cardinality(Below(R, S, x)) = i - 1
    BY <2>1, PlacesAreTaken
  <2>3. rs[i] = CHOOSE x \in S : Cardinality(Below(R, S, x)) = i - 1
    OBVIOUS
  <2>4. QED BY <2>2, <2>3
<1>3. rs \in Seq(S) /\ Len(rs) = n /\ DOMAIN rs = 1 .. n
  <2>1. DOMAIN rs = 1 .. n /\ rs \in [1 .. n -> S]
    BY <1>2
  <2>2. QED BY <1>1, <2>1
<1>4. ASSUME NEW x \in S PROVE \E i \in 1 .. n : rs[i] = x
  <2> DEFINE c == Cardinality(Below(R, S, x))
  <2>1. c \in 0 .. n - 1
    BY PlacesAreTaken
  <2>2. c + 1 \in 1 .. n
    BY <1>1, <2>1
  <2> DEFINE y == rs[c + 1]
  <2>3. y \in S /\ Cardinality(Below(R, S, y)) = c
    BY <1>2, <2>1, <2>2
  <2>4. ~(<<x, y>> \in R) /\ ~(<<y, x>> \in R)
    BY <2>1, <2>3, PlacesAreTaken
  <2>5. y = x
    BY <2>3, <2>4 DEF Orders
  <2>6. QED BY <2>2, <2>5
<1>5. ASSUME NEW i \in 1 .. n, NEW j \in 1 .. n, i < j PROVE <<rs[i], rs[j]>> \in R
  <2>1. Cardinality(Below(R, S, rs[i])) = i - 1 /\ Cardinality(Below(R, S, rs[j])) = j - 1
    BY <1>2
  <2>2. rs[i] # rs[j] /\ ~(<<rs[j], rs[i]>> \in R)
    BY <1>2, <1>5, <2>1, PlacesAreTaken
  <2>3. QED BY <1>2, <2>2 DEF Orders
<1>6. QED BY <1>3, <1>4, <1>5 DEF InOrder

\* An address is the positions on the way to a row.
Address == Seq(Nat)

\* The first m positions are the same.
Agree(p, q, m) == \A i \in 1 .. m : p[i] = q[i]

\* Two addresses agree on their first m indices when their prefixes of that length are one.
LEMMA AgreeIsPrefix ==
  ASSUME NEW p \in Address, NEW q \in Address, NEW m \in Nat, m <= Len(p), m <= Len(q)
  PROVE  Prefix(p, m) = Prefix(q, m) <=> Agree(p, q, m)
BY DEF Address, Prefix, Agree

\* The order of rows, by position.
LEMMA BeforeByPosition ==
  ASSUME NEW p \in Address, NEW q \in Address
  PROVE  /\ Under(p, q) <=> Len(p) <= Len(q) /\ Agree(p, q, Len(p))
         /\ Before(p, q) <=>
              \/ Len(p) < Len(q) /\ Agree(p, q, Len(p))
              \/ \E k \in 1 .. Len(p) : k <= Len(q) /\ Agree(p, q, k - 1) /\ p[k] < q[k]
<1>1. Under(p, q) <=> Len(p) <= Len(q) /\ Agree(p, q, Len(p))
  <2>1. Under(p, q) <=> Len(p) <= Len(q) /\ Prefix(p, Len(p)) = Prefix(q, Len(p))
    BY DEF Under, IsPrefix, Prefix
  <2>2. Len(p) \in Nat
    BY DEF Address
  <2>3. QED BY <2>1, <2>2, AgreeIsPrefix
<1>2. Under(p, q) /\ p # q <=> Len(p) < Len(q) /\ Agree(p, q, Len(p))
  BY <1>1 DEF Agree, Address
<1>3. ASSUME NEW k \in 1 .. Len(p), k <= Len(q)
      PROVE  Prefix(p, k - 1) = Prefix(q, k - 1) <=> Agree(p, q, k - 1)
  <2>1. k - 1 \in Nat /\ k - 1 <= Len(p) /\ k - 1 <= Len(q)
    BY <1>3 DEF Address
  <2>2. QED BY <2>1, AgreeIsPrefix
<1>4. QED BY <1>1, <1>2, <1>3 DEF Before

\* Of two rows one is before the other.
LEMMA BeforeIsTotal ==
  ASSUME NEW p \in Address, NEW q \in Address
  PROVE  p = q \/ Before(p, q) \/ Before(q, p)
<1> DEFINE n == IF Len(p) <= Len(q) THEN Len(p) ELSE Len(q)
           Differ == {i \in 1 .. n : p[i] # q[i]}
<1>0. n \in Nat /\ n <= Len(p) /\ n <= Len(q) /\ Len(p) \in Nat /\ Len(q) \in Nat
  BY DEF Address
<1>1. CASE Differ = {}
  <2>1. Agree(p, q, n) /\ Agree(q, p, n)
    BY <1>1 DEF Agree
  <2>2. CASE Len(p) = Len(q)
    <3>1. p = q
      BY <2>1, <2>2 DEF Agree, Address
    <3>2. QED BY <3>1
  <2>3. CASE Len(p) < Len(q)
    BY <2>1, <2>3, BeforeByPosition
  <2>4. CASE Len(q) < Len(p)
    BY <2>1, <2>4, BeforeByPosition
  <2>5. QED BY <1>0, <2>2, <2>3, <2>4
<1>2. CASE Differ # {}
  <2>1. PICK k \in Differ : \A i \in Differ : k <= i
    <3>1. Differ \subseteq Nat
      OBVIOUS
    <3> HIDE DEF Differ
    <3>2. QED BY <1>2, <3>1, Least1
  <2>2. k \in 1 .. n /\ k <= Len(p) /\ k <= Len(q) /\ p[k] # q[k] /\ p[k] \in Nat /\ q[k] \in Nat
    BY <1>0, <2>1 DEF Address
  <2>3. Agree(p, q, k - 1) /\ Agree(q, p, k - 1)
    BY <1>0, <2>1, <2>2 DEF Agree
  <2> HIDE DEF n, Differ
  <2>4. k \in 1 .. Len(p) /\ k \in 1 .. Len(q)
    BY <1>0, <2>2
  <2>5. p[k] < q[k] \/ q[k] < p[k]
    BY <2>2
  <2>6. CASE p[k] < q[k]
    BY <2>2, <2>3, <2>4, <2>6, BeforeByPosition
  <2>7. CASE q[k] < p[k]
    BY <2>2, <2>3, <2>4, <2>7, BeforeByPosition
  <2>8. QED BY <2>5, <2>6, <2>7
<1>3. QED BY <1>1, <1>2

\* No row is before itself.
LEMMA BeforeIsStrict ==
  ASSUME NEW p \in Address
  PROVE  ~Before(p, p)
<1>1. \A k \in 1 .. Len(p) : p[k] \in Nat
  BY DEF Address
<1>2. Len(p) \in Nat
  BY DEF Address
<1>3. QED BY <1>1, <1>2, BeforeByPosition

\* Where two rows part: the first is above the other, or to the front of it.
Parts(p, q, k) ==
  /\ k \in 1 .. Len(q) /\ Agree(p, q, k - 1)
  /\ \/ k = Len(p) + 1
     \/ k <= Len(p) /\ p[k] < q[k]

\* One row is before another when there is a place where they part: the tree is walked by it.
LEMMA BeforeIsParting ==
  ASSUME NEW p \in Address, NEW q \in Address
  PROVE  Before(p, q) <=> \E k \in Nat \ {0} : Parts(p, q, k)
<1>0. Len(p) \in Nat /\ Len(q) \in Nat
  BY DEF Address
<1>1. ASSUME Len(p) < Len(q) /\ Agree(p, q, Len(p)) PROVE Parts(p, q, Len(p) + 1)
  BY <1>0, <1>1 DEF Parts
<1>2. ASSUME NEW k \in 1 .. Len(p), k <= Len(q), Agree(p, q, k - 1), p[k] < q[k]
      PROVE  Parts(p, q, k)
  BY <1>0, <1>2 DEF Parts
<1>3. ASSUME NEW k \in Nat \ {0}, Parts(p, q, k)
      PROVE  \/ Len(p) < Len(q) /\ Agree(p, q, Len(p))
             \/ \E i \in 1 .. Len(p) : i <= Len(q) /\ Agree(p, q, i - 1) /\ p[i] < q[i]
  <2>1. CASE k = Len(p) + 1
    BY <1>0, <1>3, <2>1 DEF Parts
  <2>2. CASE k <= Len(p) /\ p[k] < q[k]
    BY <1>0, <1>3, <2>2 DEF Parts
  <2>3. QED BY <1>3, <2>1, <2>2 DEF Parts
<1>4. QED BY <1>0, <1>1, <1>2, <1>3, BeforeByPosition

\* The order the tree is walked in (tree.go:56) is transitive: the two places of
\* parting give the third.
LEMMA BeforeIsTransitive ==
  ASSUME NEW p \in Address, NEW q \in Address, NEW r \in Address, Before(p, q), Before(q, r)
  PROVE  Before(p, r)
<1>1. PICK j \in Nat \ {0} : Parts(p, q, j)
  BY BeforeIsParting
<1>2. PICK k \in Nat \ {0} : Parts(q, r, k)
  BY BeforeIsParting
<1>0. /\ Len(p) \in Nat /\ Len(q) \in Nat /\ Len(r) \in Nat
      /\ \A i \in 1 .. Len(p) : p[i] \in Nat
      /\ \A i \in 1 .. Len(q) : q[i] \in Nat
      /\ \A i \in 1 .. Len(r) : r[i] \in Nat
  BY DEF Address
<1>3. CASE j < k
  <2>1. Agree(p, r, j - 1) /\ r[j] = q[j] /\ j \in 1 .. Len(r)
    BY <1>0, <1>1, <1>2, <1>3 DEF Parts, Agree
  <2>2. Parts(p, r, j)
    BY <1>1, <2>1 DEF Parts
  <2>3. QED BY <2>2, BeforeIsParting
<1>4. CASE j = k
  <2>1. Agree(p, r, j - 1) /\ j \in 1 .. Len(r) /\ q[j] < r[j] /\ j \in 1 .. Len(q)
    BY <1>0, <1>1, <1>2, <1>4 DEF Parts, Agree
  <2>2. Parts(p, r, j)
    BY <1>0, <1>1, <2>1 DEF Parts
  <2>3. QED BY <2>2, BeforeIsParting
<1>5. CASE k < j
  <2>1. Agree(p, r, k - 1) /\ k \in 1 .. Len(r) /\ k <= Len(p) /\ p[k] = q[k] /\ k <= Len(q)
    BY <1>0, <1>1, <1>2, <1>5 DEF Parts, Agree
  <2>2. Parts(p, r, k)
    BY <1>0, <1>2, <2>1 DEF Parts
  <2>3. QED BY <2>2, BeforeIsParting
<1>6. QED BY <1>1, <1>2, <1>3, <1>4, <1>5

\* The rows of a set in the order of the form.
Draws(rs, S) ==
  /\ rs \in Seq(S) /\ Len(rs) = Cardinality(S)
  /\ \A x \in S : \E i \in 1 .. Len(rs) : rs[i] = x
  /\ \A i, j \in 1 .. Len(rs) : i < j => Before(rs[i], rs[j])

\* The rows of a tree, put in walking order, are drawn each once and in that order: the
\* fold of Sorted unrolled.
LEMMA SortedDraws ==
  ASSUME NEW S \in SUBSET Address, IsFiniteSet(S)
  PROVE  Draws(Sorted(S, Before), S)
<1> DEFINE R == {ss \in S \X S : Before(ss[1], ss[2])}
           rs == Sorted(S, Before)
<1>1. \A x, y \in S : <<x, y>> \in R <=> Before(x, y)
  OBVIOUS
<1>2. Orders(R, S)
  <2>1. \A x \in S : ~Before(x, x)
    BY BeforeIsStrict
  <2>2. \A x, y, z \in S : Before(x, y) /\ Before(y, z) => Before(x, z)
    BY BeforeIsTransitive
  <2>3. \A x, y \in S : x = y \/ Before(x, y) \/ Before(y, x)
    BY BeforeIsTotal
  <2> HIDE DEF R
  <2>4. QED BY <1>1, <2>1, <2>2, <2>3 DEF Orders
<1>3. \A x \in S : Below(R, S, x) = {y \in S : Before(y, x)}
  BY <1>1 DEF Below
<1>4. rs = [i \in 1 .. Cardinality(S) |->
              CHOOSE x \in S : Cardinality({y \in S : Before(y, x)}) = i - 1]
  BY DEF Sorted
<1>5. \A i : (CHOOSE x \in S : Cardinality({y \in S : Before(y, x)}) = i - 1)
               = CHOOSE x \in S : Cardinality(Below(R, S, x)) = i - 1
  BY <1>3
<1>6. rs = [i \in 1 .. Cardinality(S) |->
              CHOOSE x \in S : Cardinality(Below(R, S, x)) = i - 1]
  BY <1>4, <1>5
<1> HIDE DEF R, rs
<1>7. InOrder(rs, R, S)
  BY <1>2, <1>6, SortedIsInOrder
<1>8. \A i \in 1 .. Len(rs) : rs[i] \in S
  BY <1>7 DEF InOrder
<1>9. Draws(rs, S)
  BY <1>1, <1>7, <1>8 DEF Draws, InOrder
<1>10. QED BY <1>9 DEF rs

-----------------------------------------------------------------------------
(* Addresses. *)

\* A row that has one before it in its address.
LEMMA ParentAddress ==
  ASSUME NEW p \in Address, p # << >>
  PROVE  /\ Len(p) \in Nat /\ Len(p) > 0
         /\ Parent(p) \in Address /\ Len(Parent(p)) = Len(p) - 1
         /\ \A i \in 1 .. Len(p) - 1 : Parent(p)[i] = p[i]
         /\ Parent(p) # p /\ Last(p) \in Nat
         /\ p = Append(Parent(p), Last(p))
<1>1. p \in Seq(Nat) /\ Len(p) \in Nat /\ Len(p) > 0
  BY EmptySeq DEF Address
<1>2. \A i \in 1 .. Len(p) : p[i] \in Nat
  BY <1>1, ElementOfSeq
<1>3. \A i \in 1 .. Len(p) - 1 : p[i] \in Nat
  BY <1>1, <1>2
<1>4. /\ Parent(p) \in Seq(Nat)
      /\ Len(Parent(p)) = IF 1 <= Len(p) - 1 THEN Len(p) - 1 - 1 + 1 ELSE 0
      /\ \A i \in 1 .. Len(p) - 1 - 1 + 1 : Parent(p)[i] = p[1 + i - 1]
  <2>1. Parent(p) = SubSeq(p, 1, Len(p) - 1)
    BY DEF Parent, Front
  <2>2. Len(p) - 1 \in Int
    BY <1>1
  <2>3. QED BY <1>3, <2>1, <2>2, SubSeqProperties
<1>5. Len(Parent(p)) = Len(p) - 1
  <2>1. Len(Parent(p)) = IF 1 <= Len(p) - 1 THEN Len(p) - 1 - 1 + 1 ELSE 0
    BY <1>4
  <2> DEFINE n == Len(p)
  <2> HIDE DEF n
  <2>2. n \in Nat /\ n > 0 => (IF 1 <= n - 1 THEN n - 1 - 1 + 1 ELSE 0) = n - 1
    OBVIOUS
  <2>3. QED BY <1>1, <2>1, <2>2 DEF n
<1>6. \A i \in 1 .. Len(p) - 1 : Parent(p)[i] = p[i]
  BY <1>1, <1>4
<1>7. Last(p) \in Nat
  BY <1>1, <1>2 DEF Last
<1>8. p = Append(Parent(p), Last(p))
  <2> DEFINE a == Append(Parent(p), Last(p))
  <2>1. /\ a \in Seq(Nat) /\ Len(a) = Len(p) - 1 + 1
        /\ \A i \in 1 .. Len(p) - 1 : a[i] = Parent(p)[i]
        /\ a[Len(p) - 1 + 1] = Last(p)
    BY <1>4, <1>5, <1>7, AppendProperties
  <2> HIDE DEF a
  <2>2. \A i \in 1 .. Len(p) : p[i] = a[i]
    BY <1>1, <1>6, <2>1 DEF Last
  <2>3. Len(p) = Len(a)
    BY <1>1, <2>1
  <2>4. p = a
    BY <1>1, <2>1, <2>2, <2>3, SeqEqual
  <2>5. QED BY <2>4 DEF a
<1>9. Parent(p) # p
  BY <1>1, <1>5
<1>10. QED BY <1>1, <1>4, <1>5, <1>6, <1>7, <1>8, <1>9 DEF Address

\* An address with one position more.
LEMMA ChildAddress ==
  ASSUME NEW p \in Address, NEW k \in Nat
  PROVE  /\ Append(p, k) \in Address /\ Append(p, k) # << >> /\ Len(Append(p, k)) = Len(p) + 1
         /\ Parent(Append(p, k)) = p /\ Last(Append(p, k)) = k
<1> DEFINE a == Append(p, k)
<1>1. p \in Seq(Nat) /\ Len(p) \in Nat
  BY LenProperties DEF Address
<1>2. /\ a \in Seq(Nat) /\ a # << >> /\ Len(a) = Len(p) + 1 /\ a[Len(p) + 1] = k
      /\ \A i \in 1 .. Len(p) : a[i] = p[i]
  BY <1>1, AppendProperties
<1> HIDE DEF a
<1>3. /\ Parent(a) \in Seq(Nat) /\ Len(Parent(a)) = Len(a) - 1
      /\ \A i \in 1 .. Len(a) - 1 : Parent(a)[i] = a[i]
  BY <1>2, ParentAddress DEF Address
<1>4. Len(Parent(a)) = Len(p) /\ \A i \in 1 .. Len(Parent(a)) : Parent(a)[i] = p[i]
  BY <1>1, <1>2, <1>3
<1>5. Parent(a) = p
  BY <1>1, <1>3, <1>4, SeqEqual
<1>6. QED BY <1>2, <1>5 DEF a, Last, Address

\* The address of a row of a tree that hangs at p.
LEMMA HungAddress ==
  ASSUME NEW p \in Address, NEW r \in Address
  PROVE  /\ p \o r \in Address /\ Len(p \o r) = Len(p) + Len(r)
         /\ p \o << >> = p
         /\ SubSeq(p \o r, Len(p) + 1, Len(p \o r)) = r
         /\ r # << >> => p \o r # << >> /\ Parent(p \o r) = p \o Parent(r)
<1> DEFINE c == p \o r
<1>0. p \in Seq(Nat) /\ r \in Seq(Nat) /\ Len(p) \in Nat /\ Len(r) \in Nat
  BY LenProperties DEF Address
<1>1. /\ c \in Seq(Nat) /\ Len(c) = Len(p) + Len(r)
      /\ \A i \in 1 .. Len(p) + Len(r) : c[i] = IF i <= Len(p) THEN p[i] ELSE r[i - Len(p)]
  BY <1>0, ConcatProperties
<1>2. p \o << >> = p
  BY <1>0, ConcatEmptySeq
<1> HIDE DEF c
<1>3. SubSeq(c, Len(p) + 1, Len(c)) = r
  <2> DEFINE s == SubSeq(c, Len(p) + 1, Len(c))
  <2>1. \A i \in Len(p) + 1 .. Len(c) : c[i] \in Nat
    BY <1>0, <1>1, ElementOfSeq
  <2>2. Len(p) + 1 \in Int /\ Len(c) \in Int
    BY <1>0, <1>1
  <2>3. /\ s \in Seq(Nat)
        /\ Len(s) = IF Len(p) + 1 <= Len(c) THEN Len(c) - (Len(p) + 1) + 1 ELSE 0
        /\ \A i \in 1 .. Len(c) - (Len(p) + 1) + 1 : s[i] = c[Len(p) + 1 + i - 1]
    BY <2>1, <2>2, SubSeqProperties
  <2> HIDE DEF s
  <2>4. Len(s) = Len(r)
    BY <1>0, <1>1, <2>3
  <2>5. ASSUME NEW i \in 1 .. Len(s) PROVE s[i] = r[i]
    <3>1. i \in 1 .. Len(c) - (Len(p) + 1) + 1 /\ Len(p) + 1 + i - 1 = Len(p) + i
      BY <1>0, <1>1, <2>4
    <3>2. s[i] = c[Len(p) + i]
      BY <2>3, <3>1
    <3>3. Len(p) + i \in 1 .. Len(p) + Len(r) /\ ~(Len(p) + i <= Len(p)) /\ Len(p) + i - Len(p) = i
      BY <1>0, <2>4
    <3>4. QED BY <1>1, <3>2, <3>3
  <2>6. s = r
    BY <1>0, <2>3, <2>4, <2>5, SeqEqual
  <2>7. QED BY <2>6 DEF s
<1>4. ASSUME r # << >> PROVE c # << >> /\ Parent(c) = p \o Parent(r)
  <2>1. Len(r) > 0 /\ c # << >>
    BY <1>0, <1>1, <1>4, EmptySeq
  <2>2. /\ Parent(r) \in Seq(Nat) /\ Len(Parent(r)) = Len(r) - 1
        /\ \A i \in 1 .. Len(r) - 1 : Parent(r)[i] = r[i]
    BY <1>4, ParentAddress DEF Address
  <2>3. /\ Parent(c) \in Seq(Nat) /\ Len(Parent(c)) = Len(c) - 1
        /\ \A i \in 1 .. Len(c) - 1 : Parent(c)[i] = c[i]
    BY <1>1, <2>1, ParentAddress DEF Address
  <2> DEFINE d == p \o Parent(r)
  <2>4. /\ d \in Seq(Nat) /\ Len(d) = Len(p) + Len(Parent(r))
        /\ \A i \in 1 .. Len(p) + Len(Parent(r)) :
             d[i] = IF i <= Len(p) THEN p[i] ELSE Parent(r)[i - Len(p)]
    BY <1>0, <2>2, ConcatProperties
  <2> HIDE DEF d
  <2>5. Len(Parent(c)) = Len(d)
    BY <1>0, <1>1, <2>2, <2>3, <2>4
  <2>6. ASSUME NEW i \in 1 .. Len(Parent(c)) PROVE Parent(c)[i] = d[i]
    <3> DEFINE n == Len(p)
               m == Len(r)
    <3>1. n \in Nat /\ m \in Nat /\ Len(c) = n + m /\ Len(Parent(r)) = m - 1 /\ Len(Parent(c)) = n + m - 1
      BY <1>0, <1>1, <2>2, <2>3
    <3> HIDE DEF n, m
    <3>2. i \in 1 .. n + m - 1
      BY <3>1
    <3>3. i \in 1 .. n + m /\ i \in 1 .. n + (m - 1) /\ (i > n => i - n \in 1 .. m - 1)
      BY <3>1, <3>2
    <3>4. Parent(c)[i] = c[i]
      BY <2>3, <3>1, <3>2
    <3>5. c[i] = IF i <= n THEN p[i] ELSE r[i - n]
      BY <1>1, <3>3 DEF n, m
    <3>6. d[i] = IF i <= n THEN p[i] ELSE Parent(r)[i - n]
      BY <2>4, <3>1, <3>3 DEF n
    <3>7. i > n => Parent(r)[i - n] = r[i - n]
      BY <2>2, <3>3 DEF n, m
    <3>8. i \in Int /\ n \in Int
      BY <3>1, <3>2
    <3>9. QED BY <3>4, <3>5, <3>6, <3>7, <3>8
  <2>7. Parent(c) = d
    BY <2>3, <2>4, <2>5, <2>6, SeqEqual
  <2>8. QED BY <2>1, <2>7 DEF d
<1>5. QED BY <1>1, <1>2, <1>3, <1>4 DEF c, Address

\* One address in front of another, one position long.
LEMMA HeadAddress ==
  ASSUME NEW k \in Nat, NEW r \in Address
  PROVE  /\ <<k>> \o r \in Address /\ <<k>> \o r # << >>
         /\ (<<k>> \o r)[1] = k /\ Tail(<<k>> \o r) = r
         /\ Parent(<<k>> \o r) = IF r = << >> THEN << >> ELSE <<k>> \o Parent(r)
<1> DEFINE h == <<k>>
           c == h \o r
<1>0. h \in Address /\ Len(h) = 1 /\ h[1] = k /\ h # << >>
  BY DEF Address
<1> HIDE DEF h
<1>1. r \in Seq(Nat) /\ Len(r) \in Nat /\ h \in Seq(Nat)
  BY LenProperties, <1>0 DEF Address
<1>2. /\ c \in Seq(Nat) /\ Len(c) = 1 + Len(r)
      /\ \A i \in 1 .. 1 + Len(r) : c[i] = IF i <= 1 THEN h[i] ELSE r[i - 1]
  <2>1. /\ c \in Seq(Nat) /\ Len(c) = Len(h) + Len(r)
        /\ \A i \in 1 .. Len(h) + Len(r) : c[i] = IF i <= Len(h) THEN h[i] ELSE r[i - Len(h)]
    BY <1>1, ConcatProperties
  <2> HIDE DEF c
  <2>2. QED BY <1>0, <2>1
<1>3. SubSeq(c, 2, Len(c)) = r
  <2>1. SubSeq(c, Len(h) + 1, Len(c)) = r
    BY <1>0, HungAddress
  <2>2. QED BY <1>0, <2>1
<1>4. r # << >> => Parent(c) = h \o Parent(r)
  BY <1>0, HungAddress
<1>5. r = << >> => c = h
  BY <1>1, ConcatEmptySeq
<1>6. Parent(h) = << >>
  <2>1. Parent(h) \in Address /\ Len(Parent(h)) = Len(h) - 1
    BY <1>0, ParentAddress
  <2>2. Parent(h) \in Seq(Nat) /\ Len(Parent(h)) = 0
    BY <1>0, <2>1 DEF Address
  <2>3. QED BY <2>2, EmptySeq
<1> HIDE DEF c
<1>7. c # << >> /\ c[1] = k
  BY <1>0, <1>1, <1>2
<1>8. Tail(c) = r
  BY <1>2, <1>3, <1>7, TailIsSubSeq
<1>9. Parent(c) = IF r = << >> THEN << >> ELSE h \o Parent(r)
  BY <1>4, <1>5, <1>6
<1>10. QED BY <1>2, <1>7, <1>8, <1>9 DEF c, h, Address

-----------------------------------------------------------------------------
(* Trees. *)

\* What a rule makes of a finite set is finite.
LEMMA ImageIsFinite ==
  ASSUME NEW S, IsFiniteSet(S), NEW f, S \subseteq DOMAIN f
  PROVE  IsFiniteSet({f[x] : x \in S})
<1> DEFINE g == [x \in S |-> f[x]]
<1>1. g \in Surjection(S, {f[x] : x \in S})
  BY DEF Surjection
<1>2. QED BY <1>1, FS_Surjection

\* A descriptor of the schema, and a row made from one; V is what there is to hold.
FieldOf == {fd \in Descriptor : fd.kind = "message" => fd.type \in DOMAIN Fields}
Kinds == {"string", "int", "bool", "enum", "message", "list", "map", "oneof", "choice"}
RowWith(V) ==
  {r \in [fd : FieldOf, kind : Kinds, value : V, touched : BOOLEAN,
          present : BOOLEAN, expanded : BOOLEAN, active : Nat] :
     r.kind = "message" => r.fd.kind = "message"}

\* Addresses that are a tree: the root, and with each row the one that holds it.
Shaped(D) ==
  /\ D \in SUBSET Address /\ IsFiniteSet(D) /\ << >> \in D
  /\ \A q \in D : q # << >> => Parent(q) \in D

Trees(V) == UNION {[D -> RowWith(V)] : D \in {D \in SUBSET Address : Shaped(D)}}

\* A form's root is the request.
Forms(V) == {t \in Trees(V) : t[<< >>].kind = "message"}
SameRoot(t, u) == u[<< >>].kind = t[<< >>].kind

\* A tree, taken apart: the shape of its addresses, and a row at each.
LEMMA TreesAre ==
  ASSUME NEW V, NEW t
  PROVE  t \in Trees(V) <=> Shaped(DOMAIN t) /\ t \in [DOMAIN t -> RowWith(V)]
BY DEF Trees, Shaped

\* There is more to hold.
LEMMA TreesGrow ==
  ASSUME NEW V, NEW W, V \subseteq W, NEW t \in Trees(V)
  PROVE  t \in Trees(W)
<1>1. RowWith(V) \subseteq RowWith(W)
  BY DEF RowWith
<1>2. QED BY <1>1, TreesAre

\* What is above a row of a tree is in it, any number of rows up.
LEMMA AboveIsThere ==
  ASSUME NEW D, Shaped(D), NEW q \in D, NEW k \in 0 .. Len(q)
  PROVE  Prefix(q, k) \in D
<1> DEFINE G == {m \in Nat : m <= Len(q) => Prefix(q, Len(q) - m) \in D}
<1>0. q \in Seq(Nat) /\ q \in Address /\ Len(q) \in Nat
  BY LenProperties DEF Shaped, Address
<1>1. 0 \in G
  <2>1. Prefix(q, Len(q)) = q
    BY <1>0, SubSeqFull DEF Prefix
  <2>2. QED BY <1>0, <2>1
<1>2. ASSUME NEW m \in Nat, m \in G PROVE m + 1 \in G
  <2>1. SUFFICES ASSUME m + 1 <= Len(q) PROVE Prefix(q, Len(q) - (m + 1)) \in D
    OBVIOUS
  <2> DEFINE n == Len(q) - m
             p == Prefix(q, n)
  <2>2. n \in 1 .. Len(q) /\ Len(q) - (m + 1) = n - 1
    BY <1>0, <2>1
  <2>3. p \in D
    BY <1>0, <1>2, <2>1
  <2> HIDE DEF n
  <2>4. \A i \in 1 .. n : q[i] \in Nat
    BY <1>0, <2>2, ElementOfSeq
  <2>5. Len(p) = n /\ \A i \in 1 .. n : p[i] = q[i]
    <3>1. /\ Len(p) = (IF 1 <= n THEN n - 1 + 1 ELSE 0)
          /\ \A i \in 1 .. n - 1 + 1 : p[i] = q[1 + i - 1]
      BY <2>2, <2>4, SubSeqProperties DEF Prefix
    <3> HIDE DEF p
    <3>2. QED BY <2>2, <3>1
  <2>6. p \in Address /\ p # << >>
    BY <2>2, <2>3, <2>5, EmptySeq DEF Shaped
  <2>7. Parent(p) \in D
    BY <2>3, <2>6 DEF Shaped
  <2>8. Parent(p) = Prefix(q, n - 1)
    <3> DEFINE u == Prefix(q, n - 1)
    <3>1. /\ Parent(p) \in Seq(Nat) /\ Len(Parent(p)) = n - 1
          /\ \A i \in 1 .. n - 1 : Parent(p)[i] = p[i]
      <4> HIDE DEF p
      <4>1. QED BY <2>5, <2>6, ParentAddress DEF Address
    <3>2. \A i \in 1 .. n - 1 : q[i] \in Nat
      BY <2>2, <2>4
    <3>3. /\ u \in Seq(Nat) /\ Len(u) = (IF 1 <= n - 1 THEN n - 1 - 1 + 1 ELSE 0)
          /\ \A i \in 1 .. n - 1 - 1 + 1 : u[i] = q[1 + i - 1]
      BY <2>2, <3>2, SubSeqProperties DEF Prefix
    <3> HIDE DEF p, u
    <3>4. Len(u) = n - 1
      BY <2>2, <3>3
    <3>5. \A i \in 1 .. n - 1 : u[i] = q[i]
      BY <2>2, <3>3
    <3>6. \A i \in 1 .. n - 1 : p[i] = q[i]
      BY <2>2, <2>5
    <3>7. Parent(p) = u
      BY <3>1, <3>3, <3>4, <3>5, <3>6, SeqEqual
    <3>8. QED BY <3>7 DEF u
  <2>9. QED BY <2>2, <2>7, <2>8
<1>3. Nat \subseteq G
  <2>1. \A m \in Nat : m \in G => m + 1 \in G
    BY <1>2
  <2> HIDE DEF G
  <2>2. QED BY <1>1, <2>1, Inductive
<1>4. Len(q) - k \in Nat /\ Len(q) - k <= Len(q) /\ Len(q) - (Len(q) - k) = k
  BY <1>0
<1>5. QED BY <1>3, <1>4

\* A new row.
LEMMA NewRowIsRow ==
  ASSUME NEW V, Blank \in V, NEW fd \in FieldOf, NEW kind \in Kinds,
         kind = "message" => fd.kind = "message"
  PROVE  NewRow(fd, kind) \in RowWith(V)
BY DEF NewRow, RowWith, Kinds

\* What is no field of a message is described like one.
LEMMA NoFieldIsField == NoField \in FieldOf
BY DEF NoField, Field, FieldOf, Descriptor, Name

\* A row that is no field: a value of an enum, or the picker of a oneof.
LEMMA NoFieldIsRow ==
  ASSUME NEW V, Blank \in V
  PROVE  NewRow(NoField, "choice") \in RowWith(V) /\ NewRow(NoField, "oneof") \in RowWith(V)
<1>1. NoField \in FieldOf
  BY NoFieldIsField
<1>2. "choice" \in Kinds /\ "choice" # "message" /\ "oneof" \in Kinds /\ "oneof" # "message"
  BY DEF Kinds
<1>3. QED BY <1>1, <1>2, NewRowIsRow

\* A tree of one row.
LEMMA AloneIsTree ==
  ASSUME NEW V, NEW row \in RowWith(V)
  PROVE  Alone(row) \in Trees(V)
<1>1. << >> \in Address
  BY EmptySeq DEF Address
<1>2. Shaped({<< >>})
  BY <1>1, FS_Singleton DEF Shaped
<1>3. QED BY <1>2, TreesAre DEF Alone

\* Another row in the place of one.
LEMMA EditIsTree ==
  ASSUME NEW V, NEW t \in Trees(V), NEW p \in DOMAIN t, NEW row \in RowWith(V),
         NEW u, u = [t EXCEPT ![p] = row]
  PROVE  u \in Trees(V) /\ DOMAIN u = DOMAIN t /\ (row.kind = t[p].kind => SameRoot(t, u))
<1>1. Shaped(DOMAIN t) /\ t \in [DOMAIN t -> RowWith(V)]
  BY TreesAre
<1>2. DOMAIN u = DOMAIN t /\ u \in [DOMAIN t -> RowWith(V)]
  BY <1>1
<1>3. u \in Trees(V)
  BY <1>1, <1>2, TreesAre
<1>4. << >> \in DOMAIN t
  BY <1>1 DEF Shaped
<1>5. row.kind = t[p].kind => SameRoot(t, u)
  BY <1>2, <1>4 DEF SameRoot
<1>6. QED BY <1>2, <1>3, <1>5

\* Trees under a row are a tree.
LEMMA OverIsTree ==
  ASSUME NEW V, NEW row \in RowWith(V), NEW K \in SUBSET Nat, IsFiniteSet(K),
         NEW subs, DOMAIN subs = K, \A k \in K : subs[k] \in Trees(V)
  PROVE  Over(row, subs) \in Trees(V) /\ Over(row, subs)[<< >>] = row
<1> DEFINE Hangs(k) == {<<k>> \o r : r \in DOMAIN subs[k]}
           U == UNION {Hangs(k) : k \in K}
           D == {<< >>} \union U
           o == Over(row, subs)
<1>1. ASSUME NEW k \in K PROVE Shaped(DOMAIN subs[k]) /\ subs[k] \in [DOMAIN subs[k] -> RowWith(V)]
  BY TreesAre
<1>2. ASSUME NEW q \in U
      PROVE  \E k \in K : \E r \in DOMAIN subs[k] : q = <<k>> \o r
  OBVIOUS
<1>3. ASSUME NEW k \in K, NEW r \in DOMAIN subs[k]
      PROVE  /\ <<k>> \o r \in U /\ <<k>> \o r \in Address /\ <<k>> \o r # << >>
             /\ (<<k>> \o r)[1] = k /\ Tail(<<k>> \o r) = r
             /\ Parent(<<k>> \o r) = IF r = << >> THEN << >> ELSE <<k>> \o Parent(r)
  <2>1. r \in Address /\ k \in Nat
    BY <1>1 DEF Shaped
  <2>2. <<k>> \o r \in Hangs(k)
    OBVIOUS
  <2>3. <<k>> \o r \in U
    BY <2>2
  <2> HIDE DEF U
  <2>4. QED BY <2>1, <2>3, HeadAddress
<1>4. IsFiniteSet(U)
  <2>1. ASSUME NEW k \in K PROVE IsFiniteSet(Hangs(k))
    <3> DEFINE f == [r \in DOMAIN subs[k] |-> <<k>> \o r]
    <3>1. IsFiniteSet({f[r] : r \in DOMAIN subs[k]})
      BY <1>1, ImageIsFinite DEF Shaped
    <3>2. {f[r] : r \in DOMAIN subs[k]} = Hangs(k)
      OBVIOUS
    <3>3. QED BY <3>1, <3>2
  <2> DEFINE g == [h \in K |-> {<<h>> \o r : r \in DOMAIN subs[h]}]
             T == {g[h] : h \in K}
  <2>2. IsFiniteSet(T)
    BY ImageIsFinite
  <2>3. \A h \in K : IsFiniteSet(g[h])
    BY <2>1
  <2>4. U = UNION T
    OBVIOUS
  <2>5. \A X \in T : IsFiniteSet(X)
    BY <2>3
  <2> HIDE DEF T
  <2>6. QED BY <2>2, <2>4, <2>5, FS_UNION
<1>5. o = [q \in D |-> IF q = << >> THEN row ELSE subs[q[1]][Tail(q)]]
  BY DEF Over
<1> HIDE DEF U, o
<1>6. Shaped(D)
  <2>1. << >> \in Address
    BY EmptySeq DEF Address
  <2>2. D \in SUBSET Address
    <3>1. ASSUME NEW q \in U PROVE q \in Address
      <4>1. PICK k \in K : \E r \in DOMAIN subs[k] : q = <<k>> \o r
        BY <1>2
      <4>2. PICK r \in DOMAIN subs[k] : q = <<k>> \o r
        BY <4>1
      <4>3. QED BY <1>3, <4>2
    <3>2. QED BY <2>1, <3>1
  <2>3. IsFiniteSet(D)
    BY <1>4, FS_Union, FS_Singleton
  <2>4. ASSUME NEW q \in D, q # << >> PROVE Parent(q) \in D
    <3>1. q \in U
      BY <2>4
    <3>20. PICK k \in K : \E r \in DOMAIN subs[k] : q = <<k>> \o r
      BY <1>2, <3>1
    <3>2. PICK r \in DOMAIN subs[k] : q = <<k>> \o r
      BY <3>20
    <3>3. Parent(q) = IF r = << >> THEN << >> ELSE <<k>> \o Parent(r)
      BY <1>3, <3>2
    <3>4. r # << >> => Parent(r) \in DOMAIN subs[k]
      BY <1>1 DEF Shaped
    <3>5. r # << >> => <<k>> \o Parent(r) \in U
      BY <1>3, <3>4
    <3>6. QED BY <3>3, <3>5
  <2>5. QED BY <2>2, <2>3, <2>4 DEF Shaped
<1>7. DOMAIN o = D /\ o[<< >>] = row
  BY <1>5
<1>8. ASSUME NEW q \in D PROVE o[q] \in RowWith(V)
  <2>1. CASE q = << >>
    BY <1>7, <2>1
  <2>2. CASE q # << >>
    <3>10. PICK k \in K : \E r \in DOMAIN subs[k] : q = <<k>> \o r
      BY <1>2, <2>2
    <3>1. PICK r \in DOMAIN subs[k] : q = <<k>> \o r
      BY <3>10
    <3>2. q[1] = k /\ Tail(q) = r
      BY <1>3, <3>1
    <3>3. o[q] = subs[k][r]
      BY <1>5, <2>2, <3>2
    <3>4. QED BY <1>1, <3>3
  <2>3. QED BY <2>1, <2>2
<1>9. o \in [DOMAIN o -> RowWith(V)]
  BY <1>5, <1>7, <1>8
<1>10. o \in Trees(V)
  BY <1>6, <1>7, <1>9, TreesAre
<1>11. QED BY <1>7, <1>10 DEF o

\* A tree hung into a tree, under a row of it: what was there stays.
LEMMA GraftIsTree ==
  ASSUME NEW V, NEW t \in Trees(V), NEW s \in Trees(V), NEW p \in Address,
         p = << >> \/ Parent(p) \in DOMAIN t
  PROVE  LET g == Graft(t, p, s) IN
         /\ g \in Trees(V) /\ DOMAIN t \subseteq DOMAIN g /\ p \in DOMAIN g
         /\ \A q \in DOMAIN t : g[q] = t[q]
         /\ SameRoot(t, g)
         /\ \A q \in DOMAIN g : q \in DOMAIN t \/ \E r \in DOMAIN s : q = p \o r
<1> DEFINE Hung == {p \o r : r \in DOMAIN s}
           D == DOMAIN t \union Hung
           g == Graft(t, p, s)
<1>1. /\ Shaped(DOMAIN t) /\ t \in [DOMAIN t -> RowWith(V)]
      /\ Shaped(DOMAIN s) /\ s \in [DOMAIN s -> RowWith(V)]
  BY TreesAre
<1>2. ASSUME NEW r \in DOMAIN s
      PROVE  /\ p \o r \in Address /\ SubSeq(p \o r, Len(p) + 1, Len(p \o r)) = r
             /\ r = << >> => p \o r = p
             /\ r # << >> => Parent(p \o r) = p \o Parent(r) /\ Parent(r) \in DOMAIN s
  <2>1. r \in Address
    BY <1>1 DEF Shaped
  <2>2. r # << >> => Parent(r) \in DOMAIN s
    BY <1>1 DEF Shaped
  <2>3. QED BY <2>1, <2>2, HungAddress
<1>3. g = [q \in D |-> IF q \in DOMAIN t THEN t[q] ELSE s[SubSeq(q, Len(p) + 1, Len(q))]]
  BY DEF Graft
<1> HIDE DEF g
<1>4. Shaped(D)
  <2>1. IsFiniteSet(Hung)
    <3> DEFINE f == [r \in DOMAIN s |-> p \o r]
    <3>1. IsFiniteSet({f[r] : r \in DOMAIN s})
      BY <1>1, ImageIsFinite DEF Shaped
    <3>2. {f[r] : r \in DOMAIN s} = Hung
      OBVIOUS
    <3>3. QED BY <3>1, <3>2
  <2>2. IsFiniteSet(D)
    BY <1>1, <2>1, FS_Union DEF Shaped
  <2>3. D \in SUBSET Address /\ << >> \in D
    BY <1>1, <1>2 DEF Shaped
  <2>4. ASSUME NEW q \in D, q # << >> PROVE Parent(q) \in D
    <3>1. CASE q \in DOMAIN t
      BY <1>1, <2>4, <3>1 DEF Shaped
    <3>2. CASE q \in Hung
      <4>1. PICK r \in DOMAIN s : q = p \o r
        BY <3>2
      <4>2. CASE r = << >>
        BY <1>2, <2>4, <4>1, <4>2
      <4>3. CASE r # << >>
        BY <1>2, <4>1, <4>3
      <4>4. QED BY <4>2, <4>3
    <3>3. QED BY <3>1, <3>2
  <2>5. QED BY <2>2, <2>3, <2>4 DEF Shaped
<1>5. ASSUME NEW q \in D PROVE g[q] \in RowWith(V)
  <2>1. CASE q \in DOMAIN t
    BY <1>1, <1>3, <2>1
  <2>2. CASE q \notin DOMAIN t
    <3>1. PICK r \in DOMAIN s : q = p \o r
      BY <2>2
    <3>2. g[q] = s[r]
      BY <1>2, <1>3, <2>2, <3>1
    <3>3. QED BY <1>1, <3>2
  <2>3. QED BY <2>1, <2>2
<1>6. DOMAIN g = D /\ g \in [D -> RowWith(V)]
  BY <1>3, <1>5
<1>7. g \in Trees(V)
  BY <1>4, <1>6, TreesAre
<1>8. p \in D
  <2>1. << >> \in DOMAIN s
    BY <1>1 DEF Shaped
  <2>2. p \o << >> = p
    BY <1>2, <2>1
  <2>3. QED BY <2>1, <2>2
<1>9. \A q \in DOMAIN t : g[q] = t[q]
  BY <1>3
<1>10. SameRoot(t, g)
  BY <1>1, <1>9 DEF Shaped, SameRoot
<1>11. QED BY <1>6, <1>7, <1>8, <1>9, <1>10 DEF g

\* Numbers in order.
LEMMA SortedNumbers ==
  ASSUME NEW S \in SUBSET Nat, IsFiniteSet(S)
  PROVE  /\ DOMAIN Sorted(S, <) = 1 .. Cardinality(S) /\ Cardinality(S) \in Nat
         /\ \A i \in DOMAIN Sorted(S, <) : Sorted(S, <)[i] \in S
<1> DEFINE R == {ss \in S \X S : ss[1] < ss[2]}
           rs == [i \in 1 .. Cardinality(S) |->
                    CHOOSE x \in S : Cardinality({y \in S : y < x}) = i - 1]
<1>1. \A x, y \in S : <<x, y>> \in R <=> x < y
  OBVIOUS
<1>2. Orders(R, S)
  BY <1>1 DEF Orders
<1>3. \A x \in S : Below(R, S, x) = {y \in S : y < x}
  BY <1>1 DEF Below
<1>4. \A i : (CHOOSE x \in S : Cardinality({y \in S : y < x}) = i - 1)
               = CHOOSE x \in S : Cardinality(Below(R, S, x)) = i - 1
  BY <1>3
<1>5. rs = [i \in 1 .. Cardinality(S) |->
              CHOOSE x \in S : Cardinality(Below(R, S, x)) = i - 1]
  <2> DEFINE at(i) == CHOOSE x \in S : Cardinality({y \in S : y < x}) = i - 1
             in(i) == CHOOSE x \in S : Cardinality(Below(R, S, x)) = i - 1
  <2>1. \A i : at(i) = in(i)
    BY <1>4
  <2> HIDE DEF at, in
  <2>2. [i \in 1 .. Cardinality(S) |-> at(i)] = [i \in 1 .. Cardinality(S) |-> in(i)]
    BY <2>1
  <2>3. QED BY <2>2 DEF at, in
<1>6. Sorted(S, <) = rs
  BY DEF Sorted
<1>7. Cardinality(S) \in Nat /\ DOMAIN rs = 1 .. Cardinality(S)
  BY FS_CardinalityType
<1> HIDE DEF R, rs
<1>8. InOrder(rs, R, S)
  BY <1>2, <1>5, SortedIsInOrder
<1>9. rs \in Seq(S)
  BY <1>8 DEF InOrder
<1>10. \A i \in 1 .. Cardinality(S) : rs[i] \in S
  BY <1>7, <1>9
<1>11. QED BY <1>6, <1>7, <1>10

\* A field's rows: it, and what an enum is chosen from.
LEMMA NewFieldIsTree ==
  ASSUME NEW V, Blank \in V, NEW fd \in FieldOf
  PROVE  NewField(fd) \in Trees(V)
<1> DEFINE kind == IF fd.label = "one" THEN fd.kind ELSE fd.label
           choices == IF kind = "enum" THEN DOMAIN EnumNames ELSE {}
           subs == [i \in choices |-> Alone(NewRow(NoField, "choice"))]
<1>1. kind \in Kinds /\ (kind = "message" => fd.kind = "message")
  BY DEF FieldOf, Descriptor, Kinds
<1>2. choices \in SUBSET Nat /\ IsFiniteSet(choices)
  <2>1. EnumNames \in Seq(STRING)
    BY FormAssumption
  <2>2. Len(EnumNames) \in Nat /\ DOMAIN EnumNames = 1 .. Len(EnumNames)
    BY <2>1
  <2>3. IsFiniteSet(1 .. Len(EnumNames))
    BY <2>2, FS_Interval
  <2>4. QED BY <2>2, <2>3, FS_EmptySet
<1>3. Alone(NewRow(NoField, "choice")) \in Trees(V)
  <2>1. NewRow(NoField, "choice") \in RowWith(V)
    BY NoFieldIsRow
  <2>2. QED BY <2>1, AloneIsTree
<1> HIDE DEF kind, choices
<1>4. NewRow(fd, kind) \in RowWith(V)
  BY <1>1, NewRowIsRow
<1>5. DOMAIN subs = choices /\ \A i \in choices : subs[i] \in Trees(V)
  BY <1>3
<1> HIDE DEF subs
<1>6. Over(NewRow(fd, kind), subs) \in Trees(V)
  BY <1>2, <1>4, <1>5, OverIsTree
<1>7. NewField(fd) = Over(NewRow(fd, kind), subs)
  BY DEF NewField, kind, choices, subs
<1>8. QED BY <1>6, <1>7

\* The schema's own descriptors.
LEMMA FieldsOfAreFields ==
  ASSUME NEW type \in DOMAIN Fields
  PROVE  /\ Len(Fields[type]) \in Nat /\ DOMAIN Fields[type] = 1 .. Len(Fields[type])
         /\ \A i \in DOMAIN Fields[type] : Fields[type][i] \in FieldOf
         /\ Field(Blank, "one", "message", type, FALSE, FALSE, Blank) \in FieldOf
<1>1. Fields[type] \in Seq(Descriptor)
  BY FormAssumption
<1>2. Len(Fields[type]) \in Nat /\ DOMAIN Fields[type] = 1 .. Len(Fields[type])
  BY <1>1
<1>3. ASSUME NEW i \in DOMAIN Fields[type] PROVE Fields[type][i] \in FieldOf
  <2>1. Fields[type][i] \in Descriptor
    BY <1>1, <1>2
  <2>2. Fields[type][i].kind = "message" => Fields[type][i].type \in DOMAIN Fields
    BY FormAssumption
  <2>3. QED BY <2>1, <2>2 DEF FieldOf
<1>4. type \in Name
  BY FormAssumption DEF Name
<1>5. Field(Blank, "one", "message", type, FALSE, FALSE, Blank) \in FieldOf
  BY <1>4 DEF Field, FieldOf, Descriptor, Name
<1>6. QED BY <1>2, <1>3, <1>5

\* A message opened: its fields, the members of a oneof under their picker.
LEMMA NewChildrenIsTree ==
  ASSUME NEW V, Blank \in V, NEW type \in DOMAIN Fields
  PROVE  NewChildren[type] \in Forms(V)
<1> DEFINE fs == Fields[type]
           Group(i) == IF fs[i].oneof = Blank THEN {i}
                       ELSE {j \in DOMAIN fs : fs[j].oneof = fs[i].oneof}
           first == {i \in DOMAIN fs : \A j \in Group(i) : i <= j}
           opens == Sorted(first, <)
           members(i) == Sorted(Group(i), <)
           under(i) == [v \in DOMAIN members(i) |-> NewField(fs[members(i)[v]])]
           Hung(i) == IF fs[i].oneof = Blank THEN NewField(fs[i])
                      ELSE Over(NewRow(NoField, "oneof"), under(i))
           subs == [k \in DOMAIN opens |-> Hung(opens[k])]
           root == Field(Blank, "one", "message", type, FALSE, FALSE, Blank)
<1>1. /\ Len(fs) \in Nat /\ DOMAIN fs = 1 .. Len(fs)
      /\ \A i \in DOMAIN fs : fs[i] \in FieldOf
      /\ root \in FieldOf
  BY FieldsOfAreFields
<1>2. NewChildren[type] = Over(NewRow(root, "message"), subs)
  BY DEF NewChildren
<1>3. ASSUME NEW S \in SUBSET DOMAIN fs PROVE S \in SUBSET Nat /\ IsFiniteSet(S)
  <2>1. IsFiniteSet(1 .. Len(fs))
    BY <1>1, FS_Interval
  <2>2. QED BY <1>1, <2>1, FS_Subset
<1>4. ASSUME NEW i \in DOMAIN fs PROVE Hung(i) \in Trees(V)
  <2>1. fs[i].oneof = Blank => Hung(i) \in Trees(V)
    BY <1>1, NewFieldIsTree
  <2>2. Group(i) \in SUBSET DOMAIN fs
    OBVIOUS
  <2>3. NewRow(NoField, "oneof") \in RowWith(V)
    BY NoFieldIsRow
  <2> DEFINE ms == members(i)
             u == under(i)
             G == Group(i)
  <2>4. u = [v \in DOMAIN ms |-> NewField(fs[ms[v]])]
    OBVIOUS
  <2>5. Hung(i) = IF fs[i].oneof = Blank THEN NewField(fs[i])
                  ELSE Over(NewRow(NoField, "oneof"), u)
    OBVIOUS
  <2>6. ms = Sorted(G, <) /\ G \in SUBSET DOMAIN fs
    OBVIOUS
  <2> HIDE DEF Group, Hung, members, under, fs, G, ms, u
  <2>7. G \in SUBSET Nat /\ IsFiniteSet(G)
    BY <1>3, <2>6
  <2>8. DOMAIN ms = 1 .. Cardinality(G) /\ Cardinality(G) \in Nat /\ \A v \in DOMAIN ms : ms[v] \in G
    BY <2>6, <2>7, SortedNumbers
  <2>9. \A v \in DOMAIN ms : NewField(fs[ms[v]]) \in Trees(V)
    BY <1>1, <2>6, <2>8, NewFieldIsTree
  <2>10. DOMAIN u = DOMAIN ms /\ \A v \in DOMAIN ms : u[v] \in Trees(V)
    BY <2>4, <2>9
  <2>11. DOMAIN ms \in SUBSET Nat /\ IsFiniteSet(DOMAIN ms)
    BY <2>8, FS_Interval
  <2>12. Over(NewRow(NoField, "oneof"), u) \in Trees(V)
    BY <2>3, <2>10, <2>11, OverIsTree
  <2>13. QED BY <2>1, <2>5, <2>12
<1>5. first \in SUBSET DOMAIN fs
  OBVIOUS
<1> HIDE DEF Hung, first, fs, root
<1>6. first \in SUBSET Nat /\ IsFiniteSet(first)
  BY <1>3, <1>5
<1>7. /\ DOMAIN opens = 1 .. Cardinality(first) /\ Cardinality(first) \in Nat
      /\ \A k \in DOMAIN opens : opens[k] \in first
  BY <1>6, SortedNumbers
<1> HIDE DEF opens
<1>8. DOMAIN subs = DOMAIN opens /\ \A k \in DOMAIN opens : subs[k] \in Trees(V)
  BY <1>4, <1>5, <1>7
<1> HIDE DEF subs
<1>9. DOMAIN opens \in SUBSET Nat /\ IsFiniteSet(DOMAIN opens)
  BY <1>7, FS_Interval
<1>10. NewRow(root, "message") \in RowWith(V)
  <2>1. root.kind = "message" /\ "message" \in Kinds
    BY DEF root, Field, Kinds
  <2>2. QED BY <1>1, <2>1, NewRowIsRow
<1>11. /\ Over(NewRow(root, "message"), subs) \in Trees(V)
       /\ Over(NewRow(root, "message"), subs)[<< >>] = NewRow(root, "message")
  BY <1>8, <1>9, <1>10, OverIsTree
<1>12. NewRow(root, "message").kind = "message"
  BY DEF NewRow
<1>13. QED BY <1>2, <1>11, <1>12 DEF Forms

\* An item of a list, opened if it is a message.
LEMMA NewItemIsTree ==
  ASSUME NEW V, Blank \in V, NEW fd \in FieldOf
  PROVE  NewItem(fd) \in Trees(V)
<1>1. CASE fd.kind = "message"
  <2> DEFINE t == NewChildren[fd.type]
             row == [NewRow(fd, "message") EXCEPT !.expanded = TRUE]
  <2>1. t \in Trees(V)
    BY <1>1, NewChildrenIsTree DEF FieldOf, Forms
  <2>2. << >> \in DOMAIN t
    BY <2>1, TreesAre DEF Shaped
  <2>3. row \in RowWith(V)
    <3>1. NewRow(fd, "message") \in RowWith(V)
      BY <1>1, NewRowIsRow DEF Kinds
    <3>2. QED BY <3>1 DEF RowWith
  <2>4. NewItem(fd) = [t EXCEPT ![<< >>] = row]
    BY <1>1 DEF NewItem
  <2> HIDE DEF t, row
  <2>5. QED BY <2>1, <2>2, <2>3, <2>4, EditIsTree
<1>2. CASE fd.kind # "message"
  <2>1. [fd EXCEPT !.label = "one"] \in FieldOf
    BY <1>2 DEF FieldOf, Descriptor
  <2>2. NewItem(fd) = NewField([fd EXCEPT !.label = "one"])
    BY <1>2 DEF NewItem
  <2>3. QED BY <2>1, <2>2, NewFieldIsTree
<1>3. QED BY <1>1, <1>2

-----------------------------------------------------------------------------
(* The edits keep the form a tree. *)

\* Typing into a row, there or not: no row comes or goes, and none is folded.
LEMMA SetValueIsTree ==
  ASSUME NEW V, NEW t \in Trees(V), NEW p, NEW text \in V, IsVariant(t, p) => Last(p) \in Nat
  PROVE  LET u == SetValue(t, p, text) IN
         /\ u \in Trees(V) /\ DOMAIN u = DOMAIN t /\ SameRoot(t, u)
         /\ \A q \in DOMAIN t : u[q].expanded = t[q].expanded /\ u[q].kind = t[q].kind
<1> DEFINE typed == [t EXCEPT ![p].value = text, ![p].touched = TRUE]
           u == SetValue(t, p, text)
<1>1. Shaped(DOMAIN t) /\ t \in [DOMAIN t -> RowWith(V)]
  BY TreesAre
<1>2. DOMAIN typed = DOMAIN t
  OBVIOUS
<1>3. ASSUME NEW q \in DOMAIN t
      PROVE  /\ typed[q] \in RowWith(V) /\ typed[q].expanded = t[q].expanded
             /\ typed[q].kind = t[q].kind
  <2>1. t[q] \in RowWith(V)
    BY <1>1
  <2>2. typed[q] = IF q = p THEN [t[q] EXCEPT !.value = text, !.touched = TRUE] ELSE t[q]
    OBVIOUS
  <2>3. [t[q] EXCEPT !.value = text, !.touched = TRUE] \in RowWith(V)
    BY <2>1 DEF RowWith
  <2>4. /\ [t[q] EXCEPT !.value = text, !.touched = TRUE].expanded = t[q].expanded
        /\ [t[q] EXCEPT !.value = text, !.touched = TRUE].kind = t[q].kind
    BY <2>1 DEF RowWith
  <2> HIDE DEF typed
  <2>5. QED BY <2>1, <2>2, <2>3, <2>4
<1> HIDE DEF typed
<1>4. u = IF IsVariant(t, p) THEN [typed EXCEPT ![Parent(p)].active = Last(p)] ELSE typed
  BY DEF SetValue, typed
<1>5. DOMAIN u = DOMAIN t
  BY <1>2, <1>4
<1>6. ASSUME NEW q \in DOMAIN t
      PROVE  u[q] \in RowWith(V) /\ u[q].expanded = t[q].expanded /\ u[q].kind = t[q].kind
  <2> DEFINE r == [typed[q] EXCEPT !.active = Last(p)]
  <2>1. u[q] = IF IsVariant(t, p) /\ q = Parent(p) THEN r ELSE typed[q]
    BY <1>2, <1>4
  <2>2. IsVariant(t, p)
          => r \in RowWith(V) /\ r.expanded = typed[q].expanded /\ r.kind = typed[q].kind
    BY <1>3 DEF RowWith
  <2> HIDE DEF r, u
  <2>3. QED BY <1>3, <2>1, <2>2
<1>7. u = [q \in DOMAIN t |-> u[q]]
  BY <1>4, <1>5 DEF typed
<1> HIDE DEF u
<1>8. u \in [DOMAIN t -> RowWith(V)]
  BY <1>6, <1>7
<1>9. u \in Trees(V)
  BY <1>1, <1>5, <1>8, TreesAre
<1>10. SameRoot(t, u)
  <2>1. << >> \in DOMAIN t
    BY <1>1 DEF Shaped
  <2>2. QED BY <1>6, <2>1 DEF SameRoot
<1>11. QED BY <1>5, <1>6, <1>9, <1>10 DEF u

\* The rows of a message come below it, and nothing else does.
LEMMA EnsureChildrenIsTree ==
  ASSUME NEW V, Blank \in V, NEW t \in Trees(V), NEW p \in DOMAIN t
  PROVE  LET u == EnsureChildren(t, p) IN
         u \in Trees(V) /\ DOMAIN t \subseteq DOMAIN u /\ SameRoot(t, u)
<1>1. Shaped(DOMAIN t) /\ t[p] \in RowWith(V)
  BY TreesAre
<1>2. p \in Address /\ (p = << >> \/ Parent(p) \in DOMAIN t)
  BY <1>1 DEF Shaped
<1>3. CASE t[p].kind = "message"
  <2>1. t[p].fd.type \in DOMAIN Fields
    BY <1>1, <1>3 DEF RowWith, FieldOf
  <2> DEFINE s == NewChildren[t[p].fd.type]
  <2>2. s \in Trees(V)
    BY <2>1, NewChildrenIsTree DEF Forms
  <2>3. EnsureChildren(t, p) = Graft(t, p, s)
    BY <1>3 DEF EnsureChildren
  <2> HIDE DEF s
  <2>4. QED BY <1>2, <2>2, <2>3, GraftIsTree
<1>4. CASE t[p].kind # "message"
  BY <1>4 DEF EnsureChildren, SameRoot
<1>5. QED BY <1>3, <1>4

\* Folding and unfolding.
LEMMA SetExpandedIsTree ==
  ASSUME NEW V, Blank \in V, NEW t \in Trees(V), NEW p \in DOMAIN t, NEW expanded \in BOOLEAN
  PROVE  SetExpanded(t, p, expanded) \in Trees(V) /\ SameRoot(t, SetExpanded(t, p, expanded))
<1> DEFINE shown == IF expanded THEN EnsureChildren(t, p) ELSE t
           row == [shown[p] EXCEPT !.expanded = expanded]
<1>1. shown \in Trees(V) /\ p \in DOMAIN shown /\ SameRoot(t, shown)
  BY EnsureChildrenIsTree DEF SameRoot
<1>2. SetExpanded(t, p, expanded) = [shown EXCEPT ![p] = row]
  BY DEF SetExpanded
<1> HIDE DEF shown
<1>3. row \in RowWith(V) /\ row.kind = shown[p].kind
  <2>1. shown[p] \in RowWith(V)
    BY <1>1, TreesAre
  <2>2. QED BY <2>1 DEF RowWith
<1> HIDE DEF row
<1>4. SetExpanded(t, p, expanded) \in Trees(V) /\ SameRoot(shown, SetExpanded(t, p, expanded))
  BY <1>1, <1>2, <1>3, EditIsTree
<1>5. QED BY <1>1, <1>4 DEF SameRoot

\* Picking a variant.
LEMMA PickIsTree ==
  ASSUME NEW V, NEW t \in Trees(V), NEW p \in DOMAIN t, p # << >>
  PROVE  Pick(t, p) \in Trees(V) /\ DOMAIN Pick(t, p) = DOMAIN t /\ SameRoot(t, Pick(t, p))
<1>1. p \in Address /\ Parent(p) \in DOMAIN t
  BY TreesAre DEF Shaped
<1>2. Last(p) \in Nat
  BY <1>1, ParentAddress
<1> DEFINE row == [t[Parent(p)] EXCEPT !.active = Last(p)]
<1>3. row \in RowWith(V) /\ row.kind = t[Parent(p)].kind
  <2>1. t[Parent(p)] \in RowWith(V)
    BY <1>1, TreesAre
  <2>2. QED BY <1>2, <2>1 DEF RowWith
<1>4. Pick(t, p) = [t EXCEPT ![Parent(p)] = row]
  BY DEF Pick
<1> HIDE DEF row
<1>5. QED BY <1>1, <1>3, <1>4, EditIsTree

\* The space bar; an enum's value and a boolean's are among what can be held.
LEMMA ToggleIsTree ==
  ASSUME NEW V, NEW t \in Trees(V), NEW p \in DOMAIN t, p # << >>,
         "true" \in V, "false" \in V, EnumNames[Last(p)] \in V
  PROVE  Toggle(t, p) \in Trees(V) /\ SameRoot(t, Toggle(t, p))
<1>1. /\ p \in Address /\ Parent(p) \in DOMAIN t /\ Parent(p) \in Address
      /\ \A q \in Address : q # << >> => Last(q) \in Nat
  BY TreesAre, ParentAddress DEF Shaped
<1>2. CASE t[p].kind = "choice"
  <2> DEFINE u == SetValue(t, Parent(p), EnumNames[Last(p)])
             row == [u[Parent(p)] EXCEPT !.expanded = FALSE]
  <2>1. u \in Trees(V) /\ DOMAIN u = DOMAIN t /\ SameRoot(t, u)
    BY <1>1, SetValueIsTree DEF IsVariant
  <2>2. Toggle(t, p) = [u EXCEPT ![Parent(p)] = row]
    <3>1. t[p].kind # "bool" /\ t[p].kind # "message"
      BY <1>2
    <3>2. Toggle(t, p) = [u EXCEPT ![Parent(p)].expanded = FALSE]
      BY <1>2, <3>1 DEF Toggle
    <3> HIDE DEF u
    <3>3. QED BY <3>2
  <2> HIDE DEF u
  <2>3. row \in RowWith(V) /\ row.kind = u[Parent(p)].kind
    <3>1. u[Parent(p)] \in RowWith(V)
      BY <1>1, <2>1, TreesAre
    <3>2. QED BY <3>1 DEF RowWith
  <2> HIDE DEF row
  <2>4. Toggle(t, p) \in Trees(V) /\ SameRoot(u, Toggle(t, p))
    BY <1>1, <2>1, <2>2, <2>3, EditIsTree
  <2>5. QED BY <2>1, <2>4 DEF SameRoot
<1>3. CASE t[p].kind = "bool"
  <2>1. (IF t[p].value = "true" THEN "false" ELSE "true") \in V
    OBVIOUS
  <2>2. Toggle(t, p) = SetValue(t, p, IF t[p].value = "true" THEN "false" ELSE "true")
    BY <1>3 DEF Toggle
  <2>3. QED BY <1>1, <2>1, <2>2, SetValueIsTree
<1>4. CASE t[p].kind # "choice" /\ t[p].kind # "bool" /\ IsVariant(t, p)
  <2>1. Toggle(t, p) = Pick(t, p)
    BY <1>4 DEF Toggle
  <2>2. QED BY <2>1, PickIsTree
<1>5. CASE t[p].kind = "message" /\ ~IsVariant(t, p)
  <2> DEFINE row == [t[p] EXCEPT !.present = ~@]
  <2>1. row \in RowWith(V) /\ row.kind = t[p].kind
    <3>1. t[p] \in RowWith(V)
      BY TreesAre
    <3>2. QED BY <3>1 DEF RowWith
  <2>2. Toggle(t, p) = [t EXCEPT ![p] = row]
    BY <1>5 DEF Toggle
  <2> HIDE DEF row
  <2>3. QED BY <2>1, <2>2, EditIsTree
<1>6. CASE /\ t[p].kind # "choice" /\ t[p].kind # "bool" /\ t[p].kind # "message"
           /\ ~IsVariant(t, p)
  BY <1>6 DEF Toggle, SameRoot
<1>7. QED BY <1>2, <1>3, <1>4, <1>5, <1>6

\* An item more.
LEMMA AddItemIsTree ==
  ASSUME NEW V, Blank \in V, NEW t \in Trees(V), NEW p \in DOMAIN t
  PROVE  LET u == AddItem(t, p) IN
         u \in Trees(V) /\ DOMAIN t \subseteq DOMAIN u /\ SameRoot(t, u)
<1> DEFINE next == Cardinality(Children(t, p)) + 1
           item == NewItem(t[p].fd)
           g == Graft(t, Append(p, next), item)
           row == [g[p] EXCEPT !.expanded = TRUE]
<1>1. Shaped(DOMAIN t) /\ t[p] \in RowWith(V)
  BY TreesAre
<1>2. p \in Address /\ IsFiniteSet(DOMAIN t)
  BY <1>1 DEF Shaped
<1>3. next \in Nat
  <2>1. Children(t, p) \in SUBSET DOMAIN t
    BY DEF Children
  <2>2. Cardinality(Children(t, p)) \in Nat
    BY <1>2, <2>1, FS_Subset, FS_CardinalityType
  <2>3. QED BY <2>2
<1>4. t[p].fd \in FieldOf
  BY <1>1 DEF RowWith
<1>5. item \in Trees(V)
  BY <1>4, NewItemIsTree
<1> HIDE DEF next, item
<1>6. Append(p, next) \in Address /\ Parent(Append(p, next)) = p
  BY <1>2, <1>3, ChildAddress
<1>7. g \in Trees(V) /\ DOMAIN t \subseteq DOMAIN g /\ SameRoot(t, g)
  BY <1>5, <1>6, GraftIsTree
<1>8. AddItem(t, p) = [g EXCEPT ![p] = row]
  BY DEF AddItem, next, item
<1> HIDE DEF g
<1>9. row \in RowWith(V) /\ row.kind = g[p].kind
  <2>1. g[p] \in RowWith(V)
    BY <1>7, TreesAre
  <2>2. QED BY <2>1 DEF RowWith
<1> HIDE DEF row
<1>10. /\ AddItem(t, p) \in Trees(V) /\ DOMAIN AddItem(t, p) = DOMAIN g
       /\ SameRoot(g, AddItem(t, p))
  BY <1>7, <1>8, <1>9, EditIsTree
<1>11. QED BY <1>7, <1>10 DEF SameRoot

\* An address with another position at one level.
Shifted(q, d, k) == [q EXCEPT ![d] = k]

\* What closing the gap of a removed entry does to one address: only the index of the
\* entry changes, and the parent changes with it.
LEMMA ShiftedAddress ==
  ASSUME NEW q \in Address, NEW d \in 1 .. Len(q), NEW k \in Nat
  PROVE  LET s == Shifted(q, d, k) IN
         /\ s \in Address /\ Len(s) = Len(q) /\ s # << >> /\ s[d] = k
         /\ \A i \in 1 .. Len(q) : i # d => s[i] = q[i]
         /\ Parent(s) = IF Len(q) = d THEN Parent(q) ELSE Shifted(Parent(q), d, k)
<1> DEFINE s == Shifted(q, d, k)
<1>1. q \in Seq(Nat) /\ Len(q) \in Nat /\ DOMAIN q = 1 .. Len(q) /\ \A i \in 1 .. Len(q) : q[i] \in Nat
  BY DEF Address
<1>2. /\ s \in Seq(Nat) /\ Len(s) = Len(q) /\ s[d] = k
      /\ \A i \in 1 .. Len(q) : i # d => s[i] = q[i]
  BY <1>1 DEF Shifted
<1> HIDE DEF s
<1>3. s # << >> /\ q # << >>
  BY <1>1, <1>2, EmptySeq
<1>4. /\ Parent(s) \in Seq(Nat) /\ Len(Parent(s)) = Len(q) - 1
      /\ \A i \in 1 .. Len(q) - 1 : Parent(s)[i] = s[i]
  BY <1>2, <1>3, ParentAddress DEF Address
<1>5. /\ Parent(q) \in Seq(Nat) /\ Len(Parent(q)) = Len(q) - 1
      /\ \A i \in 1 .. Len(q) - 1 : Parent(q)[i] = q[i]
  BY <1>1, <1>3, ParentAddress DEF Address
<1> DEFINE u == IF Len(q) = d THEN Parent(q) ELSE Shifted(Parent(q), d, k)
<1>6. u \in Seq(Nat) /\ Len(u) = Len(q) - 1 /\ \A i \in 1 .. Len(q) - 1 : u[i] = s[i]
  <2>1. CASE Len(q) = d
    BY <1>1, <1>2, <1>5, <2>1
  <2>2. CASE Len(q) # d
    <3> DEFINE v == Shifted(Parent(q), d, k)
    <3>0. d <= Len(q) - 1
      <4> DEFINE n == Len(q)
      <4>1. n \in Nat /\ d \in 1 .. n /\ n # d
        BY <1>1, <2>2
      <4> HIDE DEF n
      <4>2. d <= n - 1
        BY <4>1
      <4>3. QED BY <4>2 DEF n
    <3>1. d \in 1 .. Len(Parent(q)) /\ DOMAIN Parent(q) = 1 .. Len(Parent(q))
      BY <1>1, <1>5, <3>0
    <3>2. v \in Seq(Nat) /\ Len(v) = Len(Parent(q))
      BY <1>5, <3>1 DEF Shifted
    <3>3. \A i \in 1 .. Len(Parent(q)) : v[i] = IF i = d THEN k ELSE Parent(q)[i]
      BY <3>1 DEF Shifted
    <3> HIDE DEF v
    <3>4. \A i \in 1 .. Len(q) - 1 : v[i] = s[i]
      <4>1. \A i \in 1 .. Len(q) - 1 : i \in 1 .. Len(q) /\ i \in 1 .. Len(Parent(q))
        BY <1>1, <1>5
      <4>2. QED BY <1>2, <1>5, <3>3, <4>1
    <3>5. QED BY <1>5, <2>2, <3>2, <3>4 DEF v
  <2>3. QED BY <2>1, <2>2
<1> HIDE DEF u
<1>7. Parent(s) = u
  BY <1>4, <1>6, SeqEqual
<1>8. QED BY <1>2, <1>3, <1>7 DEF u, s, Address

\* An item less: the ones behind it, and what they hold, move up.
LEMMA RemoveItemIsTree ==
  ASSUME NEW V, NEW t \in Trees(V), NEW p \in DOMAIN t, p # << >>
  PROVE  RemoveItem(t, p) \in Trees(V) /\ SameRoot(t, RemoveItem(t, p))
<1> DEFINE d == Len(p)
           Behind(q) == Len(q) >= d /\ Prefix(q, d - 1) = Parent(p) /\ q[d] > p[d]
           Moved(q) == IF Behind(q) THEN Shifted(q, d, q[d] - 1) ELSE q
           Was(q) == IF Under(p, q) \/ Behind(q) THEN Shifted(q, d, q[d] + 1) ELSE q
           Stays == {r \in DOMAIN t : ~Under(p, r)}
           D == {Moved(r) : r \in Stays}
           u == RemoveItem(t, p)
<1>1. Shaped(DOMAIN t) /\ t \in [DOMAIN t -> RowWith(V)]
  BY TreesAre
<1>2. /\ p \in Address /\ d \in Nat /\ d > 0
      /\ Parent(p) \in Address /\ Len(Parent(p)) = d - 1
      /\ \A i \in 1 .. d - 1 : Parent(p)[i] = p[i]
      /\ p[d] \in Nat
  <2>1. p \in Address
    BY <1>1 DEF Shaped
  <2>2. QED BY <2>1, ParentAddress DEF Last
<1>3. ASSUME NEW q \in Address
      PROVE  /\ Behind(q) <=> Len(q) >= d /\ Agree(p, q, d - 1) /\ q[d] > p[d]
             /\ Under(p, q) <=> Len(q) >= d /\ Agree(p, q, d - 1) /\ q[d] = p[d]
  <2>1. Len(q) \in Nat /\ (Len(q) >= d => q[d] \in Nat)
    BY <1>2 DEF Address
  <2>2. Under(p, q) <=> d <= Len(q) /\ Agree(p, q, d)
    BY <1>2, BeforeByPosition
  <2>3. Agree(p, q, d) <=> Agree(p, q, d - 1) /\ p[d] = q[d]
    BY <1>2 DEF Agree
  <2>4. Parent(p) = Prefix(p, d - 1)
    BY DEF Parent, Front, Prefix
  <2>5. d <= Len(q) => (Prefix(p, d - 1) = Prefix(q, d - 1) <=> Agree(p, q, d - 1))
    <3>1. d <= Len(q) => d - 1 \in Nat /\ d - 1 <= Len(p) /\ d - 1 <= Len(q)
      BY <1>2, <2>1
    <3>2. QED BY <1>2, <3>1, AgreeIsPrefix
  <2>6. QED BY <1>2, <2>1, <2>2, <2>3, <2>4, <2>5
<1>4. u = [q \in D |-> t[Was(q)]]
  BY DEF RemoveItem, Shifted
<1>5. ASSUME NEW r \in DOMAIN t PROVE r \in Address /\ Len(r) \in Nat
  BY <1>1 DEF Shaped, Address
<1> HIDE DEF Behind, u, d
<1>6. ASSUME NEW r \in Stays, Behind(r)
      PROVE  /\ Len(r) >= d /\ Agree(p, r, d - 1) /\ r[d] > p[d] /\ r[d] \in Nat
             /\ Moved(r) \in Address /\ Len(Moved(r)) = Len(r) /\ Moved(r)[d] = r[d] - 1
             /\ Moved(r) = Shifted(r, d, r[d] - 1) /\ Moved(r) # << >>
             /\ \A i \in 1 .. Len(r) : i # d => Moved(r)[i] = r[i]
             /\ Parent(Moved(r)) = IF Len(r) = d THEN Parent(r) ELSE Shifted(Parent(r), d, r[d] - 1)
  <2>1. r \in Address /\ Len(r) \in Nat /\ Len(r) >= d /\ Agree(p, r, d - 1) /\ r[d] > p[d]
    BY <1>3, <1>5, <1>6
  <2>2. d \in 1 .. Len(r) /\ r[d] \in Nat
    <3>1. d \in 1 .. Len(r)
      BY <1>2, <2>1
    <3>2. QED BY <2>1, <3>1 DEF Address
  <2>3. r[d] - 1 \in Nat
    BY <1>2, <2>1, <2>2
  <2>4. Moved(r) = Shifted(r, d, r[d] - 1)
    BY <1>6
  <2> DEFINE m == Moved(r)
             k == r[d] - 1
  <2>5. m = Shifted(r, d, k) /\ k \in Nat
    BY <2>3, <2>4
  <2> HIDE DEF Moved, m, k
  <2>6. /\ m \in Address /\ Len(m) = Len(r) /\ m # << >> /\ m[d] = k
        /\ \A i \in 1 .. Len(r) : i # d => m[i] = r[i]
        /\ Parent(m) = IF Len(r) = d THEN Parent(r) ELSE Shifted(Parent(r), d, k)
    BY <2>1, <2>2, <2>5, ShiftedAddress
  <2>7. QED BY <2>1, <2>2, <2>4, <2>6 DEF m, k
<1>7. ASSUME NEW r \in Stays, ~Behind(r) PROVE Moved(r) = r /\ Was(r) = r
  BY <1>7
<1>8. ASSUME NEW r \in Stays PROVE Moved(r) \in Address /\ Was(Moved(r)) = r
  <2>1. CASE ~Behind(r)
    BY <1>5, <1>7, <2>1
  <2>2. CASE Behind(r)
    <3> DEFINE m == Moved(r)
    <3>1. /\ m \in Address /\ Len(m) = Len(r) /\ m[d] = r[d] - 1 /\ m = Shifted(r, d, r[d] - 1)
          /\ Len(r) >= d /\ Agree(p, r, d - 1) /\ r[d] > p[d] /\ r[d] \in Nat
          /\ \A i \in 1 .. Len(r) : i # d => m[i] = r[i]
      BY <1>6, <2>2
    <3> HIDE DEF m
    <3>2. Agree(p, m, d - 1)
      <4>1. \A i \in 1 .. d - 1 : i \in 1 .. Len(r) /\ i # d
        BY <1>2, <1>5, <3>1
      <4>2. QED BY <3>1, <4>1 DEF Agree
    <3>3. m[d] >= p[d]
      BY <1>2, <3>1
    <3>4. Under(p, m) \/ Behind(m)
      <4>1. /\ Behind(m) <=> Len(m) >= d /\ Agree(p, m, d - 1) /\ m[d] > p[d]
            /\ Under(p, m) <=> Len(m) >= d /\ Agree(p, m, d - 1) /\ m[d] = p[d]
        BY <1>3, <3>1
      <4>2. m[d] = p[d] \/ m[d] > p[d]
        BY <1>2, <3>1, <3>3
      <4>3. Len(m) >= d
        BY <3>1
      <4>4. QED BY <3>2, <4>1, <4>2, <4>3
    <3>5. Was(m) = Shifted(m, d, m[d] + 1)
      BY <3>4
    <3> HIDE DEF Was
    <3>6. Shifted(m, d, m[d] + 1) = r
      <4>1. r \in Seq(Nat) /\ DOMAIN r = 1 .. Len(r) /\ d \in 1 .. Len(r)
        BY <1>2, <1>5, <3>1 DEF Address
      <4>2. r[d] - 1 + 1 = r[d]
        BY <3>1
      <4>3. r = [i \in DOMAIN r |-> r[i]]
        BY <4>1
      <4>4. QED BY <3>1, <4>1, <4>2, <4>3 DEF Shifted
    <3>7. QED BY <3>1, <3>5, <3>6 DEF m
  <2>3. QED BY <2>1, <2>2
<1>9. ASSUME NEW r \in Stays, r # << >>
      PROVE  Moved(r) # << >> /\ Parent(Moved(r)) \in D
  <2> DEFINE o == Parent(r)
  <2>1. /\ r \in Address /\ Len(r) \in Nat /\ Len(r) > 0
        /\ o \in DOMAIN t /\ o \in Address /\ Len(o) = Len(r) - 1
        /\ \A i \in 1 .. Len(r) - 1 : o[i] = r[i]
    BY <1>1, <1>5, <1>9, ParentAddress DEF Shaped
  <2> HIDE DEF o
  <2>2. d <= Len(o) => d \in 1 .. Len(r) - 1 /\ o[d] = r[d] /\ (Agree(p, o, d - 1) <=> Agree(p, r, d - 1))
    <3>1. ASSUME d <= Len(o) PROVE d \in 1 .. Len(r) - 1 /\ \A i \in 1 .. d - 1 : i \in 1 .. Len(r) - 1
      BY <1>2, <2>1, <3>1
    <3>2. QED BY <2>1, <3>1 DEF Agree
  <2>3. ~Under(p, r)
    OBVIOUS
  <2>4. o \in Stays
    <3>1. Under(p, o) => Under(p, r)
      BY <1>2, <1>3, <2>1, <2>2
    <3>2. QED BY <2>1, <2>3, <3>1
  <2>5. CASE ~Behind(r)
    <3>1. Behind(o) => Behind(r)
      BY <1>2, <1>3, <2>1, <2>2
    <3>2. Moved(o) = o /\ Moved(r) = r
      BY <1>7, <2>4, <2>5, <3>1
    <3> HIDE DEF Moved
    <3>3. QED BY <1>9, <2>4, <3>2 DEF o
  <2>6. CASE Behind(r)
    <3>1. /\ Moved(r) # << >> /\ Len(r) >= d /\ Agree(p, r, d - 1) /\ r[d] > p[d]
          /\ Parent(Moved(r)) = IF Len(r) = d THEN o ELSE Shifted(o, d, r[d] - 1)
      BY <1>6, <2>6 DEF o
    <3>2. CASE Len(r) = d
      <4>1. ~Behind(o)
        BY <1>2, <1>3, <2>1, <3>2
      <4>2. Moved(o) = o
        BY <1>7, <2>4, <4>1
      <4> HIDE DEF Moved
      <4>3. QED BY <2>4, <3>1, <3>2, <4>2
    <3>3. CASE Len(r) # d
      <4>1. d <= Len(o)
        BY <1>2, <2>1, <3>1, <3>3
      <4>2. Behind(o) /\ o[d] = r[d]
        BY <1>3, <2>1, <2>2, <3>1, <4>1
      <4>3. Moved(o) = Shifted(o, d, r[d] - 1)
        BY <4>2
      <4> HIDE DEF Moved
      <4>4. QED BY <2>4, <3>1, <3>3, <4>3
    <3>4. QED BY <3>2, <3>3
  <2>7. QED BY <2>5, <2>6
<1>10. << >> \in Stays /\ Moved(<< >>) = << >>
  <2>1. << >> \in DOMAIN t /\ << >> \in Address /\ Len(<< >>) = 0
    BY <1>1, EmptySeq DEF Shaped
  <2>2. ~Under(p, << >>) /\ ~Behind(<< >>)
    BY <1>2, <1>3, <2>1
  <2>3. QED BY <2>1, <2>2
<1>11. IsFiniteSet(D)
  <2> HIDE DEF Moved
  <2> DEFINE f == [r \in Stays |-> Moved(r)]
  <2>1. IsFiniteSet(Stays)
    <3>1. Stays \in SUBSET DOMAIN t
      OBVIOUS
    <3>2. QED BY <1>1, <3>1, FS_Subset DEF Shaped
  <2>2. IsFiniteSet({f[r] : r \in Stays})
    BY <2>1, ImageIsFinite
  <2>3. {f[r] : r \in Stays} = D
    OBVIOUS
  <2>4. QED BY <2>2, <2>3
<1>12. \A q \in D : \E r \in Stays : q = Moved(r)
  OBVIOUS
<1>13. \A r \in Stays : Moved(r) \in D
  OBVIOUS
<1> HIDE DEF Moved, Was, D
<1>14. Shaped(D)
  <2>1. D \in SUBSET Address /\ << >> \in D
    BY <1>8, <1>10, <1>12, <1>13
  <2>2. ASSUME NEW q \in D, q # << >> PROVE Parent(q) \in D
    <3>1. PICK r \in Stays : q = Moved(r)
      BY <1>12
    <3>2. r # << >>
      BY <1>10, <2>2, <3>1
    <3>3. QED BY <1>9, <3>1, <3>2
  <2>3. QED BY <1>11, <2>1, <2>2 DEF Shaped
<1>15. ASSUME NEW q \in D PROVE t[Was(q)] \in RowWith(V)
  <2>1. PICK r \in Stays : q = Moved(r)
    BY <1>12
  <2>2. Was(q) = r /\ r \in DOMAIN t
    BY <1>8, <2>1
  <2>3. QED BY <1>1, <2>2
<1>16. DOMAIN u = D /\ u \in [D -> RowWith(V)]
  BY <1>4, <1>15
<1>17. u \in Trees(V)
  BY <1>14, <1>16, TreesAre
<1>18. SameRoot(t, u)
  <2>1. << >> \in D /\ Was(<< >>) = << >>
    BY <1>8, <1>10, <1>13
  <2>2. QED BY <1>4, <2>1 DEF SameRoot
<1>19. QED BY <1>17, <1>18 DEF u

-----------------------------------------------------------------------------
(* Loading a message back gives a form. *)

\* A walk whose every step stays in a set stays in it.
LEMMA RuleStays ==
  ASSUME NEW S, NEW N \in Nat, NEW step \in [(1 .. N) \X S -> S], NEW g, g[0] \in S,
         \A n \in 1 .. N : g[n - 1] \in S => g[n] = step[<<n, g[n - 1]>>]
  PROVE  \A n \in 0 .. N : g[n] \in S
<1> DEFINE G == {n \in Nat : n <= N => g[n] \in S}
<1>1. 0 \in G
  OBVIOUS
<1>2. ASSUME NEW n \in Nat, n \in G PROVE n + 1 \in G
  <2>1. SUFFICES ASSUME n + 1 <= N PROVE g[n + 1] \in S
    OBVIOUS
  <2>2. n + 1 \in 1 .. N /\ n + 1 - 1 = n /\ g[n] \in S
    BY <1>2, <2>1
  <2>3. g[n + 1] = step[<<n + 1, g[n]>>]
    BY <2>2
  <2>4. QED BY <2>2, <2>3
<1>3. \A n \in Nat : n \in G => n + 1 \in G
  BY <1>2
<1> HIDE DEF G
<1>4. Nat \subseteq G
  BY <1>1, <1>3, Inductive
<1>5. QED BY <1>4 DEF G

\* A list that has grown.
LEMMA GrownIsTree ==
  ASSUME NEW V, Blank \in V, NEW t \in Forms(V), NEW p \in DOMAIN t, NEW n \in Nat
  PROVE  Grown(t, p, n) \in Forms(V)
<1> DEFINE has == Cardinality(Children(t, p))
           N == n - has
           S == {u \in Forms(V) : p \in DOMAIN u}
           step == [x \in (1 .. N) \X S |-> AddItem(x[2], p)]
           Up(f) == [k \in 0 .. N |-> IF k = 0 THEN t ELSE AddItem(f[k - 1], p)]
           g == CHOOSE f : f = Up(f)
<1>1. Grown(t, p, n) = IF n <= has THEN t ELSE g[N]
  BY DEF Grown
<1>2. has \in Nat
  <2>1. IsFiniteSet(DOMAIN t) /\ Children(t, p) \in SUBSET DOMAIN t
    BY TreesAre DEF Shaped, Children, Forms
  <2>2. QED BY <2>1, FS_Subset, FS_CardinalityType
<1>3. CASE n <= has
  BY <1>1, <1>3
<1>4. CASE ~(n <= has)
  <2>1. N \in Nat /\ t \in S
    BY <1>2, <1>4
  <2> HIDE DEF N, has
  <2>2. \A u \in S : AddItem(u, p) \in S
    BY AddItemIsTree DEF Forms, SameRoot
  <2>3. step \in [(1 .. N) \X S -> S]
    <3> HIDE DEF S
    <3>1. QED BY <2>2
  <2>4. \A k \in 1 .. N : \A u \in S : step[<<k, u>>] = AddItem(u, p)
    <3> HIDE DEF S
    <3>1. QED OBVIOUS
  <2> HIDE DEF step, S
  <2>5. PICK f : Recurs(f, S, t, N, step)
    BY <2>1, <2>3, Recursion
  <2>6. f = Up(f)
    <3>1. /\ f \in [0 .. N -> S] /\ f[0] = t
          /\ \A k \in 1 .. N : f[k] = step[<<k, f[k - 1]>>]
      BY <2>5 DEF Recurs
    <3>2. ASSUME NEW k \in 0 .. N PROVE f[k] = IF k = 0 THEN t ELSE AddItem(f[k - 1], p)
      <4>1. CASE k = 0
        BY <3>1, <4>1
      <4>2. CASE k # 0
        <5>1. k \in 1 .. N /\ k - 1 \in 0 .. N
          BY <2>1, <4>2
        <5>2. f[k - 1] \in S /\ f[k] = step[<<k, f[k - 1]>>]
          BY <3>1, <5>1
        <5>3. QED BY <2>4, <4>2, <5>1, <5>2
      <4>3. QED BY <4>1, <4>2
    <3>3. f = [k \in 0 .. N |-> f[k]]
      BY <3>1
    <3>4. QED BY <3>2, <3>3
  <2>7. g = Up(g)
    <3> HIDE DEF Up
    <3>1. QED BY <2>6
  <2> HIDE DEF g
  <2>8. g[0] = t /\ \A k \in 1 .. N : g[k] = AddItem(g[k - 1], p)
    <3>1. \A k \in 0 .. N : g[k] = IF k = 0 THEN t ELSE AddItem(g[k - 1], p)
      BY <2>7
    <3>2. 0 \in 0 .. N /\ \A k \in 1 .. N : k \in 0 .. N /\ k # 0
      BY <2>1
    <3>3. QED BY <3>1, <3>2
  <2>9. \A k \in 0 .. N : g[k] \in S
    <3>1. g[0] \in S /\ \A k \in 1 .. N : g[k - 1] \in S => g[k] = step[<<k, g[k - 1]>>]
      BY <2>1, <2>4, <2>8
    <3>2. QED BY <2>1, <2>3, <3>1, RuleStays
  <2>10. g[N] \in S
    BY <2>1, <2>9
  <2>11. QED BY <1>1, <1>4, <2>10 DEF S
<1>5. QED BY <1>3, <1>4

\* An address cut short.
LEMMA PrefixAddress ==
  ASSUME NEW p \in Address, NEW k \in 1 .. Len(p)
  PROVE  Prefix(p, k) \in Address /\ Prefix(p, k) # << >>
<1>1. p \in Seq(Nat) /\ \A i \in 1 .. Len(p) : p[i] \in Nat
  BY ElementOfSeq DEF Address
<1>2. k \in Int /\ \A i \in 1 .. k : p[i] \in Nat
  <2>1. Len(p) \in Nat
    BY <1>1
  <2>2. \A i \in 1 .. k : i \in 1 .. Len(p)
    BY <2>1
  <2>3. QED BY <1>1, <2>2
<1>3. Prefix(p, k) \in Seq(Nat) /\ Len(Prefix(p, k)) = IF 1 <= k THEN k - 1 + 1 ELSE 0
  BY <1>2, SubSeqProperties DEF Prefix
<1>4. Len(Prefix(p, k)) # 0
  BY <1>3
<1>5. QED BY <1>3, <1>4, EmptySeq DEF Address

\* One step down towards a row.
LEMMA OpenedIsTree ==
  ASSUME NEW V, Blank \in V, NEW t \in Forms(V), NEW q \in Address, q # << >>
  PROVE  Opened(t, q) \in Forms(V)
<1> DEFINE above == EnsureChildren(t, Parent(q))
<1>1. CASE Parent(q) \notin DOMAIN t
  BY <1>1 DEF Opened
<1>2. CASE Parent(q) \in DOMAIN t
  <2>1. above \in Forms(V) /\ Parent(q) \in DOMAIN above
    BY <1>2, EnsureChildrenIsTree DEF Forms, SameRoot
  <2>2. Opened(t, q) = IF Repeated(above[Parent(q)]) THEN Grown(above, Parent(q), Last(q)) ELSE above
    BY <1>2 DEF Opened
  <2>3. Last(q) \in Nat
    BY ParentAddress
  <2> HIDE DEF above
  <2>4. Grown(above, Parent(q), Last(q)) \in Forms(V)
    BY <2>1, <2>3, GrownIsTree
  <2>5. QED BY <2>1, <2>2, <2>4
<1>3. QED BY <1>1, <1>2

\* The way to a row.
LEMMA ReachIsTree ==
  ASSUME NEW V, Blank \in V, NEW t \in Forms(V), NEW p \in Address
  PROVE  Reach(t, p) \in Forms(V)
<1> DEFINE N == Len(p)
           S == Forms(V)
           step == [x \in (1 .. N) \X S |-> Opened(x[2], Prefix(p, x[1]))]
           Up(f) == [k \in 0 .. N |-> IF k = 0 THEN t ELSE Opened(f[k - 1], Prefix(p, k))]
           g == CHOOSE f : f = Up(f)
<1>1. Reach(t, p) = g[N]
  BY DEF Reach
<1>2. N \in Nat
  BY DEF Address
<1>3. \A k \in 1 .. N : \A u \in S : Opened(u, Prefix(p, k)) \in S
  BY PrefixAddress, OpenedIsTree
<1> HIDE DEF N
<1>4. step \in [(1 .. N) \X S -> S]
  <2> HIDE DEF S
  <2>1. QED BY <1>3
<1>5. \A k \in 1 .. N : \A u \in S : step[<<k, u>>] = Opened(u, Prefix(p, k))
  <2> HIDE DEF S
  <2>1. QED OBVIOUS
<1> HIDE DEF step
<1>6. PICK f : Recurs(f, S, t, N, step)
  BY <1>2, <1>4, Recursion
<1>7. f = Up(f)
  <2>1. /\ f \in [0 .. N -> S] /\ f[0] = t
        /\ \A k \in 1 .. N : f[k] = step[<<k, f[k - 1]>>]
    BY <1>6 DEF Recurs
  <2>2. ASSUME NEW k \in 0 .. N PROVE f[k] = IF k = 0 THEN t ELSE Opened(f[k - 1], Prefix(p, k))
    <3>1. CASE k = 0
      BY <2>1, <3>1
    <3>2. CASE k # 0
      <4>1. k \in 1 .. N /\ k - 1 \in 0 .. N
        BY <1>2, <3>2
      <4>2. f[k - 1] \in S /\ f[k] = step[<<k, f[k - 1]>>]
        BY <2>1, <4>1
      <4>3. QED BY <1>5, <3>2, <4>1, <4>2
    <3>3. QED BY <3>1, <3>2
  <2>3. f = [k \in 0 .. N |-> f[k]]
    BY <2>1
  <2>4. QED BY <2>2, <2>3
<1>8. g = Up(g)
  <2> HIDE DEF Up
  <2>1. QED BY <1>7
<1> HIDE DEF g
<1>9. g[0] = t /\ \A k \in 1 .. N : g[k] = Opened(g[k - 1], Prefix(p, k))
  <2>1. \A k \in 0 .. N : g[k] = IF k = 0 THEN t ELSE Opened(g[k - 1], Prefix(p, k))
    BY <1>8
  <2>2. 0 \in 0 .. N /\ \A k \in 1 .. N : k \in 0 .. N /\ k # 0
    BY <1>2
  <2>3. QED BY <2>1, <2>2
<1>10. \A k \in 0 .. N : g[k] \in S
  <2>1. g[0] \in S /\ \A k \in 1 .. N : g[k - 1] \in S => g[k] = step[<<k, g[k - 1]>>]
    BY <1>5, <1>9
  <2>2. QED BY <1>2, <1>4, <2>1, RuleStays
<1>11. QED BY <1>1, <1>2, <1>10

\* An item met on the way is added, with its key if it is an entry.
LEMMA MeetIsTree ==
  ASSUME NEW V, Blank \in V, NEW t \in Forms(V), NEW x, KeyText(x.key) \in V
  PROVE  Meet(t, x) \in Forms(V)
<1> DEFINE list == Parent(x.at)
           entered == AddItem(t, Parent(list))
<1>1. CASE x.at \in DOMAIN t
  BY <1>1 DEF Meet
<1>2. CASE x.at \notin DOMAIN t /\ list \in DOMAIN t
  <2>1. Meet(t, x) = AddItem(t, list)
    BY <1>2 DEF Meet
  <2> HIDE DEF list
  <2>2. QED BY <1>2, <2>1, AddItemIsTree DEF Forms, SameRoot
<1>3. CASE /\ x.at \notin DOMAIN t /\ list \notin DOMAIN t
           /\ Parent(list) \in DOMAIN t /\ list \in DOMAIN entered
  <2>1. Meet(t, x) = SetValue(entered, Append(list, 1), KeyText(x.key))
    BY <1>3 DEF Meet
  <2> HIDE DEF list
  <2>2. entered \in Forms(V)
    BY <1>3, AddItemIsTree DEF Forms, SameRoot
  <2> HIDE DEF entered
  <2>3. list \in Address
    BY <1>3, <2>2, TreesAre DEF Shaped, Forms
  <2>4. 1 \in Nat
    OBVIOUS
  <2>5. Last(Append(list, 1)) \in Nat
    BY <2>3, <2>4, ChildAddress
  <2>6. QED BY <2>1, <2>2, <2>5, SetValueIsTree DEF Forms, SameRoot
<1>4. CASE /\ x.at \notin DOMAIN t /\ list \notin DOMAIN t
           /\ ~(Parent(list) \in DOMAIN t /\ list \in DOMAIN entered)
  BY <1>4 DEF Meet
<1>5. QED BY <1>1, <1>2, <1>3, <1>4

\* What a row is given by a message.
LEMMA FillIsTree ==
  ASSUME NEW V, Blank \in V, NEW t \in Forms(V), NEW p \in DOMAIN t, NEW content \in V
  PROVE  Fill(t, p, content) \in Forms(V)
<1>1. p \in Address /\ (p # << >> => Last(p) \in Nat)
  <2>1. p \in Address
    BY TreesAre DEF Shaped, Forms
  <2>2. QED BY <2>1, ParentAddress
<1>2. CASE t[p].kind # "message"
  <2>1. Fill(t, p, content) = SetValue(t, p, content)
    BY <1>2 DEF Fill
  <2>2. IsVariant(t, p) => Last(p) \in Nat
    BY <1>1 DEF IsVariant
  <2>3. QED BY <2>1, <2>2, SetValueIsTree DEF Forms, SameRoot
<1>3. CASE t[p].kind = "message"
  <2> DEFINE picked == IF IsVariant(t, p) THEN Pick(t, p) ELSE t
             u == EnsureChildren(picked, p)
             present == u[p].present \/ ~(IsItem(t, p) \/ IsEntry(t, Parent(p)))
             row == [u[p] EXCEPT !.present = present]
  <2>1. picked \in Forms(V) /\ p \in DOMAIN picked
    BY PickIsTree DEF IsVariant, Forms, SameRoot
  <2>2. Fill(t, p, content) = [u EXCEPT ![p] = row]
    BY <1>3 DEF Fill
  <2>3. present \in BOOLEAN
    OBVIOUS
  <2> HIDE DEF picked
  <2>4. u \in Forms(V) /\ p \in DOMAIN u
    BY <2>1, EnsureChildrenIsTree DEF Forms, SameRoot
  <2> HIDE DEF u, present
  <2>5. row \in RowWith(V) /\ row.kind = u[p].kind
    <3>1. u[p] \in RowWith(V)
      BY <2>4, TreesAre DEF Forms
    <3>2. QED BY <2>3, <3>1 DEF RowWith
  <2> HIDE DEF row
  <2>6. u \in Trees(V)
    BY <2>4 DEF Forms
  <2>7. Fill(t, p, content) \in Trees(V) /\ SameRoot(u, Fill(t, p, content))
    BY <2>2, <2>4, <2>5, <2>6, EditIsTree
  <2>8. QED BY <2>4, <2>7 DEF Forms, SameRoot
<1>4. QED BY <1>2, <1>3

\* One row of a message.
LEMMA LoadRowIsTree ==
  ASSUME NEW V, Blank \in V, NEW t \in Forms(V), NEW x, KeyText(x.key) \in V, x.content \in V
  PROVE  LoadRow(t, x) \in Forms(V)
<1>1. Meet(t, x) \in Forms(V)
  BY MeetIsTree
<1>2. CASE x.at \in DOMAIN Meet(t, x)
  <2>1. LoadRow(t, x) = Fill(Meet(t, x), x.at, x.content)
    BY <1>2 DEF LoadRow
  <2>2. QED BY <1>1, <1>2, <2>1, FillIsTree
<1>3. CASE x.at \notin DOMAIN Meet(t, x)
  BY <1>1, <1>3 DEF LoadRow
<1>4. QED BY <1>2, <1>3

\* The walk over a message ends.
LEMMA WalkEnds ==
  ASSUME NEW m, IsFiniteSet(m), NEW order
  PROVE  Len(Walk(m, order)) \in Nat
<1> DEFINE Rank(step) == CHOOSE i \in DOMAIN order : order[i] = step
           Keys(w, k) == {v[1][k] : v \in {v \in m : Len(v[1]) >= k
                                             /\ Prefix(v[1], k - 1) = Prefix(w, k - 1)}}
           At(w) == [k \in DOMAIN w |->
                       IF w[k] > 0 THEN w[k]
                       ELSE Cardinality({s \in Keys(w, k) : Rank(s) <= Rank(w[k])})]
           Row(w) == [at |-> At(w[1]), content |-> w[2],
                      key |-> IF Len(w[1]) > 1 THEN w[1][Len(w[1]) - 1] ELSE 0]
           S == {Row(w) : w \in m}
<1>1. Walk(m, order) = Sorted(S, LAMBDA x, y : Before(x.at, y.at))
  BY DEF Walk
<1> HIDE DEF Row
<1>2. IsFiniteSet(S)
  <2> DEFINE f == [w \in m |-> Row(w)]
  <2>1. IsFiniteSet({f[w] : w \in m})
    BY ImageIsFinite
  <2>2. {f[w] : w \in m} = S
    OBVIOUS
  <2>3. QED BY <2>1, <2>2
<1> HIDE DEF S
<1>3. Cardinality(S) \in Nat
  BY <1>2, FS_CardinalityType
<1>4. Len(Sorted(S, LAMBDA x, y : Before(x.at, y.at))) = Cardinality(S)
  BY <1>3 DEF Sorted
<1>5. QED BY <1>1, <1>3, <1>4

\* A message loaded into a tree.
LEMMA LoadIntoIsTree ==
  ASSUME NEW V, Blank \in V, NEW t \in Forms(V), NEW m, IsFiniteSet(m), NEW order
  PROVE  \E W : Blank \in W /\ LoadInto(t, m, order) \in Forms(W)
<1> DEFINE walk == Walk(m, order)
           N == Len(walk)
           W == V \union {walk[k].content : k \in 1 .. N} \union {KeyText(walk[k].key) : k \in 1 .. N}
           S == Forms(W)
           step == [x \in (1 .. N) \X S |-> LoadRow(x[2], walk[x[1]])]
           Up(f) == [k \in 0 .. N |-> IF k = 0 THEN t ELSE LoadRow(f[k - 1], walk[k])]
           g == CHOOSE f : f = Up(f)
<1>1. LoadInto(t, m, order) = g[N]
  BY DEF LoadInto, Along
<1>2. N \in Nat
  BY WalkEnds
<1>3. /\ Blank \in W
      /\ \A k \in 1 .. N : walk[k].content \in W /\ KeyText(walk[k].key) \in W
  OBVIOUS
<1>4. t \in S
  <2>1. V \subseteq W
    OBVIOUS
  <2> HIDE DEF W
  <2>2. QED BY <2>1, TreesGrow DEF Forms
<1> HIDE DEF N, walk, W
<1>5. \A k \in 1 .. N : \A u \in S : LoadRow(u, walk[k]) \in S
  BY <1>3, LoadRowIsTree
<1>6. step \in [(1 .. N) \X S -> S]
  <2> HIDE DEF S
  <2>1. QED BY <1>5
<1>7. \A k \in 1 .. N : \A u \in S : step[<<k, u>>] = LoadRow(u, walk[k])
  <2> HIDE DEF S
  <2>1. QED OBVIOUS
<1> HIDE DEF step, S
<1>8. PICK f : Recurs(f, S, t, N, step)
  BY <1>2, <1>4, <1>6, Recursion
<1>9. f = Up(f)
  <2>1. /\ f \in [0 .. N -> S] /\ f[0] = t
        /\ \A k \in 1 .. N : f[k] = step[<<k, f[k - 1]>>]
    BY <1>8 DEF Recurs
  <2>2. ASSUME NEW k \in 0 .. N PROVE f[k] = IF k = 0 THEN t ELSE LoadRow(f[k - 1], walk[k])
    <3>1. CASE k = 0
      BY <2>1, <3>1
    <3>2. CASE k # 0
      <4>1. k \in 1 .. N /\ k - 1 \in 0 .. N
        BY <1>2, <3>2
      <4>2. f[k - 1] \in S /\ f[k] = step[<<k, f[k - 1]>>]
        BY <2>1, <4>1
      <4>3. QED BY <1>7, <3>2, <4>1, <4>2
    <3>3. QED BY <3>1, <3>2
  <2>3. f = [k \in 0 .. N |-> f[k]]
    BY <2>1
  <2>4. QED BY <2>2, <2>3
<1>10. g = Up(g)
  <2> HIDE DEF Up
  <2>1. QED BY <1>9
<1> HIDE DEF g
<1>11. g[0] = t /\ \A k \in 1 .. N : g[k] = LoadRow(g[k - 1], walk[k])
  <2>1. \A k \in 0 .. N : g[k] = IF k = 0 THEN t ELSE LoadRow(g[k - 1], walk[k])
    BY <1>10
  <2>2. 0 \in 0 .. N /\ \A k \in 1 .. N : k \in 0 .. N /\ k # 0
    BY <1>2
  <2>3. QED BY <2>1, <2>2
<1>12. \A k \in 0 .. N : g[k] \in S
  <2>1. g[0] \in S /\ \A k \in 1 .. N : g[k - 1] \in S => g[k] = step[<<k, g[k - 1]>>]
    BY <1>4, <1>7, <1>11
  <2>2. QED BY <1>2, <1>6, <2>1, RuleStays
<1>13. g[N] \in Forms(W)
  BY <1>2, <1>12 DEF S
<1>14. QED BY <1>1, <1>3, <1>13

\* References by the row they were typed into, one for a row.
Rowed(values) ==
  /\ IsFiniteSet(values) /\ \A v \in values : v[1] \in Address
  /\ \A v, w \in values : v[1] = w[1] => v = w

\* They are put back in the order of the form.
LEMMA ValuesInOrder ==
  ASSUME NEW values, Rowed(values), NEW walk,
         walk = Sorted(values, LAMBDA v, w : Before(v[1], w[1]))
  PROVE  Len(walk) \in Nat /\ \A k \in 1 .. Len(walk) : walk[k] \in values
<1> DEFINE R == {ss \in values \X values : Before(ss[1][1], ss[2][1])}
           rs == [i \in 1 .. Cardinality(values) |->
                    CHOOSE x \in values :
                      Cardinality({y \in values : Before(y[1], x[1])}) = i - 1]
<1>1. \A x, y \in values : <<x, y>> \in R <=> Before(x[1], y[1])
  OBVIOUS
<1>2. Orders(R, values)
  <2>1. \A x \in values : ~Before(x[1], x[1])
    BY BeforeIsStrict DEF Rowed
  <2>2. \A x, y, z \in values : Before(x[1], y[1]) /\ Before(y[1], z[1]) => Before(x[1], z[1])
    BY BeforeIsTransitive DEF Rowed
  <2>3. \A x, y \in values : x = y \/ Before(x[1], y[1]) \/ Before(y[1], x[1])
    BY BeforeIsTotal DEF Rowed
  <2> HIDE DEF R
  <2>4. QED BY <1>1, <2>1, <2>2, <2>3 DEF Orders
<1>3. \A x \in values : Below(R, values, x) = {y \in values : Before(y[1], x[1])}
  BY <1>1 DEF Below
<1>4. rs = [i \in 1 .. Cardinality(values) |->
              CHOOSE x \in values : Cardinality(Below(R, values, x)) = i - 1]
  <2> DEFINE at(i) == CHOOSE x \in values :
                        Cardinality({y \in values : Before(y[1], x[1])}) = i - 1
             in(i) == CHOOSE x \in values : Cardinality(Below(R, values, x)) = i - 1
  <2>1. \A i : at(i) = in(i)
    BY <1>3
  <2> HIDE DEF at, in
  <2>2. [i \in 1 .. Cardinality(values) |-> at(i)] = [i \in 1 .. Cardinality(values) |-> in(i)]
    BY <2>1
  <2>3. QED BY <2>2 DEF at, in
<1>5. walk = rs
  BY DEF Sorted
<1>6. IsFiniteSet(values)
  BY DEF Rowed
<1> HIDE DEF R, rs
<1>7. InOrder(walk, R, values)
  BY <1>2, <1>4, <1>5, <1>6, SortedIsInOrder
<1>8. walk \in Seq(values)
  BY <1>7 DEF InOrder
<1>9. Len(walk) \in Nat
  BY <1>8, LenProperties
<1>10. \A k \in 1 .. Len(walk) : walk[k] \in values
  BY <1>8, ElementOfSeq
<1>11. QED BY <1>9, <1>10

\* One reference put back.
LEMMA PutBackIsTree ==
  ASSUME NEW V, Blank \in V, NEW t \in Forms(V), NEW v, v[1] \in Address, v[2] \in V
  PROVE  PutBack(t, v) \in Forms(V)
<1> DEFINE there == Reach(t, v[1])
<1>1. there \in Forms(V)
  BY ReachIsTree
<1>2. PutBack(t, v) = IF v[1] \in DOMAIN there THEN SetValue(there, v[1], v[2]) ELSE there
  BY DEF PutBack
<1>3. IsVariant(there, v[1]) => Last(v[1]) \in Nat
  BY ParentAddress DEF IsVariant
<1> HIDE DEF there
<1>4. SetValue(there, v[1], v[2]) \in Forms(V)
  BY <1>1, <1>3, SetValueIsTree DEF Forms, SameRoot
<1>5. QED BY <1>1, <1>2, <1>4

\* References put back into a tree.
LEMMA LoadValuesIsTree ==
  ASSUME NEW V, Blank \in V, NEW t \in Forms(V), NEW values, Rowed(values)
  PROVE  \E W : Blank \in W /\ LoadValues(t, values) \in Forms(W)
<1> DEFINE walk == Sorted(values, LAMBDA v, w : Before(v[1], w[1]))
           N == Len(walk)
           W == V \union {v[2] : v \in values}
           S == Forms(W)
           step == [x \in (1 .. N) \X S |-> PutBack(x[2], walk[x[1]])]
           Up(f) == [k \in 0 .. N |-> IF k = 0 THEN t ELSE PutBack(f[k - 1], walk[k])]
           g == CHOOSE f : f = Up(f)
<1>1. LoadValues(t, values) = g[N]
  BY DEF LoadValues, Along
<1>2. N \in Nat /\ \A k \in 1 .. N : walk[k] \in values
  BY ValuesInOrder
<1>3. Blank \in W /\ \A v \in values : v[2] \in W
  OBVIOUS
<1>4. t \in S
  <2>1. V \subseteq W
    OBVIOUS
  <2> HIDE DEF W
  <2>2. QED BY <2>1, TreesGrow DEF Forms
<1> HIDE DEF N, walk, W
<1>5. \A k \in 1 .. N : \A u \in S : PutBack(u, walk[k]) \in S
  BY <1>2, <1>3, PutBackIsTree DEF Rowed
<1>6. step \in [(1 .. N) \X S -> S]
  <2> HIDE DEF S
  <2>1. QED BY <1>5
<1>7. \A k \in 1 .. N : \A u \in S : step[<<k, u>>] = PutBack(u, walk[k])
  <2> HIDE DEF S
  <2>1. QED OBVIOUS
<1> HIDE DEF step, S
<1>8. PICK f : Recurs(f, S, t, N, step)
  BY <1>2, <1>4, <1>6, Recursion
<1>9. f = Up(f)
  <2>1. /\ f \in [0 .. N -> S] /\ f[0] = t
        /\ \A k \in 1 .. N : f[k] = step[<<k, f[k - 1]>>]
    BY <1>8 DEF Recurs
  <2>2. ASSUME NEW k \in 0 .. N PROVE f[k] = IF k = 0 THEN t ELSE PutBack(f[k - 1], walk[k])
    <3>1. CASE k = 0
      BY <2>1, <3>1
    <3>2. CASE k # 0
      <4>1. k \in 1 .. N /\ k - 1 \in 0 .. N
        BY <1>2, <3>2
      <4>2. f[k - 1] \in S /\ f[k] = step[<<k, f[k - 1]>>]
        BY <2>1, <4>1
      <4>3. QED BY <1>7, <3>2, <4>1, <4>2
    <3>3. QED BY <3>1, <3>2
  <2>3. f = [k \in 0 .. N |-> f[k]]
    BY <2>1
  <2>4. QED BY <2>2, <2>3
<1>10. g = Up(g)
  <2> HIDE DEF Up
  <2>1. QED BY <1>9
<1> HIDE DEF g
<1>11. g[0] = t /\ \A k \in 1 .. N : g[k] = PutBack(g[k - 1], walk[k])
  <2>1. \A k \in 0 .. N : g[k] = IF k = 0 THEN t ELSE PutBack(g[k - 1], walk[k])
    BY <1>10
  <2>2. 0 \in 0 .. N /\ \A k \in 1 .. N : k \in 0 .. N /\ k # 0
    BY <1>2
  <2>3. QED BY <2>1, <2>2
<1>12. \A k \in 0 .. N : g[k] \in S
  <2>1. g[0] \in S /\ \A k \in 1 .. N : g[k - 1] \in S => g[k] = step[<<k, g[k - 1]>>]
    BY <1>4, <1>7, <1>11
  <2>2. QED BY <1>2, <1>6, <2>1, RuleStays
<1>13. g[N] \in Forms(W)
  BY <1>2, <1>12 DEF S
<1>14. QED BY <1>1, <1>3, <1>13

\* A form recalled from one that was recorded, whatever was typed into it.
LEMMA RecalledIsTree ==
  ASSUME NEW V, Blank \in V, NEW t \in Trees(V), NEW env, NEW type \in DOMAIN Fields, NEW order
  PROVE  \E W : Blank \in W /\ Recalled(type, Recorded(t, env), order) \in Forms(W)
<1> DEFINE b == IF Errors(t, Record(env)) = {} THEN Record(env) ELSE Wire(env)
           m == Message(t, b)
           values == Values(t, b)
<1>1. Recorded(t, env).message = m /\ Recorded(t, env).values = values
  BY DEF Recorded, Recording
<1>2. IsFiniteSet(DOMAIN t) /\ DOMAIN t \in SUBSET Address
  BY TreesAre DEF Shaped
<1> HIDE DEF b
<1>3. IsFiniteSet(m)
  <2> DEFINE S == {p \in {q \in DOMAIN t \ {<< >>} : Carries(t, b, q)} : TRUE}
             f == [p \in S |-> <<Place(t, b, p), Content(t, b, p)>>]
  <2>1. IsFiniteSet(S)
    <3>1. S \in SUBSET DOMAIN t
      OBVIOUS
    <3>2. QED BY <1>2, <3>1, FS_Subset
  <2>2. IsFiniteSet({f[p] : p \in S})
    BY <2>1, ImageIsFinite
  <2>3. {f[p] : p \in S} = m
    BY DEF Message
  <2>4. QED BY <2>2, <2>3
<1>4. Rowed(values)
  <2> DEFINE S == {q \in DOMAIN t : Sets(t, q) /\ Leaf(t[q]) /\ Kept(b, t[q]) /\ t[q].kind # "string"}
             f == [p \in S |-> <<p, t[p].value>>]
  <2>1. IsFiniteSet(S) /\ S \in SUBSET Address
    <3>1. S \in SUBSET DOMAIN t
      OBVIOUS
    <3>2. QED BY <1>2, <3>1, FS_Subset
  <2>2. values = {<<p, t[p].value>> : p \in S}
    BY DEF Values
  <2> HIDE DEF S, values
  <2>3. IsFiniteSet({f[p] : p \in S})
    BY <2>1, ImageIsFinite
  <2>4. {f[p] : p \in S} = values
    BY <2>2
  <2>5. IsFiniteSet(values)
    BY <2>3, <2>4
  <2>6. \A v \in values : v[1] \in Address
    BY <2>1, <2>2
  <2>7. \A v, w \in values : v[1] = w[1] => v = w
    BY <2>2
  <2>8. QED BY <2>5, <2>6, <2>7 DEF Rowed
<1> HIDE DEF m, values
<1>5. NewForm(type) \in Forms(V)
  BY NewChildrenIsTree DEF NewForm
<1>6. PICK U : Blank \in U /\ LoadInto(NewForm(type), m, order) \in Forms(U)
  BY <1>3, <1>5, LoadIntoIsTree
<1>7. PICK W : Blank \in W /\ LoadValues(LoadInto(NewForm(type), m, order), values) \in Forms(W)
  BY <1>4, <1>6, LoadValuesIsTree
<1>8. QED BY <1>1, <1>7 DEF Recalled

-----------------------------------------------------------------------------
(* The rows on screen. *)

\* The rows of a tree that nothing folded is above.
Unfolded(t) ==
  {p \in DOMAIN t \ {<< >>} : \A k \in 1 .. (Len(p) - 1) : t[Prefix(p, k)].expanded}

\* Rows draws them, in the order of the form.
LEMMA RowsAreDrawn ==
  ASSUME NEW V, NEW t \in Trees(V)
  PROVE  /\ Draws(Rows(t), Unfolded(t))
         /\ Rows(t) \in Seq(Address) /\ Len(Rows(t)) \in Nat
         /\ \A i \in 1 .. Len(Rows(t)) : Rows(t)[i] \in DOMAIN t /\ Rows(t)[i] # << >>
<1>1. IsFiniteSet(DOMAIN t) /\ DOMAIN t \in SUBSET Address
  BY TreesAre DEF Shaped
<1>2. Unfolded(t) \in SUBSET DOMAIN t /\ Unfolded(t) \in SUBSET (DOMAIN t \ {<< >>})
  BY DEF Unfolded
<1>3. Unfolded(t) \in SUBSET Address /\ IsFiniteSet(Unfolded(t))
  BY <1>1, <1>2, FS_Subset
<1>4. Rows(t) = Sorted(Unfolded(t), Before)
  BY DEF Rows, Unfolded
<1>5. Draws(Rows(t), Unfolded(t))
  BY <1>3, <1>4, SortedDraws
<1>6. Rows(t) \in Seq(Unfolded(t))
  BY <1>5 DEF Draws
<1>7. Len(Rows(t)) \in Nat /\ \A i \in 1 .. Len(Rows(t)) : Rows(t)[i] \in Unfolded(t)
  BY <1>6, LenProperties, ElementOfSeq
<1>8. Rows(t) \in Seq(Address)
  BY <1>3, <1>6
<1>9. QED BY <1>2, <1>5, <1>7, <1>8

\* Typing draws no other rows.
LEMMA TypingKeepsRows ==
  ASSUME NEW V, NEW t \in Trees(V), NEW u, DOMAIN u = DOMAIN t,
         \A q \in DOMAIN t : u[q].expanded = t[q].expanded
  PROVE  Rows(u) = Rows(t)
<1>1. ASSUME NEW p \in DOMAIN t, NEW k \in 1 .. (Len(p) - 1) PROVE Prefix(p, k) \in DOMAIN t
  <2>1. Shaped(DOMAIN t)
    BY TreesAre
  <2>2. Len(p) \in Nat
    BY <2>1, LenProperties DEF Shaped, Address
  <2>3. k \in 0 .. Len(p)
    BY <2>2
  <2>4. QED BY <2>1, <2>3, AboveIsThere
<1>2. Unfolded(u) = Unfolded(t)
  BY <1>1 DEF Unfolded
<1>3. Rows(u) = Sorted(Unfolded(u), Before) /\ Rows(t) = Sorted(Unfolded(t), Before)
  BY DEF Rows, Unfolded
<1>4. QED BY <1>2, <1>3

\* No form, no rows.
LEMMA NoFormHasNoRows == Rows(NoForm) = << >>
<1>1. Unfolded(NoForm) = {}
  BY DEF Unfolded, NoForm, Alone
<1>2. Draws(Sorted({}, Before), {})
  BY FS_EmptySet, SortedDraws
<1>3. Rows(NoForm) = Sorted(Unfolded(NoForm), Before)
  BY DEF Rows, Unfolded
<1>4. Rows(NoForm) \in Seq({}) /\ Len(Rows(NoForm)) = 0
  BY <1>1, <1>2, <1>3, FS_EmptySet DEF Draws
<1>5. QED BY <1>4, EmptySeq

\* The complaints above a row are among those there are.
LEMMA ComplaintsAbove ==
  ASSUME NEW rs, NEW errs, NEW c \in Nat, NEW n \in Nat, c <= n
  PROVE  /\ Complaints(rs, errs, c) \in Nat /\ Complaints(rs, errs, n) \in Nat
         /\ Complaints(rs, errs, c) <= Complaints(rs, errs, n)
<1> DEFINE C(m) == {i \in 1 .. m : rs[i] \in errs}
<1>1. IsFiniteSet(1 .. n) /\ C(n) \in SUBSET (1 .. n) /\ C(c) \in SUBSET C(n)
  BY FS_Interval
<1>2. IsFiniteSet(C(n))
  BY <1>1, FS_Subset
<1>3. Complaints(rs, errs, c) = Cardinality(C(c)) /\ Complaints(rs, errs, n) = Cardinality(C(n))
  BY DEF Complaints
<1> HIDE DEF C
<1>4. IsFiniteSet(C(c)) /\ Cardinality(C(c)) <= Cardinality(C(n))
  BY <1>1, <1>2, FS_Subset
<1>5. QED BY <1>2, <1>3, <1>4, FS_CardinalityType

\* A row is among the lines drawn.
LEMMA LineIsDrawn ==
  ASSUME NEW rs \in Seq(Address), NEW errs, NEW c \in Nat, c < Len(rs) \/ c = 0
  PROVE  /\ LineCount(rs, errs) \in Nat
         /\ LineOf(rs, errs, c) \in 0 .. LineCount(rs, errs) - 1
<1>1. Len(rs) \in Nat /\ (rs # << >> => Len(rs) > 0)
  BY LenProperties, EmptySeq
<1>2. Complaints(rs, errs, Len(rs)) \in Nat
  BY <1>1, ComplaintsAbove
<1>3. CASE rs = << >>
  BY <1>1, <1>2, <1>3 DEF LineOf, LineCount, HeaderLines
<1>4. CASE rs # << >>
  <2>1. c < Len(rs)
    BY <1>1, <1>4
  <2>2. Complaints(rs, errs, c) \in Nat /\ Complaints(rs, errs, c) <= Complaints(rs, errs, Len(rs))
    BY <1>1, <2>1, ComplaintsAbove
  <2>3. QED BY <1>1, <1>2, <1>4, <2>1, <2>2 DEF LineOf, LineCount, HeaderLines
<1>5. QED BY <1>3, <1>4

\* The cursor is on a row, and its line in the window.
InSight(rs, errs, c, from) ==
  /\ c \in Nat /\ c = ClampIndex(c, Len(rs)) /\ from \in Int
  /\ c + 1 \in DOMAIN rs /\ Height > 0 => LineOf(rs, errs, c) \in from .. (from + Height - 1)

\* moveTo, clampOffset and SetSize bring it there, from wherever the window was.
LEMMA ShowsBringsIntoSight ==
  ASSUME NEW rs \in Seq(Address), NEW errs, NEW c \in Int, NEW from \in Int,
         ShowsFrom(from, rs, errs, c)
  PROVE  /\ rows' = rs /\ fieldErrs' = errs /\ cursor' = ClampIndex(c, Len(rs))
         /\ InSight(rs, errs, cursor', offset')
<1> DEFINE at == ClampIndex(c, Len(rs))
           line == LineOf(rs, errs, at)
           n == LineCount(rs, errs)
           w == ClampWindow(line, from, Height, n)
<1>1. rows' = rs /\ fieldErrs' = errs /\ cursor' = at /\ offset' = w
  BY DEF ShowsFrom
<1>2. Len(rs) \in Nat
  BY LenProperties
<1>3. at \in Nat /\ (at < Len(rs) \/ at = 0) /\ at = ClampIndex(at, Len(rs))
  BY <1>2 DEF ClampIndex
<1> HIDE DEF at
<1>4. n \in Nat /\ line \in 0 .. n - 1
  BY <1>3, LineIsDrawn
<1> HIDE DEF line, n
<1>5. w \in Int /\ (Height > 0 => line \in w .. (w + Height - 1))
  <2>1. Height \in Int
    BY PanelAssumption
  <2>2. CASE Height > 0
    <3>1. Height \in Nat \ {0}
      BY <2>1, <2>2
    <3>2. w \in Nat /\ line \in w .. (w + Height - 1)
      BY <1>4, <3>1, ClampWindowShows
    <3> HIDE DEF w
    <3>3. QED BY <3>2
  <2>3. CASE ~(Height > 0)
    BY <2>1, <2>3 DEF ClampWindow
  <2>4. QED BY <2>2, <2>3
<1> HIDE DEF w
<1>6. InSight(rs, errs, at, w)
  BY <1>3, <1>5 DEF InSight, line
<1>7. QED BY <1>1, <1>6 DEF at

-----------------------------------------------------------------------------
(* The form, at every step. *)

\* The rows are those of the form, the cursor on one of them and in the window.
Drawn == rows = Rows(tree) /\ InSight(rows, fieldErrs, cursor, offset)

FormInv ==
  /\ selected \in BOOLEAN /\ editing \in BOOLEAN
  /\ ~selected => tree = NoForm
  /\ selected => \E V : Blank \in V /\ tree \in Forms(V)
  /\ Drawn
  /\ editing => selected /\ HasRow /\ Editable(tree[Here])

\* What the invariant says of the rows there are.
LEMMA RowsThere ==
  ASSUME FormInv
  PROVE  /\ rows \in Seq(Address) /\ Len(rows) \in Nat /\ DOMAIN rows = 1 .. Len(rows)
         /\ \A V : tree \in Forms(V) => \A i \in DOMAIN rows : rows[i] \in DOMAIN tree /\ rows[i] # << >>
<1>1. rows = Rows(tree)
  BY DEF FormInv, Drawn
<1>2. ASSUME NEW V, tree \in Forms(V)
      PROVE  /\ rows \in Seq(Address) /\ Len(rows) \in Nat
             /\ \A i \in 1 .. Len(rows) : rows[i] \in DOMAIN tree /\ rows[i] # << >>
  BY <1>1, <1>2, RowsAreDrawn DEF Forms
<1>3. ~selected => rows = << >>
  BY <1>1, NoFormHasNoRows DEF FormInv
<1>4. rows \in Seq(Address)
  BY <1>2, <1>3, EmptySeq DEF FormInv
<1>5. Len(rows) \in Nat /\ DOMAIN rows = 1 .. Len(rows)
  BY <1>4, LenProperties
<1>6. QED BY <1>2, <1>4, <1>5

\* A form drawn anew, from whatever the keystroke made of it.
LEMMA NewFormIsDrawn ==
  ASSUME NEW V, Blank \in V, tree' \in Forms(V), NEW from \in Int, NEW errs, NEW c \in Int,
         ShowsFrom(from, Rows(tree'), errs, c), selected' = TRUE, editing' = FALSE
  PROVE  FormInv'
<1>1. Rows(tree') \in Seq(Address)
  BY RowsAreDrawn DEF Forms
<1>2. rows' = Rows(tree') /\ fieldErrs' = errs /\ InSight(Rows(tree'), errs, cursor', offset')
  BY <1>1, ShowsBringsIntoSight
<1>3. Drawn'
  BY <1>2 DEF Drawn, InSight
<1>4. QED BY <1>3 DEF FormInv

\* moveTo and the layout, over the rows there were.
LEMMA SameRowsAreDrawn ==
  ASSUME FormInv, NEW errs, NEW c \in Int, Shows(rows, errs, c), Rows(tree') = Rows(tree)
  PROVE  Drawn' /\ rows' = rows /\ cursor' = ClampIndex(c, Len(rows))
<1>1. rows \in Seq(Address) /\ rows = Rows(tree) /\ offset \in Int
  BY RowsThere DEF FormInv, Drawn, InSight
<1>2. ShowsFrom(offset, rows, errs, c)
  BY DEF Shows
<1>3. /\ rows' = rows /\ fieldErrs' = errs /\ cursor' = ClampIndex(c, Len(rows))
      /\ InSight(rows, errs, cursor', offset')
  BY <1>1, <1>2, ShowsBringsIntoSight
<1>4. QED BY <1>1, <1>3 DEF Drawn, InSight

\* rebuild, with the keyboard on the rows.
LEMMA RebuildIsDrawn ==
  ASSUME FormInv, Browsing, NEW V, Blank \in V, NEW t \in Forms(V), NEW keep, Rebuild(t, keep),
         Unmoved
  PROVE  FormInv'
<1> DEFINE rs == Rows(t)
           found == {i \in DOMAIN rs : rs[i] = keep}
           c == IF found = {} THEN cursor ELSE (CHOOSE i \in found : TRUE) - 1
<1>1. tree' = t /\ ShowsFrom(offset, rs, fieldErrs, c)
  BY DEF Rebuild, Shows
<1>2. rs \in Seq(Address)
  BY RowsAreDrawn DEF Forms
<1>3. DOMAIN rs = 1 .. Len(rs)
  BY <1>2, LenProperties
<1>4. cursor \in Nat /\ offset \in Int
  BY DEF FormInv, Drawn, InSight
<1>5. c \in Int
  <2>1. CASE found = {}
    BY <1>4, <2>1
  <2>2. CASE found # {}
    <3>1. (CHOOSE i \in found : TRUE) \in 1 .. Len(rs)
      BY <1>3, <2>2
    <3>2. QED BY <2>2, <3>1
  <2>3. QED BY <2>1, <2>2
<1>6. selected' = TRUE /\ editing' = FALSE
  BY DEF Unmoved, Browsing, FormInv
<1> HIDE DEF c
<1>7. QED BY <1>1, <1>4, <1>5, <1>6, NewFormIsDrawn

\* The row under the cursor, with the keyboard on it.
LEMMA HereIsThere ==
  ASSUME FormInv, selected, HasRow
  PROVE  \E V : /\ Blank \in V /\ tree \in Forms(V) /\ tree \in Trees(V)
                /\ Here \in DOMAIN tree /\ Here # << >> /\ Here \in Address
                /\ Parent(Here) \in DOMAIN tree /\ Last(Here) \in Nat
<1>1. PICK V : Blank \in V /\ tree \in Forms(V)
  BY DEF FormInv
<1>2. tree \in Trees(V)
  BY <1>1 DEF Forms
<1>3. Here \in DOMAIN tree /\ Here # << >>
  BY <1>1, RowsThere DEF HasRow, Here
<1>4. Here \in Address /\ Parent(Here) \in DOMAIN tree
  BY <1>2, <1>3, TreesAre DEF Shaped
<1>5. Last(Here) \in Nat
  BY <1>3, <1>4, ParentAddress
<1>6. QED BY <1>1, <1>2, <1>3, <1>4, <1>5

-----------------------------------------------------------------------------
(* The steps. *)

\* Another method.
LEMMA SetMethodKeeps ==
  ASSUME FormInv, NEW type \in Requests, SetMethod(type)
  PROVE  FormInv'
<1> DEFINE V == {Blank}
<1>1. type \in DOMAIN Fields
  BY FormAssumption
<1>2. tree' \in Forms(V) /\ Blank \in V
  BY <1>1, NewChildrenIsTree DEF SetMethod, NewForm
<1>3. ShowsFrom(0, Rows(tree'), {}, 0) /\ selected' = TRUE /\ editing' = FALSE
  BY DEF SetMethod
<1>4. 0 \in Int
  OBVIOUS
<1> HIDE DEF V
<1>5. QED BY <1>2, <1>3, <1>4, NewFormIsDrawn

\* None.
LEMMA ClearKeeps ==
  ASSUME FormInv, Clear
  PROVE  FormInv'
<1>1. /\ tree' = NoForm /\ rows' = << >> /\ selected' = FALSE /\ editing' = FALSE
      /\ cursor' = 0 /\ offset' = 0 /\ fieldErrs' = {}
  BY DEF Clear
<1>2. rows' = Rows(tree')
  BY <1>1, NoFormHasNoRows
<1>3. cursor' = ClampIndex(cursor', Len(rows')) /\ cursor' + 1 \notin DOMAIN rows'
  BY <1>1, EmptySeq DEF ClampIndex
<1>4. Drawn'
  BY <1>1, <1>2, <1>3 DEF Drawn, InSight
<1>5. QED BY <1>1, <1>4 DEF FormInv

\* A request recalled.
LEMMA RecallKeeps ==
  ASSUME FormInv, Recall
  PROVE  FormInv'
<1>1. /\ selected /\ ShowsFrom(0, Rows(tree'), {}, 0)
      /\ editing' = FALSE /\ selected' = selected
  BY DEF Recall
<1>2. PICK order : tree' = Recalled(Request, Recorded(tree, resolver), order)
  BY DEF Recall, RecallFrom
<1>3. PICK V : Blank \in V /\ tree \in Forms(V)
  BY <1>1 DEF FormInv
<1>4. tree \in Trees(V)
  BY <1>3 DEF Forms
<1>5. Request \in DOMAIN Fields
  <2>1. tree[<< >>] \in RowWith(V)
    BY <1>4, TreesAre DEF Shaped
  <2>2. QED BY <1>3, <2>1 DEF Forms, RowWith, FieldOf, Request
<1>6. PICK W : Blank \in W /\ tree' \in Forms(W)
  BY <1>2, <1>3, <1>4, <1>5, RecalledIsTree
<1>7. selected' = TRUE
  BY <1>1 DEF FormInv
<1>8. 0 \in Int
  OBVIOUS
<1>9. QED BY <1>1, <1>6, <1>7, <1>8, NewFormIsDrawn

\* Steps that leave the tree alone and draw the same rows, the cursor where it was.
LEMMA RedrawKeeps ==
  ASSUME FormInv, NEW errs, Shows(rows, errs, cursor), UNCHANGED <<tree, selected>>,
         editing' = editing \/ editing' = FALSE
  PROVE  FormInv'
<1>1. cursor \in Int /\ cursor = ClampIndex(cursor, Len(rows))
  BY DEF FormInv, Drawn, InSight
<1>2. Drawn' /\ rows' = rows /\ cursor' = cursor
  BY <1>1, SameRowsAreDrawn
<1>3. (HasRow => HasRow') /\ Here' = Here
  BY <1>2 DEF HasRow, Here
<1>4. editing' => selected' /\ HasRow' /\ Editable(tree'[Here'])
  <2>1. tree' = tree /\ selected' = selected /\ (editing' => editing)
    OBVIOUS
  <2>2. editing' => selected /\ HasRow /\ Editable(tree[Here])
    BY <2>1 DEF FormInv
  <2>3. QED BY <1>3, <2>1, <2>2
<1>5. selected' \in BOOLEAN /\ editing' \in BOOLEAN
  BY DEF FormInv
<1>6. /\ ~selected' => tree' = NoForm
      /\ selected' => \E V : Blank \in V /\ tree' \in Forms(V)
  BY DEF FormInv
<1>7. QED BY <1>2, <1>4, <1>5, <1>6 DEF FormInv

\* Another environment.
LEMMA SetResolverKeeps ==
  ASSUME FormInv, NEW env, SetResolver(env)
  PROVE  FormInv'
BY RedrawKeeps DEF SetResolver

\* A row checked.
LEMMA StopEditingKeeps ==
  ASSUME FormInv, StopEditing
  PROVE  FormInv'
BY RedrawKeeps DEF StopEditing

\* A request sent, or refused.
LEMMA SubmitKeeps ==
  ASSUME FormInv, Submit
  PROVE  FormInv'
BY RedrawKeeps DEF Submit

\* The keyboard is on a row of a form.
LEMMA BrowsingIsHere ==
  ASSUME FormInv, Browsing
  PROVE  \E V : /\ Blank \in V /\ tree \in Forms(V) /\ tree \in Trees(V)
                /\ Here \in DOMAIN tree /\ Here # << >> /\ Here \in Address
                /\ Parent(Here) \in DOMAIN tree /\ Last(Here) \in Nat
BY HereIsThere DEF Browsing

\* The cursor moved.
LEMMA MoveKeeps ==
  ASSUME FormInv, NEW c \in Int, Move(c)
  PROVE  FormInv'
<1>1. Browsing /\ Shows(rows, fieldErrs, c) /\ tree' = tree /\ UNCHANGED <<editing, selected>>
  BY DEF Move, Unmoved
<1>2. Drawn'
  BY <1>1, SameRowsAreDrawn
<1>3. ~editing
  BY <1>1 DEF Browsing
<1>4. QED BY <1>1, <1>2, <1>3 DEF FormInv

\* A row unfolded or folded.
LEMMA ExpandRowKeeps ==
  ASSUME FormInv, Browsing, NEW expanded \in BOOLEAN, ExpandRow(Here, expanded), Unmoved
  PROVE  FormInv'
<1>1. PICK V : /\ Blank \in V /\ tree \in Forms(V) /\ tree \in Trees(V)
               /\ Here \in DOMAIN tree
  BY BrowsingIsHere
<1> DEFINE t == SetExpanded(tree, Here, expanded)
<1>2. t \in Trees(V) /\ SameRoot(tree, t)
  BY <1>1, SetExpandedIsTree
<1>3. Rebuild(t, Here)
  BY DEF ExpandRow
<1> HIDE DEF t
<1>4. t \in Forms(V)
  BY <1>1, <1>2 DEF Forms, SameRoot
<1>5. QED BY <1>1, <1>3, <1>4, RebuildIsDrawn

\* A row folded, or the cursor gone to the row that holds it.
LEMMA CollapseKeeps ==
  ASSUME FormInv, Collapse
  PROVE  FormInv'
<1>1. Browsing /\ Unmoved
  BY DEF Collapse
<1>2. CASE ExpandRow(Here, FALSE)
  BY <1>1, <1>2, ExpandRowKeeps
<1>3. CASE Rebuild(tree, Parent(Here))
  <2>1. PICK V : Blank \in V /\ tree \in Forms(V)
    BY <1>1, BrowsingIsHere
  <2>2. QED BY <1>1, <1>3, <2>1, RebuildIsDrawn
<1>4. QED BY <1>2, <1>3 DEF Collapse

\* A set of numbers up to n with one in it has a greatest.
LEMMA Greatest1 ==
  ASSUME NEW n \in Nat, NEW S \in SUBSET (1 .. n), S # {}
  PROVE  \E m \in S : \A k \in S : k <= m
<1> DEFINE T == {n - k : k \in S}
<1>1. T \subseteq Nat
  OBVIOUS
<1>a. PICK s \in S : TRUE
  OBVIOUS
<1>b. n - s \in T
  OBVIOUS
<1> HIDE DEF T
<1>2. PICK d \in T : \A e \in T : d <= e
  <2>1. T # {}
    BY <1>b
  <2>2. QED BY <1>1, <2>1, Least1
<1>3. PICK m \in S : d = n - m
  BY <1>2 DEF T
<1>4. ASSUME NEW k \in S PROVE k <= m
  <2>1. n - k \in T
    BY DEF T
  <2>2. n - m <= n - k
    BY <1>2, <1>3, <2>1
  <2>3. QED BY <2>2
<1>5. QED BY <1>4

\* An item added to the nearest list.
LEMMA AddKeeps ==
  ASSUME FormInv, Add
  PROVE  FormInv'
<1> DEFINE lists == {k \in 1..Len(Here) : Repeated(tree[Prefix(Here, k)])}
           near == CHOOSE k \in lists : \A j \in lists : j <= k
           list == Prefix(Here, near)
           grown == AddItem(tree, list)
<1>1. /\ Browsing /\ Unmoved /\ lists # {}
      /\ Rebuild(grown, Append(list, Cardinality(Children(grown, list))))
  BY DEF Add
<1>2. PICK V : /\ Blank \in V /\ tree \in Forms(V) /\ tree \in Trees(V)
               /\ Here \in DOMAIN tree /\ Here \in Address
  BY <1>1, BrowsingIsHere
<1>3. near \in 0 .. Len(Here)
  <2>1. Len(Here) \in Nat
    BY <1>2, LenProperties DEF Address
  <2>2. lists \in SUBSET (1 .. Len(Here))
    OBVIOUS
  <2> HIDE DEF lists
  <2>3. \E k \in lists : \A j \in lists : j <= k
    BY <1>1, <2>1, <2>2, Greatest1
  <2>4. near \in lists
    BY <2>3
  <2> HIDE DEF near
  <2>5. QED BY <2>1, <2>2, <2>4
<1> HIDE DEF near
<1>4. list \in DOMAIN tree
  BY <1>2, <1>3, TreesAre, AboveIsThere
<1> HIDE DEF list
<1>5. grown \in Trees(V) /\ SameRoot(tree, grown)
  BY <1>2, <1>4, AddItemIsTree
<1> HIDE DEF grown
<1>6. grown \in Forms(V)
  BY <1>2, <1>5 DEF Forms, SameRoot
<1>7. QED BY <1>1, <1>2, <1>6, RebuildIsDrawn

\* An item removed.
LEMMA DropItemKeeps ==
  ASSUME FormInv, DropItem
  PROVE  FormInv'
<1> DEFINE t == RemoveItem(tree, Here)
<1>1. Browsing /\ Unmoved /\ Rebuild(t, << >>)
  BY DEF DropItem
<1>2. PICK V : /\ Blank \in V /\ tree \in Forms(V) /\ tree \in Trees(V)
               /\ Here \in DOMAIN tree /\ Here # << >>
  BY <1>1, BrowsingIsHere
<1>3. t \in Trees(V) /\ SameRoot(tree, t)
  BY <1>2, RemoveItemIsTree
<1> HIDE DEF t
<1>4. t \in Forms(V)
  BY <1>2, <1>3 DEF Forms, SameRoot
<1>5. QED BY <1>1, <1>2, <1>4, RebuildIsDrawn

\* A row toggled.
LEMMA ToggleHereKeeps ==
  ASSUME FormInv, Browsing, ToggleHere, Unmoved
  PROVE  FormInv'
<1> DEFINE t == Toggle(tree, Here)
<1>1. Rebuild(t, IF tree[Here].kind = "choice" THEN Parent(Here) ELSE Here)
  BY DEF ToggleHere
<1>2. PICK V : /\ Blank \in V /\ tree \in Forms(V) /\ tree \in Trees(V)
               /\ Here \in DOMAIN tree /\ Here # << >>
  BY BrowsingIsHere
<1> DEFINE W == V \union {"true", "false", EnumNames[Last(Here)]}
<1>3. /\ V \subseteq W /\ Blank \in W /\ "true" \in W /\ "false" \in W
      /\ EnumNames[Last(Here)] \in W
  BY <1>2
<1> HIDE DEF W
<1>4. tree \in Trees(W)
  BY <1>2, <1>3, TreesGrow
<1>5. t \in Trees(W) /\ SameRoot(tree, t)
  BY <1>2, <1>3, <1>4, ToggleIsTree
<1> HIDE DEF t
<1>6. t \in Forms(W)
  BY <1>2, <1>5 DEF Forms, SameRoot
<1>7. QED BY <1>1, <1>3, <1>6, RebuildIsDrawn

\* Space, and enter: a value edited, a row toggled, or opened.
LEMMA EnterKeeps ==
  ASSUME FormInv, Space \/ Enter
  PROVE  FormInv'
<1>1. CASE ToggleHere /\ Unmoved
  BY <1>1, ToggleHereKeeps DEF Space, Enter
<1>2. CASE ExpandRow(Here, ~tree[Here].expanded) /\ Unmoved
  <2>1. (~tree[Here].expanded) \in BOOLEAN
    OBVIOUS
  <2>2. Browsing
    BY DEF Space, Enter
  <2>3. QED BY <1>2, <2>1, <2>2, ExpandRowKeeps
<1>3. CASE /\ Editable(tree[Here]) /\ editing' = TRUE
           /\ UNCHANGED <<tree, rows, cursor, offset, fieldErrs, resolver, selected>>
  <2>1. Browsing
    BY DEF Space, Enter
  <2>2. selected /\ HasRow
    BY <2>1 DEF Browsing
  <2>3. Drawn' /\ HasRow' /\ Here' = Here
    BY <1>3, <2>2 DEF FormInv, Drawn, InSight, HasRow, Here
  <2>4. QED BY <1>3, <2>2, <2>3 DEF FormInv
<1>4. QED BY <1>1, <1>2, <1>3 DEF Space, Enter

\* A change of the value under the cursor.
LEMMA TypeKeeps ==
  ASSUME FormInv, NEW text, Type(text)
  PROVE  FormInv'
<1>1. /\ editing /\ editing' = editing /\ selected' = selected
      /\ tree' = SetValue(tree, Here, text) /\ Shows(rows, fieldErrs, cursor)
  BY DEF Type
<1>2. selected /\ HasRow /\ Editable(tree[Here])
  BY <1>1 DEF FormInv
<1>3. PICK V : /\ Blank \in V /\ tree \in Forms(V) /\ tree \in Trees(V)
               /\ Here \in DOMAIN tree /\ Last(Here) \in Nat
  BY <1>2, HereIsThere
<1> DEFINE W == V \union {text}
<1>4. V \subseteq W /\ Blank \in W /\ text \in W
  BY <1>3
<1> HIDE DEF W
<1>5. tree \in Trees(W)
  BY <1>3, <1>4, TreesGrow
<1>6. /\ tree' \in Trees(W) /\ SameRoot(tree, tree') /\ DOMAIN tree' = DOMAIN tree
      /\ \A q \in DOMAIN tree : tree'[q].expanded = tree[q].expanded /\ tree'[q].kind = tree[q].kind
  BY <1>1, <1>3, <1>4, <1>5, SetValueIsTree
<1>7. Rows(tree') = Rows(tree)
  BY <1>5, <1>6, TypingKeepsRows
<1>8. cursor \in Int /\ cursor = ClampIndex(cursor, Len(rows))
  BY DEF FormInv, Drawn, InSight
<1>9. Drawn' /\ rows' = rows /\ cursor' = cursor
  BY <1>1, <1>7, <1>8, SameRowsAreDrawn
<1>10. HasRow' /\ Here' = Here
  BY <1>2, <1>9 DEF HasRow, Here
<1>11. Editable(tree'[Here'])
  BY <1>2, <1>3, <1>6, <1>10 DEF Editable
<1>12. tree' \in Forms(W)
  BY <1>3, <1>6 DEF Forms, SameRoot
<1>13. QED BY <1>1, <1>2, <1>4, <1>9, <1>10, <1>11, <1>12 DEF FormInv

\* The page is a number of rows.
LEMMA PageIsANumber ==
  ASSUME FormInv
  PROVE  PageSize \in Int
<1> DEFINE S == {i \in DOMAIN rows : LineOf(rows, fieldErrs, i - 1) \in offset..(offset + Height - 1)}
<1>1. Len(rows) \in Nat /\ DOMAIN rows = 1 .. Len(rows)
  BY RowsThere
<1>2. IsFiniteSet(1 .. Len(rows)) /\ S \in SUBSET (1 .. Len(rows))
  BY <1>1, FS_Interval
<1>3. Cardinality(S) \in Nat
  BY <1>2, FS_Subset, FS_CardinalityType
<1>4. PageSize = IF Cardinality(S) > 2 THEN Cardinality(S) - 1 ELSE 1
  BY DEF PageSize
<1> HIDE DEF S
<1>5. QED BY <1>3, <1>4

\* The session begins without a form.
LEMMA InitIsDrawn ==
  ASSUME Init
  PROVE  FormInv
<1>1. /\ tree = NoForm /\ rows = << >> /\ cursor = 0 /\ offset = 0
      /\ editing = FALSE /\ selected = FALSE
  BY DEF Init
<1>2. rows = Rows(tree)
  BY <1>1, NoFormHasNoRows
<1>3. cursor = ClampIndex(cursor, Len(rows)) /\ cursor + 1 \notin DOMAIN rows
  BY <1>1, EmptySeq DEF ClampIndex
<1>4. Drawn
  BY <1>1, <1>2, <1>3 DEF Drawn, InSight
<1>5. QED BY <1>1, <1>4 DEF FormInv

\* Every step leaves the form drawn.
LEMMA StepsKeepTheFormDrawn ==
  ASSUME FormInv, [Next]_vars
  PROVE  FormInv'
<1>1. CASE \E type \in Requests : SetMethod(type)
  BY <1>1, SetMethodKeeps
<1>2. CASE Clear
  BY <1>2, ClearKeeps
<1>3. CASE Recall
  BY <1>3, RecallKeeps
<1>4. CASE \E env \in Envs : SetResolver(env)
  BY <1>4, SetResolverKeeps
<1>5. CASE \E c \in {cursor - 1, cursor + 1, cursor - PageSize, cursor + PageSize,
                     0, Len(rows) - 1} : Move(c)
  <2>1. PICK c \in {cursor - 1, cursor + 1, cursor - PageSize, cursor + PageSize,
                    0, Len(rows) - 1} : Move(c)
    BY <1>5
  <2>2. cursor \in Int /\ PageSize \in Int /\ Len(rows) \in Int
    BY PageIsANumber, RowsThere DEF FormInv, Drawn, InSight
  <2>3. c \in Int
    BY <2>2
  <2>4. QED BY <2>1, <2>3, MoveKeeps
<1>6. CASE Expand
  <2>1. Browsing /\ ExpandRow(Here, TRUE) /\ Unmoved
    BY <1>6 DEF Expand
  <2>2. QED BY <2>1, ExpandRowKeeps
<1>7. CASE Collapse
  BY <1>7, CollapseKeeps
<1>8. CASE Add
  BY <1>8, AddKeeps
<1>9. CASE DropItem
  BY <1>9, DropItemKeeps
<1>10. CASE Space \/ Enter
  BY <1>10, EnterKeeps
<1>11. CASE \E text \in Typed : Type(text)
  BY <1>11, TypeKeeps
<1>12. CASE StopEditing
  BY <1>12, StopEditingKeeps
<1>13. CASE Submit
  BY <1>13, SubmitKeeps
<1>14. CASE UNCHANGED vars
  BY <1>14 DEF vars, FormInv, Drawn, InSight, HasRow, Here
<1>15. QED
  BY <1>1, <1>2, <1>3, <1>4, <1>5, <1>6, <1>7, <1>8, <1>9, <1>10, <1>11, <1>12, <1>13, <1>14
     DEF Next

\* A form is a tree of rows of its schema, and drawn.
THEOREM FormInvHolds == Spec => []FormInv
<1>1. Init => FormInv
  BY InitIsDrawn
<1>2. FormInv /\ [Next]_vars => FormInv'
  BY StepsKeepTheFormDrawn
<1>3. QED BY <1>1, <1>2, PTL DEF Spec

\* The rows on screen are those of the tree, the cursor is on one of them and in
\* the window, and what is typed goes into a row that takes text: after every
\* keystroke, recall and change of environment (form.go, form_edit.go).
THEOREM CursorStaysOnTheForm == Spec => []CursorIsOnTheForm
<1>1. FormInv => CursorIsOnTheForm
  <2>1. SUFFICES ASSUME FormInv PROVE CursorIsOnTheForm
    OBVIOUS
  <2>2. rows = Rows(tree) /\ cursor = ClampIndex(cursor, Len(rows))
    BY <2>1 DEF FormInv, Drawn, InSight
  <2>3. HasRow /\ Height > 0
          => LineOf(rows, fieldErrs, cursor) \in offset .. (offset + Height - 1)
    BY <2>1 DEF FormInv, Drawn, InSight, HasRow
  <2>4. editing => HasRow /\ Editable(tree[Here])
    BY <2>1 DEF FormInv
  <2>5. QED BY <2>2, <2>3, <2>4 DEF CursorIsOnTheForm
<1>2. QED BY <1>1, FormInvHolds, PTL

=============================================================================
