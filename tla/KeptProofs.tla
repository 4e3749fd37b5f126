----------------------------- MODULE KeptProofs -----------------------------
(***************************************************************************)
(* What is kept of requests, for any requests, servers, files, names and   *)
(* bounds: the history is the recent past of what was sent, over restarts  *)
(* and kills; the walk is where the form is; a save that has reported is   *)
(* never lost; and browser, files and saves agree on the collections.      *)
(***************************************************************************)
EXTENDS KeptRequests, FiniteSetTheorems, TLAPS

Entry == [req : Requests, at : Nat, target : Servers]

\* The constants as the lemmas use them.
LEMMA HistoryConstants ==
  /\ Limit \in Nat \ {0} /\ MaxSaves \in Nat \ {0}
  /\ Before \in Seq(Entry)
  /\ \A i \in DOMAIN Before : Before[i].at \in 1 .. MaxSends
  /\ \A i, j \in DOMAIN Before : i < j => Before[i].at > Before[j].at
  /\ \A i \in 2 .. Len(Before) : H!Call(Before[i - 1]) # H!Call(Before[i])
<1> DEFINE Row == [req : Requests, at : 1 .. MaxSends, target : Servers]
<1>1. Before \in Seq(Row) /\ MaxSends \in Nat
  BY RequestsAssumption DEF H!ConstantsOK
<1> HIDE DEF Row
<1>2. DOMAIN Before = 1 .. Len(Before) /\ Len(Before) \in Nat /\ \A i \in DOMAIN Before : Before[i] \in Row
  BY <1>1
<1>3. \A i \in DOMAIN Before : Before[i] \in Entry /\ Before[i].at \in 1 .. MaxSends
  BY <1>1, <1>2 DEF Entry, Row
<1>4. Before \in Seq(Entry)
  BY <1>1, <1>2, <1>3
<1>5. QED
  BY <1>3, <1>4, RequestsAssumption DEF H!ConstantsOK

\* The instances count as this module does.
LEMMA SameCardinality ==
  /\ \A S : H!Cardinality(S) = Cardinality(S)
  /\ \A S : C!Cardinality(S) = Cardinality(S)
BY DEF H!Cardinality, C!Cardinality, Cardinality

-----------------------------------------------------------------------------
(* Sequences. *)

\* truncate keeps the newest.
LEMMA TruncateKeeps ==
  ASSUME NEW S, NEW s \in Seq(S), NEW n \in Nat
  PROVE  LET t == H!Truncate(s, n) IN
         /\ t \in Seq(S) /\ Len(t) \in Nat /\ DOMAIN t = 1 .. Len(t)
         /\ Len(t) <= Len(s) /\ Len(t) <= n
         /\ Len(t) = Len(s) \/ Len(t) = n
         /\ \A i \in 1 .. Len(t) : t[i] = s[i]
<1>1. CASE Len(s) <= n
  BY <1>1 DEF H!Truncate
<1>2. CASE Len(s) > n
  <2>1. SubSeq(s, 1, n) \in Seq(S) /\ Len(SubSeq(s, 1, n)) = n
        /\ \A i \in 1 .. n : SubSeq(s, 1, n)[i] = s[i]
    BY <1>2
  <2>2. QED BY <1>2, <2>1 DEF H!Truncate
<1>3. QED BY <1>1, <1>2

\* A new head moves the rest one place on.
LEMMA Pushed ==
  ASSUME NEW S, NEW e \in S, NEW s \in Seq(S)
  PROVE  LET t == <<e>> \o s IN
         /\ t \in Seq(S) /\ Len(t) = Len(s) + 1 /\ DOMAIN t = 1 .. Len(s) + 1 /\ t[1] = e
         /\ \A i \in 2 .. Len(t) : t[i] = s[i - 1]
OBVIOUS

-----------------------------------------------------------------------------
(* The history. *)

\* Newest first, no moment later than n, and no two neighbours alike.
Dated(s, n) ==
  /\ s \in Seq(Entry)
  /\ \A i \in DOMAIN s : s[i].at <= n
  /\ \A i, j \in DOMAIN s : i < j => s[i].at > s[j].at
NoneTwice(s) == \A i \in 2 .. Len(s) : H!Call(s[i - 1]) # H!Call(s[i])

\* What is in memory, on the disk and on its way there is a history of its own, none
\* of it from the future; the log is what the list is compared with.
RecentInv ==
  /\ sends \in Nat /\ server \in Servers
  /\ form = H!Blank \/ form \in Entry
  /\ Dated(log, sends)
  /\ Dated(entries, sends) /\ NoneTwice(entries)
  /\ Dated(file, sends) /\ NoneTwice(file)
  /\ saves \subseteq [entries : Seq(Entry), written : BOOLEAN]
  /\ \A s \in saves : Dated(s.entries, sends) /\ NoneTwice(s.entries)
  /\ H!HistoryIsRecent

\* A dated history is one at any later moment.
LEMMA DatedLater ==
  ASSUME NEW m \in Nat, NEW n \in Nat, m <= n, NEW s, Dated(s, m)
  PROVE  Dated(s, n)
<1>1. s \in Seq(Entry) /\ \A i \in DOMAIN s : s[i] \in Entry /\ s[i].at <= m
  BY DEF Dated
<1>2. \A i \in DOMAIN s : s[i].at \in Nat
  BY <1>1 DEF Entry
<1>3. \A i \in DOMAIN s : s[i].at <= n
  BY <1>1, <1>2
<1>4. QED BY <1>3 DEF Dated

\* A dated history by its places: what the arithmetic below uses.
LEMMA DatedRows ==
  ASSUME NEW n, NEW s, Dated(s, n)
  PROVE  /\ s \in Seq(Entry) /\ Len(s) \in Nat /\ DOMAIN s = 1 .. Len(s)
         /\ \A i \in 1 .. Len(s) : s[i] \in Entry /\ s[i].at \in Nat /\ s[i].at <= n
         /\ \A i, j \in 1 .. Len(s) : i < j => s[i].at > s[j].at /\ s[i] # s[j]
<1>1. s \in Seq(Entry) /\ Len(s) \in Nat /\ DOMAIN s = 1 .. Len(s)
  BY DEF Dated
<1>2. \A i \in 1 .. Len(s) : s[i] \in Entry
  BY <1>1
<1>3. \A i \in 1 .. Len(s) : s[i].at \in Nat
  BY <1>2 DEF Entry
<1>4. \A i \in 1 .. Len(s) : s[i].at <= n
  BY <1>1 DEF Dated
<1>5. \A i, j \in 1 .. Len(s) : i < j => s[i].at > s[j].at
  BY <1>1 DEF Dated
<1>6. \A i, j \in 1 .. Len(s) : i < j => s[i] # s[j]
  <2> SUFFICES ASSUME NEW i \in 1 .. Len(s), NEW j \in 1 .. Len(s), i < j, s[i] = s[j]
               PROVE  FALSE
    OBVIOUS
  <2>1. s[i].at > s[j].at /\ s[j].at \in Nat
    BY <1>3, <1>5
  <2>2. QED BY <2>1
<1>7. QED BY <1>1, <1>2, <1>3, <1>4, <1>5, <1>6

\* The part of a dated history truncate keeps is one.
LEMMA DatedTruncated ==
  ASSUME NEW n \in Nat, NEW s, Dated(s, n), NoneTwice(s), NEW k \in Nat
  PROVE  Dated(H!Truncate(s, k), n) /\ NoneTwice(H!Truncate(s, k))
<1> DEFINE t == H!Truncate(s, k)
<1>1. s \in Seq(Entry) /\ Len(s) \in Nat /\ DOMAIN s = 1 .. Len(s)
  BY DEF Dated
<1>2. /\ t \in Seq(Entry) /\ Len(t) \in Nat /\ DOMAIN t = 1 .. Len(t) /\ Len(t) <= Len(s)
      /\ \A i \in 1 .. Len(t) : t[i] = s[i]
  BY <1>1, TruncateKeeps
<1> HIDE DEF t
<1>3. Dated(t, n)
  BY <1>1, <1>2 DEF Dated
<1>4. NoneTwice(t)
  BY <1>1, <1>2 DEF NoneTwice
<1>5. QED BY <1>3, <1>4 DEF t

\* The two shapes Add leaves.
LEMMA AddShapes ==
  ASSUME Dated(entries, sends), NEW e \in Entry
  PROVE  LET t == H!Add(e) IN
         /\ t \in Seq(Entry) /\ Len(t) \in Nat \ {0} /\ DOMAIN t = 1 .. Len(t) /\ t[1] = e
         /\ \/ /\ entries # <<>> /\ H!Call(entries[1]) = H!Call(e) /\ Len(t) = Len(entries)
               /\ \A i \in 2 .. Len(t) : t[i] = entries[i]
            \/ /\ ~(entries # <<>> /\ H!Call(entries[1]) = H!Call(e))
               /\ Len(t) <= Limit /\ Len(t) <= Len(entries) + 1
               /\ Len(t) = Limit \/ Len(t) = Len(entries) + 1
               /\ \A i \in 2 .. Len(t) : t[i] = entries[i - 1]
<1>1. entries \in Seq(Entry) /\ Len(entries) \in Nat
  BY DEF Dated
<1>2. CASE entries # <<>> /\ H!Call(entries[1]) = H!Call(e)
  <2>1. Tail(entries) \in Seq(Entry) /\ Len(Tail(entries)) = Len(entries) - 1
        /\ \A i \in 1 .. Len(entries) - 1 : Tail(entries)[i] = entries[i + 1]
        /\ Len(entries) > 0
    BY <1>1, <1>2
  <2> DEFINE r == Tail(entries)
             t == <<e>> \o r
  <2>2. t \in Seq(Entry) /\ Len(t) = Len(r) + 1 /\ DOMAIN t = 1 .. Len(r) + 1 /\ t[1] = e
        /\ \A i \in 2 .. Len(t) : t[i] = r[i - 1]
    BY <2>1, Pushed
  <2>3. H!Add(e) = t
    BY <1>2 DEF H!Add
  <2> HIDE DEF t
  <2>4. Len(t) = Len(entries) /\ \A i \in 2 .. Len(t) : t[i] = entries[i]
    BY <1>1, <2>1, <2>2
  <2>5. Len(t) \in Nat \ {0} /\ DOMAIN t = 1 .. Len(t)
    BY <1>1, <2>1, <2>2, <2>4
  <2>6. QED BY <1>2, <2>2, <2>3, <2>4, <2>5
<1>3. CASE ~(entries # <<>> /\ H!Call(entries[1]) = H!Call(e))
  <2> DEFINE r == H!Truncate(entries, Limit - 1)
             t == <<e>> \o r
  <2>1. Limit - 1 \in Nat
    BY HistoryConstants
  <2>2. /\ r \in Seq(Entry) /\ Len(r) \in Nat
        /\ Len(r) <= Len(entries) /\ Len(r) <= Limit - 1
        /\ Len(r) = Len(entries) \/ Len(r) = Limit - 1
        /\ \A i \in 1 .. Len(r) : r[i] = entries[i]
    BY <1>1, <2>1, TruncateKeeps
  <2>3. H!Add(e) = t
    BY <1>3 DEF H!Add
  <2> HIDE DEF r
  <2>4. t \in Seq(Entry) /\ Len(t) = Len(r) + 1 /\ DOMAIN t = 1 .. Len(r) + 1 /\ t[1] = e
        /\ \A i \in 2 .. Len(t) : t[i] = r[i - 1]
    BY <2>2, Pushed
  <2> HIDE DEF t
  <2>5. \A i \in 2 .. Len(t) : t[i] = entries[i - 1]
    BY <2>2, <2>4
  <2>6. Len(t) <= Limit /\ Len(t) <= Len(entries) + 1 /\ Len(t) \in Nat \ {0}
        /\ (Len(t) = Limit \/ Len(t) = Len(entries) + 1) /\ DOMAIN t = 1 .. Len(t)
    BY <1>1, <2>1, <2>2, <2>4, HistoryConstants
  <2>7. QED BY <1>3, <2>3, <2>4, <2>5, <2>6
<1>4. QED BY <1>2, <1>3

\* What is added to a dated history, now, is one.
LEMMA AddIsDated ==
  ASSUME sends \in Nat, Dated(entries, sends), NoneTwice(entries),
         NEW e \in Entry, e.at = sends + 1
  PROVE  Dated(H!Add(e), sends + 1) /\ NoneTwice(H!Add(e))
<1> DEFINE t == H!Add(e)
<1>1. /\ entries \in Seq(Entry) /\ Len(entries) \in Nat /\ DOMAIN entries = 1 .. Len(entries)
      /\ \A i \in 1 .. Len(entries) : entries[i] \in Entry /\ entries[i].at \in Nat /\ entries[i].at <= sends
      /\ \A i, j \in 1 .. Len(entries) : i < j => entries[i].at > entries[j].at
      /\ \A i \in 2 .. Len(entries) : H!Call(entries[i - 1]) # H!Call(entries[i])
  BY DatedRows DEF NoneTwice
<1>2. /\ t \in Seq(Entry) /\ Len(t) \in Nat \ {0} /\ DOMAIN t = 1 .. Len(t) /\ t[1] = e
      /\ \/ /\ entries # <<>> /\ H!Call(entries[1]) = H!Call(e) /\ Len(t) = Len(entries)
            /\ \A i \in 2 .. Len(t) : t[i] = entries[i]
         \/ /\ ~(entries # <<>> /\ H!Call(entries[1]) = H!Call(e))
            /\ Len(t) <= Limit /\ Len(t) <= Len(entries) + 1
            /\ \A i \in 2 .. Len(t) : t[i] = entries[i - 1]
  BY AddShapes
<1> SUFFICES Dated(t, sends + 1) /\ NoneTwice(t)
  OBVIOUS
<1> HIDE DEF t
<1>3. CASE /\ entries # <<>> /\ H!Call(entries[1]) = H!Call(e) /\ Len(t) = Len(entries)
           /\ \A i \in 2 .. Len(t) : t[i] = entries[i]
  <2>1. \A i \in DOMAIN t : i = 1 \/ (i \in 2 .. Len(t) /\ i \in 1 .. Len(entries) /\ t[i] = entries[i])
    BY <1>2, <1>3
  <2>2. \A i \in DOMAIN t : t[i].at \in Nat /\ t[i].at <= sends + 1 /\ (i # 1 => t[i].at < sends + 1)
    <3> SUFFICES ASSUME NEW i \in DOMAIN t
                 PROVE  t[i].at \in Nat /\ t[i].at <= sends + 1 /\ (i # 1 => t[i].at < sends + 1)
      OBVIOUS
    <3>1. CASE i = 1
      BY <1>2, <3>1
    <3>2. CASE i # 1
      <4>1. t[i] = entries[i] /\ entries[i].at \in Nat /\ entries[i].at <= sends
        BY <1>1, <2>1, <3>2
      <4>2. QED BY <4>1
    <3>3. QED BY <3>1, <3>2
  <2>3. \A i, j \in DOMAIN t : i < j => t[i].at > t[j].at
    <3> SUFFICES ASSUME NEW i \in DOMAIN t, NEW j \in DOMAIN t, i < j PROVE t[i].at > t[j].at
      OBVIOUS
    <3>1. j # 1
      BY <1>2
    <3>2. t[j] = entries[j] /\ j \in 1 .. Len(entries) /\ t[j].at \in Nat /\ t[j].at < sends + 1
      BY <2>1, <2>2, <3>1
    <3>3. CASE i = 1
      BY <1>2, <3>2, <3>3
    <3>4. CASE i # 1
      BY <1>1, <2>1, <3>2, <3>4
    <3>5. QED BY <3>3, <3>4
  <2>4. \A i \in 2 .. Len(t) : H!Call(t[i - 1]) # H!Call(t[i])
    <3> SUFFICES ASSUME NEW i \in 2 .. Len(t) PROVE H!Call(t[i - 1]) # H!Call(t[i])
      OBVIOUS
    <3>1. t[i] = entries[i] /\ H!Call(entries[i - 1]) # H!Call(entries[i])
      BY <1>1, <1>3
    <3>2. H!Call(t[i - 1]) = H!Call(entries[i - 1])
      <4>1. CASE i = 2
        BY <1>2, <1>3, <4>1
      <4>2. CASE i # 2
        <5>1. i - 1 \in 2 .. Len(t)
          BY <1>2, <4>2
        <5>2. QED BY <1>3, <5>1
      <4>3. QED BY <4>1, <4>2
    <3>3. QED BY <3>1, <3>2
  <2>5. QED BY <1>2, <2>2, <2>3, <2>4 DEF Dated, NoneTwice
<1>4. CASE /\ ~(entries # <<>> /\ H!Call(entries[1]) = H!Call(e))
           /\ Len(t) <= Limit /\ Len(t) <= Len(entries) + 1
           /\ \A i \in 2 .. Len(t) : t[i] = entries[i - 1]
  <2>1. \A i \in DOMAIN t : i = 1 \/ (i \in 2 .. Len(t) /\ i - 1 \in 1 .. Len(entries) /\ t[i] = entries[i - 1])
    <3>1. Len(t) <= Len(entries) + 1 /\ Len(entries) \in Nat /\ Len(t) \in Nat /\ DOMAIN t = 1 .. Len(t)
      BY <1>1, <1>2, <1>4
    <3>2. \A i \in DOMAIN t : i = 1 \/ (i \in 2 .. Len(t) /\ i - 1 \in 1 .. Len(entries))
      BY <3>1
    <3>3. QED BY <1>4, <3>2
  <2>2. \A i \in DOMAIN t : t[i].at \in Nat /\ t[i].at <= sends + 1 /\ (i # 1 => t[i].at < sends + 1)
    <3> SUFFICES ASSUME NEW i \in DOMAIN t
                 PROVE  t[i].at \in Nat /\ t[i].at <= sends + 1 /\ (i # 1 => t[i].at < sends + 1)
      OBVIOUS
    <3>1. CASE i = 1
      BY <1>2, <3>1
    <3>2. CASE i # 1
      <4>1. t[i] = entries[i - 1] /\ entries[i - 1].at \in Nat /\ entries[i - 1].at <= sends
        BY <1>1, <2>1, <3>2
      <4>2. QED BY <4>1
    <3>3. QED BY <3>1, <3>2
  <2>3. \A i, j \in DOMAIN t : i < j => t[i].at > t[j].at
    <3> SUFFICES ASSUME NEW i \in DOMAIN t, NEW j \in DOMAIN t, i < j PROVE t[i].at > t[j].at
      OBVIOUS
    <3>1. j # 1
      BY <1>2
    <3>2. t[j] = entries[j - 1] /\ j - 1 \in 1 .. Len(entries) /\ t[j].at \in Nat /\ t[j].at < sends + 1
      BY <2>1, <2>2, <3>1
    <3>3. CASE i = 1
      BY <1>2, <3>2, <3>3
    <3>4. CASE i # 1
      <4>1. i - 1 \in 1 .. Len(entries) /\ t[i] = entries[i - 1] /\ i - 1 < j - 1
        BY <1>2, <2>1, <3>4
      <4>2. QED BY <1>1, <3>2, <4>1
    <3>5. QED BY <3>3, <3>4
  <2>4. \A i \in 2 .. Len(t) : H!Call(t[i - 1]) # H!Call(t[i])
    <3> SUFFICES ASSUME NEW i \in 2 .. Len(t) PROVE H!Call(t[i - 1]) # H!Call(t[i])
      OBVIOUS
    <3>1. i \in DOMAIN t /\ i # 1
      BY <1>2
    <3>2. t[i] = entries[i - 1] /\ i - 1 \in 1 .. Len(entries)
      BY <2>1, <3>1
    <3>3. CASE i = 2
      <4>1. t[1] = e /\ t[2] = entries[1]
        BY <1>2, <3>2, <3>3
      <4>2. entries # <<>>
        BY <1>1, <3>2
      <4>3. QED BY <1>4, <3>3, <4>1, <4>2
    <3>4. CASE i # 2
      <4>1. i - 1 \in 2 .. Len(t) /\ i - 1 \in 2 .. Len(entries)
        BY <3>2, <3>4
      <4>2. t[i - 1] = entries[i - 1 - 1] /\ H!Call(entries[i - 1 - 1]) # H!Call(entries[i - 1])
        BY <1>1, <1>4, <4>1
      <4>3. QED BY <3>2, <4>2
    <3>5. QED BY <3>3, <3>4
  <2>5. QED BY <1>2, <2>2, <2>3, <2>4 DEF Dated, NoneTwice
<1>5. QED BY <1>2, <1>3, <1>4

\* The newest entry is the latest send, and there is one once anything was sent.
LEMMA TopIsTheLatest ==
  ASSUME Dated(entries, sends), Dated(log, sends), H!HistoryIsRecent
  PROVE  /\ entries # <<>> <=> log # <<>>
         /\ entries # <<>> => entries[1] = log[1]
<1>1. /\ entries \in Seq(Entry) /\ Len(entries) \in Nat /\ DOMAIN entries = 1 .. Len(entries)
      /\ log \in Seq(Entry) /\ Len(log) \in Nat /\ DOMAIN log = 1 .. Len(log)
      /\ \A i \in 1 .. Len(log) : log[i].at \in Nat
      /\ \A i \in 1 .. Len(entries) : entries[i].at \in Nat
      /\ \A i, j \in 1 .. Len(log) : i < j => log[i].at > log[j].at
      /\ \A i, j \in 1 .. Len(entries) : i < j => entries[i].at > entries[j].at
  BY DatedRows
<1>2. \A x \in H!Newest : \E i \in 1 .. Len(log) : x = log[i]
  BY <1>1 DEF H!Newest
<1>3. \A i \in 1 .. Len(entries) : entries[i] \in H!Newest
  BY <1>1 DEF H!HistoryIsRecent
<1>4. log # <<>> => log[1] \in H!Newest
  <2>1. log # <<>> => 1 \in DOMAIN log /\ ~(1 > 1)
    BY <1>1
  <2>2. QED BY <2>1 DEF H!Newest
<1>5. \A i \in 1 .. Len(entries) : log # <<>> /\ entries[i].at <= log[1].at
  <2> SUFFICES ASSUME NEW i \in 1 .. Len(entries) PROVE log # <<>> /\ entries[i].at <= log[1].at
    OBVIOUS
  <2>1. PICK k \in 1 .. Len(log) : entries[i] = log[k]
    BY <1>2, <1>3
  <2>2. QED BY <1>1, <2>1
<1>6. log # <<>> => \E m \in 1 .. Len(entries) : entries[m] = log[1]
  <2> SUFFICES ASSUME log # <<>> PROVE \E m \in 1 .. Len(entries) : entries[m] = log[1]
    OBVIOUS
  <2>1. log[1] \in H!Range(entries) \/ (Len(entries) = Limit /\ log[1].at < entries[Limit].at)
    BY <1>4 DEF H!HistoryIsRecent
  <2>2. CASE log[1] \in H!Range(entries)
    BY <1>1, <2>2 DEF H!Range
  <2>3. CASE Len(entries) = Limit /\ log[1].at < entries[Limit].at
    <3>1. Limit \in 1 .. Len(entries)
      BY <2>3, HistoryConstants
    <3>2. 1 \in 1 .. Len(log)
      BY <1>1
    <3>3. entries[Limit].at <= log[1].at /\ log[1].at \in Nat /\ entries[Limit].at \in Nat
      BY <1>1, <1>5, <3>1, <3>2
    <3>4. QED BY <2>3, <3>3
  <2>4. QED BY <2>1, <2>2, <2>3
<1>7. entries # <<>> => entries[1] = log[1]
  <2> SUFFICES ASSUME entries # <<>> PROVE entries[1] = log[1]
    OBVIOUS
  <2>1. 1 \in 1 .. Len(entries) /\ log # <<>> /\ entries[1].at <= log[1].at
    BY <1>1, <1>5
  <2>2. PICK m \in 1 .. Len(entries) : entries[m] = log[1]
    BY <1>6, <2>1
  <2>3. CASE m = 1
    BY <2>2, <2>3
  <2>4. CASE m # 1
    <3>1. entries[1].at > entries[m].at /\ entries[m].at \in Nat /\ entries[1].at \in Nat
      BY <1>1, <2>1, <2>4
    <3>2. QED BY <2>1, <2>2, <3>1
  <2>5. QED BY <2>3, <2>4
<1>8. QED BY <1>1, <1>5, <1>6, <1>7

\* A send is the newest of a run: of its own, or of the one it goes on.
LEMMA NewestGrows ==
  ASSUME Dated(log, sends), NEW e \in Entry, log' = <<e>> \o log
  PROVE  \A x : x \in H!Newest' <=>
           x = e \/ (x \in H!Newest /\ (x # log[1] \/ H!Call(log[1]) # H!Call(e)))
<1> DEFINE n == Len(log)
<1>1. log \in Seq(Entry) /\ n \in Nat /\ DOMAIN log = 1 .. n
      /\ \A i, j \in 1 .. n : i < j => log[i] # log[j]
  BY DatedRows
<1>2. Len(log') = n + 1 /\ DOMAIN log' = 1 .. n + 1 /\ log'[1] = e
      /\ \A i \in 2 .. n + 1 : log'[i] = log[i - 1]
  BY <1>1, Pushed
<1> HIDE DEF n
<1>3. \A x : x \in H!Newest' <=> \E j \in 1 .. n + 1 : x = log'[j] /\ (j > 1 => H!Call(log'[j - 1]) # H!Call(log'[j]))
  BY <1>2 DEF H!Newest
<1>4. \A x : x \in H!Newest <=> \E j \in 1 .. n : x = log[j] /\ (j > 1 => H!Call(log[j - 1]) # H!Call(log[j]))
  BY <1>1 DEF H!Newest
<1>5. ASSUME NEW x, x \in H!Newest'
      PROVE  x = e \/ (x \in H!Newest /\ (x # log[1] \/ H!Call(log[1]) # H!Call(e)))
  <2>1. PICK j \in 1 .. n + 1 : x = log'[j] /\ (j > 1 => H!Call(log'[j - 1]) # H!Call(log'[j]))
    BY <1>3, <1>5
  <2>2. CASE j = 1
    BY <1>2, <2>1, <2>2
  <2>3. CASE j = 2
    <3>1. x = log[1] /\ H!Call(log[1]) # H!Call(e) /\ 1 \in 1 .. n
      BY <1>1, <1>2, <2>1, <2>3
    <3>2. QED BY <1>4, <3>1
  <2>4. CASE j > 2
    <3>1. j - 1 \in 1 .. n /\ j - 1 > 1 /\ j - 1 \in 2 .. n + 1 /\ j \in 2 .. n + 1
      BY <1>1, <2>1, <2>4
    <3>2. x = log[j - 1] /\ log'[j - 1] = log[j - 1 - 1] /\ log'[j] = log[j - 1]
      BY <1>2, <2>1, <3>1
    <3>3. j > 1
      BY <2>4
    <3>4. H!Call(log'[j - 1]) # H!Call(log'[j])
      BY <2>1, <3>3
    <3>5. H!Call(log[j - 1 - 1]) # H!Call(log[j - 1])
      BY <3>2, <3>4
    <3>6. x # log[1]
      BY <1>1, <3>1, <3>2
    <3>7. QED BY <1>4, <3>1, <3>5, <3>6, <3>2
  <2>5. QED BY <1>1, <2>2, <2>3, <2>4
<1>6. ASSUME NEW x, x = e
      PROVE  x \in H!Newest'
  <2>1. 1 \in 1 .. n + 1 /\ x = log'[1] /\ ~(1 > 1)
    BY <1>1, <1>2, <1>6
  <2>2. QED BY <1>3, <2>1
<1>7. ASSUME NEW x \in H!Newest, x # log[1] \/ H!Call(log[1]) # H!Call(e)
      PROVE  x \in H!Newest'
  <2>1. PICK j \in 1 .. n : x = log[j] /\ (j > 1 => H!Call(log[j - 1]) # H!Call(log[j]))
    BY <1>4
  <2>2. PICK k \in 2 .. n + 1 : k = j + 1
    BY <1>1
  <2>3. log'[k] = log[j] /\ k - 1 = j /\ k \in 1 .. n + 1
    BY <1>1, <1>2, <2>2
  <2>4. H!Call(log'[k - 1]) # H!Call(log'[k])
    <3>1. CASE j = 1
      <4>1. log'[k - 1] = e /\ log'[k] = log[1] /\ H!Call(e) # H!Call(log[1])
        BY <1>2, <1>7, <2>1, <2>3, <3>1
      <4>2. QED BY <4>1
    <3>2. CASE j > 1
      <4>1. H!Call(log[j - 1]) # H!Call(log[j])
        BY <2>1, <3>2
      <4>2. log'[k - 1] = log[j - 1]
        BY <1>1, <1>2, <2>2, <2>3, <3>2
      <4>3. QED BY <2>3, <4>1, <4>2
    <3>3. QED BY <1>1, <3>1, <3>2
  <2>5. x = log'[k]
    BY <2>1, <2>3
  <2>6. QED BY <1>3, <2>3, <2>4, <2>5
<1>8. QED BY <1>5, <1>6, <1>7

\* ctrl+s: an entry in place of the newest, or before it with the oldest out at the limit.
LEMMA SendIsRecent ==
  ASSUME RecentInv, NEW e \in Entry, e.at = sends + 1,
         log' = <<e>> \o log, entries' = H!Add(e)
  PROVE  H!HistoryIsRecent'
<1>1. Dated(entries, sends) /\ Dated(log, sends) /\ NoneTwice(entries) /\ sends \in Nat
      /\ H!HistoryIsRecent
  BY DEF RecentInv
<1>2. Limit \in Nat \ {0}
  BY HistoryConstants
<1>3. /\ entries \in Seq(Entry) /\ Len(entries) \in Nat /\ DOMAIN entries = 1 .. Len(entries)
      /\ \A i \in 1 .. Len(entries) : entries[i].at \in Nat /\ entries[i].at <= sends
      /\ \A i, j \in 1 .. Len(entries) : i < j => entries[i].at > entries[j].at /\ entries[i] # entries[j]
  BY <1>1, DatedRows
<1>4. /\ \A i \in 1 .. Len(entries) : entries[i] \in H!Newest
      /\ Len(entries) <= Limit
      /\ \A x \in H!Newest : \/ \E i \in 1 .. Len(entries) : x = entries[i]
                             \/ Len(entries) = Limit /\ x.at < entries[Limit].at
  <2>1. \A x \in H!Range(entries) : \E i \in 1 .. Len(entries) : x = entries[i]
    BY <1>3 DEF H!Range
  <2>2. QED BY <1>1, <1>3, <2>1 DEF H!HistoryIsRecent
<1>5. \A x \in H!Newest : x.at \in Nat /\ x.at <= sends
  <2>1. \A i \in DOMAIN log : log[i].at \in Nat /\ log[i].at <= sends
    BY <1>1, DatedRows
  <2>2. QED BY <2>1 DEF H!Newest
<1>6. (entries # <<>> <=> log # <<>>) /\ (entries # <<>> => entries[1] = log[1])
  BY <1>1, TopIsTheLatest
<1>7. \A x : x \in H!Newest' <=> x = e \/ (x \in H!Newest /\ (x # log[1] \/ H!Call(log[1]) # H!Call(e)))
  BY <1>1, NewestGrows
<1>8. Dated(entries', sends + 1)
  BY <1>1, AddIsDated
<1>9. /\ Len(entries') \in Nat \ {0} /\ DOMAIN entries' = 1 .. Len(entries') /\ entries'[1] = e
      /\ \/ /\ entries # <<>> /\ H!Call(entries[1]) = H!Call(e) /\ Len(entries') = Len(entries)
            /\ \A i \in 2 .. Len(entries') : entries'[i] = entries[i]
         \/ /\ ~(entries # <<>> /\ H!Call(entries[1]) = H!Call(e))
            /\ Len(entries') <= Limit /\ Len(entries') <= Len(entries) + 1
            /\ Len(entries') = Limit \/ Len(entries') = Len(entries) + 1
            /\ \A i \in 2 .. Len(entries') : entries'[i] = entries[i - 1]
  BY <1>1, AddShapes
<1>10. Len(entries') \in Nat /\ Len(entries') >= 1 /\ entries'[1] = e
  <2>1. Len(entries') \in Nat \ {0} /\ entries'[1] = e
    BY ONLY <1>9
  <2>2. QED BY <2>1
<1>11. 1 \in 1 .. Len(entries') /\ \A i \in 1 .. Len(entries') : i = 1 \/ i \in 2 .. Len(entries')
  BY <1>10
<1> SUFFICES /\ Len(entries') <= Limit
             /\ \A i \in 1 .. Len(entries') : entries'[i] \in H!Newest'
             /\ \A x \in H!Newest' : \/ \E i \in 1 .. Len(entries') : x = entries'[i]
                                     \/ Len(entries') = Limit /\ x.at < entries'[Limit].at
  <2>1. \A i, j \in DOMAIN entries' : i < j => entries'[i].at > entries'[j].at
    BY <1>8 DEF Dated
  <2>2. \A i \in 1 .. Len(entries') : entries'[i] \in H!Range(entries')
    BY <1>9 DEF H!Range
  <2>3. QED BY <1>9, <2>1, <2>2 DEF H!HistoryIsRecent
<1>12. CASE /\ entries # <<>> /\ H!Call(entries[1]) = H!Call(e) /\ Len(entries') = Len(entries)
            /\ \A i \in 2 .. Len(entries') : entries'[i] = entries[i]
  <2>1. \A i \in 2 .. Len(entries') : i \in 1 .. Len(entries) /\ 1 \in 1 .. Len(entries) /\ 1 < i
    BY <1>3, <1>12, <1>10
  <2>2. \A i \in 2 .. Len(entries') : entries'[i] \in H!Newest'
    BY <1>3, <1>4, <1>6, <1>7, <1>12, <2>1
  <2>4. ASSUME NEW x \in H!Newest'
        PROVE  \/ \E i \in 1 .. Len(entries') : x = entries'[i]
               \/ Len(entries') = Limit /\ x.at < entries'[Limit].at
    <3>1. CASE x = e
      BY <1>10, <1>11, <3>1
    <3>2. CASE x \in H!Newest /\ x # entries[1]
      <4>1. CASE \E i \in 1 .. Len(entries) : x = entries[i]
        <5>1. PICK i \in 1 .. Len(entries) : x = entries[i]
          BY <4>1
        <5>2. i \in 2 .. Len(entries') /\ i \in 1 .. Len(entries')
          BY <1>3, <1>12, <3>2, <5>1
        <5>3. QED BY <1>12, <5>1, <5>2
      <4>2. CASE Len(entries) = Limit /\ x.at < entries[Limit].at
        <5>1. CASE Limit = 1
          BY <1>1, <1>5, <1>12, <1>10, <3>2, <4>2, <5>1
        <5>2. CASE Limit # 1
          <6>1. Limit \in 2 .. Len(entries')
            BY <1>2, <1>12, <4>2, <5>2
          <6>2. QED BY <1>12, <4>2, <6>1
        <5>3. QED BY <5>1, <5>2
      <4>3. QED BY <1>4, <3>2, <4>1, <4>2
    <3>3. QED BY <1>6, <1>7, <1>12, <3>1, <3>2
  <2>5. \A i \in 1 .. Len(entries') : entries'[i] \in H!Newest'
    BY <1>7, <1>10, <1>11, <2>2
  <2>6. QED BY <1>4, <1>12, <2>4, <2>5
<1>13. CASE /\ ~(entries # <<>> /\ H!Call(entries[1]) = H!Call(e))
            /\ Len(entries') <= Limit /\ Len(entries') <= Len(entries) + 1
            /\ Len(entries') = Limit \/ Len(entries') = Len(entries) + 1
            /\ \A i \in 2 .. Len(entries') : entries'[i] = entries[i - 1]
  <2>1. \A i \in 2 .. Len(entries') : i - 1 \in 1 .. Len(entries)
    BY <1>3, <1>13, <1>10
  <2>2. entries # <<>> => H!Call(log[1]) # H!Call(e)
    BY <1>6, <1>13
  <2>3. \A i \in 1 .. Len(entries) : entries # <<>>
    BY <1>3
  <2>4. \A i \in 2 .. Len(entries') : entries'[i] \in H!Newest'
    BY <1>4, <1>7, <1>13, <2>1, <2>2, <2>3
  <2>6. ASSUME NEW x \in H!Newest'
        PROVE  \/ \E i \in 1 .. Len(entries') : x = entries'[i]
               \/ Len(entries') = Limit /\ x.at < entries'[Limit].at
    <3>1. CASE x = e
      BY <1>10, <1>11, <3>1
    <3>2. CASE x \in H!Newest
      <4>1. x.at \in Nat /\ x.at <= sends
        BY <1>5, <3>2
      <4>2. ASSUME Len(entries) = Limit, x.at <= entries[Limit].at
            PROVE  Len(entries') = Limit /\ x.at < entries'[Limit].at
        <5>1. Len(entries') = Limit
          BY <1>2, <1>13, <4>2
        <5>2. CASE Limit = 1
          BY <1>1, <1>10, <4>1, <5>1, <5>2
        <5>3. CASE Limit # 1
          <6>1. Limit \in 2 .. Len(entries') /\ Limit - 1 \in 1 .. Len(entries)
                /\ Limit \in 1 .. Len(entries) /\ Limit - 1 < Limit
            BY <1>2, <4>2, <5>1, <5>3
          <6>2. entries'[Limit] = entries[Limit - 1] /\ entries[Limit - 1].at > entries[Limit].at
                /\ entries[Limit].at \in Nat /\ entries[Limit - 1].at \in Nat
            BY <1>3, <1>13, <6>1
          <6>3. QED BY <4>1, <4>2, <5>1, <6>2
        <5>4. QED BY <5>2, <5>3
      <4>3. CASE \E i \in 1 .. Len(entries) : x = entries[i]
        <5>1. PICK i \in 1 .. Len(entries) : x = entries[i]
          BY <4>3
        <5>2. CASE i + 1 <= Len(entries')
          <6>1. i + 1 \in 2 .. Len(entries') /\ i + 1 - 1 = i /\ i + 1 \in 1 .. Len(entries')
            BY <1>3, <1>10, <5>2
          <6>2. QED BY <1>13, <5>1, <6>1
        <5>3. CASE i + 1 > Len(entries')
          <6>1. Len(entries') = Limit \/ Len(entries') = Len(entries) + 1
            BY <1>13
          <6>2. Len(entries) \in Nat /\ Len(entries) <= Limit
            BY <1>3, <1>4
          <6>3. Len(entries) = Limit /\ i = Limit
            BY <1>2, <1>10, <5>3, <6>1, <6>2
          <6>4. x.at <= entries[Limit].at
            BY <4>1, <5>1, <6>3
          <6>5. QED BY <4>2, <6>3, <6>4
        <5>4. i + 1 <= Len(entries') \/ i + 1 > Len(entries')
          BY <1>3, <1>10
        <5>5. QED BY ONLY <5>2, <5>3, <5>4
      <4>4. CASE Len(entries) = Limit /\ x.at < entries[Limit].at
        <5>1. Limit \in 1 .. Len(entries)
          BY <1>2, <4>4
        <5>2. entries[Limit].at \in Nat
          BY <1>3, <5>1
        <5>3. QED BY <4>1, <4>2, <4>4, <5>2
      <4>5. QED BY <1>4, <3>2, <4>3, <4>4
    <3>3. QED BY <1>7, <3>1, <3>2
  <2>7. \A i \in 1 .. Len(entries') : entries'[i] \in H!Newest'
    BY <1>7, <1>10, <1>11, <2>4
  <2>8. QED BY <1>13, <2>6, <2>7
<1>14. QED BY <1>9, <1>12, <1>13

\* Whatever leaves the list, the log and the clock alone, and puts on the disk only
\* what was on its way there.
LEMMA RecentStays ==
  ASSUME RecentInv, UNCHANGED <<entries, log, sends>>,
         form' = H!Blank \/ form' \in Entry, server' \in Servers,
         file' = file \/ \E s \in saves : file' = s.entries,
         \A s \in saves' : \E t \in saves : s \in {t, [t EXCEPT !.written = TRUE]}
  PROVE  RecentInv'
<1>1. H!HistoryIsRecent'
  BY DEF RecentInv, H!HistoryIsRecent, H!Newest
<1>2. Dated(log', sends') /\ Dated(entries', sends') /\ NoneTwice(entries') /\ sends' \in Nat
  BY DEF RecentInv
<1>3. Dated(file', sends') /\ NoneTwice(file')
  BY DEF RecentInv
<1>4. \A s \in saves' : /\ s \in [entries : Seq(Entry), written : BOOLEAN]
                         /\ \E t \in saves : s.entries = t.entries
  BY DEF RecentInv
<1>5. \A s \in saves' : Dated(s.entries, sends') /\ NoneTwice(s.entries)
  BY <1>4 DEF RecentInv
<1>6. QED BY <1>1, <1>2, <1>3, <1>4, <1>5 DEF RecentInv

\* What is loaded from the history is an entry.
LEMMA Loaded ==
  ASSUME RecentInv, NEW i \in DOMAIN entries
  PROVE  entries[i] \in Entry
BY DatedRows DEF RecentInv

\* So is the request a send records.
LEMMA StampedIsEntry ==
  ASSUME NEW e \in Entry, NEW n \in Nat, NEW s \in Servers
  PROVE  LET t == [e EXCEPT !.at = n, !.target = s] IN t \in Entry /\ t.at = n
<1> DEFINE t == [e EXCEPT !.at = n]
<1>1. t \in Entry /\ t.at = n
  BY DEF Entry
<1> HIDE DEF t
<1>2. [t EXCEPT !.target = s] \in Entry /\ [t EXCEPT !.target = s].at = n
  BY <1>1 DEF Entry
<1>3. QED BY <1>2 DEF t

\* So is a request just built.
LEMMA ServedIsEntry ==
  ASSUME NEW r \in Requests
  PROVE  /\ server \in Servers => [req |-> r, at |-> 0, target |-> server] \in Entry
         /\ form \in Entry => [form EXCEPT !.req = r, !.at = 0] \in Entry
BY DEF Entry

\* ctrl+s, with the log, the clock and the save it starts.
LEMMA RecentSend ==
  ASSUME RecentInv, H!Send
  PROVE  RecentInv'
<1>1. /\ sends' = sends + 1 /\ form' = [form EXCEPT !.at = sends', !.target = server] /\ form # H!Blank
      /\ entries' = H!Add(form') /\ saves' = saves \union {[entries |-> entries', written |-> FALSE]}
      /\ log' = <<form'>> \o log /\ file' = file /\ server' = server
  BY DEF H!Send, H!Record
<1>2. form \in Entry /\ sends \in Nat /\ Dated(entries, sends) /\ NoneTwice(entries) /\ Dated(log, sends)
      /\ server \in Servers
  BY <1>1 DEF RecentInv
<1>3. form' \in Entry /\ form'.at = sends + 1
  BY <1>1, <1>2, sends + 1 \in Nat, StampedIsEntry
<1>4. Dated(entries', sends') /\ NoneTwice(entries')
  BY <1>1, <1>2, <1>3, AddIsDated
<1>5. H!HistoryIsRecent'
  BY <1>1, <1>3, SendIsRecent
<1>6. Dated(log', sends')
  <2>1. /\ Len(log) \in Nat /\ log \in Seq(Entry)
        /\ \A i \in 1 .. Len(log) : log[i].at \in Nat /\ log[i].at <= sends
        /\ \A i, j \in 1 .. Len(log) : i < j => log[i].at > log[j].at
    BY <1>2, DatedRows
  <2>2. log' \in Seq(Entry) /\ Len(log') = Len(log) + 1 /\ DOMAIN log' = 1 .. Len(log) + 1
        /\ log'[1] = form' /\ \A i \in 2 .. Len(log') : log'[i] = log[i - 1]
    BY <1>1, <1>3, <2>1, Pushed
  <2>3. \A i \in DOMAIN log' : i = 1 \/ (i \in 2 .. Len(log') /\ i - 1 \in 1 .. Len(log))
    BY <2>1, <2>2
  <2>4. \A i \in DOMAIN log' : i # 1 => log'[i] = log[i - 1] /\ log'[i].at \in Nat /\ log'[i].at <= sends
    BY <2>1, <2>2, <2>3
  <2>5. \A i \in DOMAIN log' : log'[i].at <= sends'
    <3> SUFFICES ASSUME NEW i \in DOMAIN log' PROVE log'[i].at <= sends'
      OBVIOUS
    <3>1. CASE i = 1
      <4>1. log'[i].at = sends + 1
        BY <1>3, <2>2, <3>1
      <4>2. sends' = sends + 1 /\ sends \in Nat
        BY <1>1, <1>2
      <4>3. QED BY <4>1, <4>2
    <3>2. CASE i # 1
      BY <1>1, <1>2, <2>4, <3>2
    <3>3. QED BY <3>1, <3>2
  <2>6. \A i, j \in DOMAIN log' : i < j => log'[i].at > log'[j].at
    <3> SUFFICES ASSUME NEW i \in DOMAIN log', NEW j \in DOMAIN log', i < j
                 PROVE  log'[i].at > log'[j].at
      OBVIOUS
    <3>1. j # 1
      BY <2>2
    <3>2. CASE i = 1
      BY <1>2, <1>3, <2>2, <2>4, <3>1, <3>2
    <3>3. CASE i # 1
      <4>1. i - 1 \in 1 .. Len(log) /\ j - 1 \in 1 .. Len(log) /\ i - 1 < j - 1
        BY <2>2, <2>3, <3>1, <3>3
      <4>2. QED BY <2>1, <2>4, <3>1, <3>3, <4>1
    <3>4. QED BY <3>2, <3>3
  <2>7. QED BY <2>2, <2>5, <2>6 DEF Dated
<1>7. \A s : Dated(s, sends) => Dated(s, sends')
  BY <1>1, <1>2, sends + 1 \in Nat, sends <= sends + 1, DatedLater
<1>8. Dated(file', sends') /\ NoneTwice(file')
  BY <1>1, <1>7 DEF RecentInv
<1>9. \A s \in saves' : /\ s \in [entries : Seq(Entry), written : BOOLEAN]
                         /\ Dated(s.entries, sends') /\ NoneTwice(s.entries)
  <2> SUFFICES ASSUME NEW s \in saves'
               PROVE  /\ s \in [entries : Seq(Entry), written : BOOLEAN]
                      /\ Dated(s.entries, sends') /\ NoneTwice(s.entries)
    OBVIOUS
  <2>1. CASE s \in saves
    BY <1>7, <2>1 DEF RecentInv
  <2>2. CASE s = [entries |-> entries', written |-> FALSE]
    BY <1>4, <2>2 DEF Dated
  <2>3. QED BY <1>1, <2>1, <2>2
<1>10. sends' \in Nat /\ server' \in Servers /\ saves' \subseteq [entries : Seq(Entry), written : BOOLEAN]
  BY <1>1, <1>2, <1>9
<1>11. QED BY <1>3, <1>4, <1>5, <1>6, <1>8, <1>9, <1>10 DEF RecentInv

\* A session that begins takes its history, and its log, from the file.
LEMMA RecentRestart ==
  ASSUME RecentInv, NEW s \in Servers, H!Restart(s)
  PROVE  RecentInv'
<1>1. /\ entries' = H!Truncate(file, Limit) /\ log' = entries' /\ form' = H!Blank /\ server' = s
      /\ UNCHANGED <<saves, file, sends>>
  BY DEF H!Restart, H!disk
<1>2. Limit \in Nat /\ sends \in Nat /\ Dated(file, sends) /\ NoneTwice(file)
  BY HistoryConstants DEF RecentInv
<1>3. Dated(entries', sends) /\ NoneTwice(entries')
  BY <1>1, <1>2, DatedTruncated
<1>4. /\ entries' \in Seq(Entry) /\ Len(entries') \in Nat /\ DOMAIN entries' = 1 .. Len(entries')
      /\ \A i, j \in DOMAIN entries' : i < j => entries'[i].at > entries'[j].at
  BY <1>3, DatedRows
<1>5. Len(entries') <= Limit
  BY <1>1, <1>2, TruncateKeeps DEF Dated
<1>6. \A i \in DOMAIN entries' : i > 1 => H!Call(entries'[i - 1]) # H!Call(entries'[i])
  BY <1>3, <1>4 DEF NoneTwice
<1>7. \A i \in DOMAIN entries' : entries'[i] \in H!Newest'
  BY <1>1, <1>6 DEF H!Newest
<1>8. \A x \in H!Newest' : x \in H!Range(entries')
  BY <1>1 DEF H!Newest, H!Range
<1>9. H!HistoryIsRecent'
  BY <1>4, <1>5, <1>7, <1>8 DEF H!HistoryIsRecent
<1>10. QED BY <1>1, <1>2, <1>3, <1>9 DEF RecentInv

\* One step of a session, or between two, per action.
LEMMA RecentStep ==
  ASSUME RecentInv, H!Next
  PROVE  RecentInv'
<1>1. ASSUME NEW r \in Requests, H!Select(r) \/ H!Edit(r)
      PROVE  RecentInv'
  <2>1. server' = server /\ server' \in Servers
    BY <1>1 DEF H!Select, H!Edit, RecentInv
  <2>2. form' \in Entry
    <3>1. server \in Servers /\ (form # H!Blank => form \in Entry)
      BY DEF RecentInv
    <3>2. \/ form' = [req |-> r, at |-> 0, target |-> server]
          \/ form # H!Blank /\ form' = [form EXCEPT !.req = r, !.at = 0]
      BY <1>1 DEF H!Select, H!Edit
    <3>3. QED BY <3>1, <3>2, ServedIsEntry
  <2>3. QED BY <1>1, <2>1, <2>2, RecentStays DEF H!Select, H!Edit, H!disk
<1>2. ASSUME NEW delta \in {-1, 1}, H!Step(delta)
      PROVE  RecentInv'
  <2>1. PICK next \in 0 .. Len(entries) - 1 : form' = entries[next + 1]
    BY <1>2 DEF H!Step, H!At
  <2>2. next + 1 \in DOMAIN entries
    BY DatedRows DEF RecentInv
  <2>3. server' \in Servers
    BY <1>2 DEF H!Step, RecentInv
  <2>4. QED BY <1>2, <2>1, <2>2, <2>3, Loaded, RecentStays DEF H!Step, H!disk
<1>3. ASSUME NEW i \in DOMAIN entries, H!Choose(entries[i])
      PROVE  RecentInv'
  <2>1. server' \in Servers
    BY <1>3 DEF H!Choose, RecentInv
  <2>2. QED BY <1>3, <2>1, Loaded, RecentStays DEF H!Choose, H!disk
<1>4. ASSUME NEW s \in Servers, H!Connect(s)
      PROVE  RecentInv'
  BY <1>4, RecentStays DEF H!Connect, H!disk
<1>5. CASE H!Fail \/ H!Retry \/ H!Discovered
  BY <1>5, RecentStays DEF H!Fail, H!Retry, H!Discovered, H!ui, H!disk, RecentInv
<1>6. ASSUME NEW s \in saves, H!Write(s)
      PROVE  RecentInv'
  BY <1>6, RecentStays DEF H!Write, H!ui, RecentInv
<1>7. ASSUME NEW s \in saves, H!Rename(s)
      PROVE  RecentInv'
  BY <1>7, RecentStays DEF H!Rename, H!ui, RecentInv
<1>8. ASSUME NEW s \in saves, H!WriteFails(s)
      PROVE  RecentInv'
  BY <1>8, RecentStays DEF H!WriteFails, H!ui, RecentInv
<1>9. CASE H!Crash
  BY <1>9, RecentStays DEF H!Crash, H!ui, RecentInv
<1>10. QED
  BY <1>1, <1>2, <1>3, <1>4, <1>5, <1>6, <1>7, <1>8, <1>9, RecentSend, RecentRestart DEF H!Next

\* RecentInv is inductive.
LEMMA PastHolds == Spec => [](kept = "history" => RecentInv)
<1> DEFINE Past == kept = "history" => RecentInv
<1>1. Init => Past
  <2> SUFFICES ASSUME kept = "history", H!Init PROVE RecentInv
    BY DEF Init
  <2>1. /\ entries = <<>> /\ log = <<>> /\ form = H!Blank /\ saves = {} /\ file \in {<<>>, Before}
        /\ server \in Servers
        /\ sends = IF Before = <<>> THEN 0 ELSE Before[1].at
    BY DEF H!Init
  <2>2. /\ Before \in Seq(Entry) /\ Len(Before) \in Nat /\ DOMAIN Before = 1 .. Len(Before)
        /\ \A i \in 1 .. Len(Before) : Before[i].at \in Nat
        /\ \A i, j \in 1 .. Len(Before) : i < j => Before[i].at > Before[j].at
        /\ NoneTwice(Before)
    BY HistoryConstants DEF NoneTwice
  <2>3. sends \in Nat /\ \A i \in 1 .. Len(Before) : Before[i].at <= sends
    <3>1. CASE Before = <<>>
      BY <2>1, <3>1
    <3>2. CASE Before # <<>>
      <4>1. 1 \in 1 .. Len(Before) /\ sends = Before[1].at
        BY <2>1, <2>2, <3>2
      <4>2. ASSUME NEW i \in 1 .. Len(Before) PROVE Before[i].at <= sends
        <5>1. i = 1 \/ 1 < i
          OBVIOUS
        <5>2. QED BY <2>2, <4>1, <5>1
      <4>3. QED BY <2>2, <4>1, <4>2
    <3>3. QED BY <3>1, <3>2
  <2>4. Dated(Before, sends)
    BY <2>2, <2>3 DEF Dated
  <2>5. <<>> \in Seq(Entry) /\ DOMAIN <<>> = {} /\ Len(<<>>) = 0
    OBVIOUS
  <2>6. Dated(<<>>, sends) /\ NoneTwice(<<>>)
    BY <2>5 DEF Dated, NoneTwice
  <2>7. H!HistoryIsRecent
    BY <2>1, <2>5, HistoryConstants DEF H!HistoryIsRecent, H!Newest
  <2>8. QED BY <2>1, <2>2, <2>3, <2>4, <2>6, <2>7 DEF RecentInv
<1>2. Past /\ [Next]_vars => Past'
  <2> SUFFICES ASSUME RecentInv, kept = "history", [Next]_vars PROVE RecentInv'
    BY DEF Next, vars
  <2>1. CASE H!Next
    BY <2>1, RecentStep
  <2>2. CASE UNCHANGED vars
    BY <2>2, RecentStays DEF vars, historyOnly, RecentInv
  <2>3. QED BY <2>1, <2>2 DEF Next
<1>3. QED BY <1>1, <1>2, PTL DEF Spec

\* Over any session, restarts included, the history is the recent past of what was
\* sent: every run of equal requests once, newest first, the oldest out at the limit
\* (history.go:94-160).
THEOREM HistoryIsThePast == Spec => []HistoryIsRecent
<1>1. (kept = "history" => RecentInv) => HistoryIsRecent
  BY DEF RecentInv, HistoryIsRecent
<1>2. QED BY <1>1, PastHolds, PTL

-----------------------------------------------------------------------------
(* The walk. *)

\* A send puts the walk on the entry it made; every other change of the form puts the
\* walk on what was loaded, or back at its start.
LEMMA WalkStep ==
  ASSUME RecentInv, H!WalkIsOnTheForm, H!Next
  PROVE  H!WalkIsOnTheForm'
<1>1. CASE H!Send
  <2>1. historyAt' = 0 /\ entries' = H!Add(form') /\ form # H!Blank
        /\ form' = [form EXCEPT !.at = sends', !.target = server] /\ sends' = sends + 1
    BY <1>1 DEF H!Send, H!Record
  <2>2. form \in Entry /\ sends' \in Nat /\ Dated(entries, sends) /\ server \in Servers
    BY <2>1 DEF RecentInv
  <2>3. form' \in Entry
    BY <2>1, <2>2, StampedIsEntry
  <2>4. entries'[1] = form'
    BY <2>1, <2>2, <2>3, AddShapes
  <2>5. QED BY <2>1, <2>4 DEF H!WalkIsOnTheForm, H!At
<1>2. ASSUME NEW r \in Requests, H!Select(r) \/ H!Edit(r)
      PROVE  H!WalkIsOnTheForm'
  <2>1. form # H!Blank => form \in Entry
    BY DEF RecentInv
  <2>2. form'.at = 0 \/ historyAt' = H!NoHistory
    BY <1>2, <2>1 DEF H!Select, H!Edit, Entry
  <2>3. QED BY <2>2 DEF H!WalkIsOnTheForm
<1>3. ASSUME NEW delta \in {-1, 1}, H!Step(delta)
      PROVE  H!WalkIsOnTheForm'
  BY <1>3 DEF H!Step, H!At, H!WalkIsOnTheForm
<1>4. ASSUME NEW i \in DOMAIN entries, H!Choose(entries[i])
      PROVE  H!WalkIsOnTheForm'
  BY <1>4 DEF H!Choose, H!WalkIsOnTheForm
<1>5. ASSUME NEW s \in Servers, H!Connect(s) \/ H!Restart(s)
      PROVE  H!WalkIsOnTheForm'
  BY <1>5 DEF H!Connect, H!Restart, H!WalkIsOnTheForm
<1>6. CASE H!Discovered
  BY <1>6 DEF H!Discovered, H!Blank, H!WalkIsOnTheForm
<1>7. CASE UNCHANGED <<entries, historyAt, form>>
  BY <1>7 DEF H!WalkIsOnTheForm, H!At
<1>8. ASSUME \/ H!Fail \/ H!Retry \/ H!Crash
             \/ \E s \in saves : H!Write(s) \/ H!Rename(s) \/ H!WriteFails(s)
      PROVE  UNCHANGED <<entries, historyAt, form>>
  BY <1>8 DEF H!Fail, H!Retry, H!Crash, H!Write, H!Rename, H!WriteFails, H!ui
<1>9. QED
  BY <1>1, <1>2, <1>3, <1>4, <1>5, <1>6, <1>7, <1>8 DEF H!Next

\* [ and ] go on from the entry on screen: the walk's position is where the form is,
\* whatever has been sent, loaded or switched in between (ui/history.go:143-223).
THEOREM WalkFollowsTheForm == Spec => []WalkIsOnTheForm
<1>1. Init => WalkIsOnTheForm
  BY DEF Init, H!Init, H!WalkIsOnTheForm, WalkIsOnTheForm
<1>2. /\ kept = "history" => RecentInv
      /\ WalkIsOnTheForm /\ [Next]_vars
      => WalkIsOnTheForm'
  <2> SUFFICES ASSUME kept = "history", RecentInv, H!WalkIsOnTheForm, [Next]_vars
               PROVE  H!WalkIsOnTheForm'
    BY DEF Next, vars, WalkIsOnTheForm
  <2>1. CASE UNCHANGED vars
    BY <2>1 DEF vars, historyOnly, H!WalkIsOnTheForm, H!At
  <2>2. QED BY <2>1, WalkStep DEF Next
<1>3. QED BY <1>1, <1>2, PastHolds, PTL DEF Spec

-----------------------------------------------------------------------------
(* The file. *)

\* Saves differ by their moments, and every one still running is of a later moment than
\* the last that was renamed with no older one running; the file has that one, whatever
\* is renamed over it.
SavedInv ==
  /\ settled \in Nat /\ settled <= sends
  /\ \A s \in saves : s.entries # <<>> /\ H!Moment(s) > settled /\ H!Moment(s) <= sends
  /\ \A s, t \in saves : H!Moment(s) = H!Moment(t) => s = t
  /\ H!SavedSurvives

\* A save's moment is a number.
LEMMA MomentIsANumber ==
  ASSUME RecentInv, NEW s \in saves, s.entries # <<>>
  PROVE  H!Moment(s) \in Nat
<1>1. Dated(s.entries, sends)
  BY DEF RecentInv
<1>2. 1 \in 1 .. Len(s.entries)
  BY <1>1, DatedRows
<1>3. QED BY <1>1, <1>2, DatedRows DEF H!Moment

\* A send starts a save of a moment of its own, later than all before.
LEMMA SendKeepsSaved ==
  ASSUME RecentInv, SavedInv, H!Send
  PROVE  SavedInv'
<1> DEFINE new == [entries |-> entries', written |-> FALSE]
<1>1. /\ sends' = sends + 1 /\ form # H!Blank
      /\ form' = [form EXCEPT !.at = sends', !.target = server]
      /\ entries' = H!Add(form') /\ saves' = saves \union {new}
      /\ file' = file /\ settled' = settled
  BY DEF H!Send, H!Record
<1>2. form \in Entry /\ sends \in Nat /\ Dated(entries, sends) /\ server \in Servers
  BY <1>1 DEF RecentInv
<1>3. form' \in Entry /\ form'.at = sends + 1
  BY <1>1, <1>2, sends + 1 \in Nat, StampedIsEntry
<1>4. entries' # <<>> /\ entries'[1] = form'
  BY <1>1, <1>2, <1>3, AddShapes
<1>5. new.entries # <<>> /\ H!Moment(new) = sends + 1
  BY <1>3, <1>4 DEF H!Moment
<1> HIDE DEF new
<1>6. settled' \in Nat /\ settled' <= sends'
  BY <1>1, <1>2 DEF SavedInv
<1>7. \A s \in saves : /\ s.entries # <<>> /\ H!Moment(s) \in Nat
                       /\ H!Moment(s) > settled /\ H!Moment(s) <= sends
  BY MomentIsANumber DEF SavedInv
<1>8. ASSUME NEW s \in saves'
      PROVE  s.entries # <<>> /\ H!Moment(s) > settled' /\ H!Moment(s) <= sends'
  <2>1. settled \in Nat /\ settled <= sends
    BY DEF SavedInv
  <2>2. CASE s \in saves
    BY <1>1, <1>2, <1>7, <2>1, <2>2
  <2>3. CASE s = new
    BY <1>1, <1>2, <1>5, <2>1, <2>3
  <2>4. QED BY <1>1, <2>2, <2>3
<1>9. \A s, t \in saves' : H!Moment(s) = H!Moment(t) => s = t
  <2> SUFFICES ASSUME NEW s \in saves', NEW t \in saves', H!Moment(s) = H!Moment(t)
               PROVE  s = t
    OBVIOUS
  <2>1. \A u \in saves : H!Moment(u) # sends + 1
    BY <1>2, <1>7
  <2>2. QED BY <1>1, <1>5, <2>1 DEF SavedInv
<1>10. H!SavedSurvives'
  BY <1>1 DEF SavedInv, H!SavedSurvives
<1>11. QED BY <1>6, <1>8, <1>9, <1>10 DEF SavedInv

\* A rename puts a later moment in the file than any that is settled.
LEMMA RenameKeepsSaved ==
  ASSUME RecentInv, SavedInv, NEW s \in saves, H!Rename(s)
  PROVE  SavedInv'
<1>1. /\ saves' = saves \ {s} /\ file' = s.entries /\ sends' = sends
      /\ settled' = IF \A t \in saves : H!Moment(t) >= H!Moment(s) THEN H!Moment(s) ELSE settled
  BY DEF H!Rename
<1>2. \A t \in saves : /\ t.entries # <<>> /\ H!Moment(t) \in Nat
                       /\ H!Moment(t) > settled /\ H!Moment(t) <= sends
  BY MomentIsANumber DEF SavedInv
<1>3. settled \in Nat /\ settled <= sends /\ \A t, u \in saves : H!Moment(t) = H!Moment(u) => t = u
  BY DEF SavedInv
<1>4. settled' \in Nat /\ settled' <= sends' /\ settled' <= H!Moment(s)
  BY <1>1, <1>2, <1>3
<1>5. \A t \in saves' : t.entries # <<>> /\ H!Moment(t) > settled' /\ H!Moment(t) <= sends'
  BY <1>1, <1>2, <1>3
<1>6. H!SavedSurvives'
  <2>1. file' # <<>> /\ file'[1].at = H!Moment(s)
    BY <1>1, <1>2 DEF H!Moment
  <2>2. QED BY <1>2, <1>4, <2>1 DEF H!SavedSurvives
<1>7. QED BY <1>1, <1>3, <1>4, <1>5, <1>6 DEF SavedInv

\* A save that writes its temporary file is the same save.
LEMMA WriteKeepsSaved ==
  ASSUME RecentInv, SavedInv, NEW s \in saves, H!Write(s)
  PROVE  SavedInv'
<1> DEFINE after == [s EXCEPT !.written = TRUE]
<1>1. saves' = (saves \ {s}) \union {after} /\ UNCHANGED <<file, settled, sends>>
  BY DEF H!Write
<1>2. s \in [entries : Seq(Entry), written : BOOLEAN]
  BY DEF RecentInv
<1>3. after.entries = s.entries /\ H!Moment(after) = H!Moment(s)
  BY <1>2 DEF H!Moment
<1> HIDE DEF after
<1>4. \A t \in saves' : s.entries # <<>> /\ \E u \in saves :
        t.entries = u.entries /\ H!Moment(t) = H!Moment(u) /\ (t = u \/ (t = after /\ u = s))
  BY <1>1, <1>3 DEF SavedInv
<1>5. \A t \in saves' : t.entries # <<>> /\ H!Moment(t) > settled' /\ H!Moment(t) <= sends'
  BY <1>1, <1>4 DEF SavedInv
<1>6. \A t, u \in saves' : H!Moment(t) = H!Moment(u) => t = u
  <2> SUFFICES ASSUME NEW t \in saves', NEW u \in saves', H!Moment(t) = H!Moment(u) PROVE t = u
    OBVIOUS
  <2>1. \A w \in saves : H!Moment(w) = H!Moment(s) => w = s
    BY DEF SavedInv
  <2>2. QED BY <1>1, <1>3, <2>1 DEF SavedInv
<1>7. QED BY <1>1, <1>5, <1>6 DEF SavedInv, H!SavedSurvives

\* Nothing else touches the file, and only a send starts a save.
LEMMA SavedStep ==
  ASSUME RecentInv, SavedInv, H!Next
  PROVE  SavedInv'
<1>1. CASE H!Send
  BY <1>1, SendKeepsSaved
<1>2. ASSUME NEW s \in saves, H!Write(s) \/ H!Rename(s)
      PROVE  SavedInv'
  BY <1>2, WriteKeepsSaved, RenameKeepsSaved
<1>3. ASSUME saves' \subseteq saves, UNCHANGED <<file, settled, sends>>
      PROVE  SavedInv'
  BY <1>3 DEF SavedInv, H!SavedSurvives
<1>4. ASSUME \/ \E s \in saves : H!WriteFails(s)
             \/ \E r \in Requests : H!Select(r) \/ H!Edit(r)
             \/ \E delta \in {-1, 1} : H!Step(delta)
             \/ \E i \in DOMAIN entries : H!Choose(entries[i])
             \/ \E s \in Servers : H!Connect(s) \/ H!Restart(s)
             \/ H!Fail \/ H!Retry \/ H!Discovered \/ H!Crash
      PROVE  saves' \subseteq saves /\ UNCHANGED <<file, settled, sends>>
  BY <1>4 DEF H!WriteFails, H!Select, H!Edit, H!Step, H!Choose, H!Connect, H!Restart, H!Fail,
              H!Retry, H!Discovered, H!Crash, H!disk
<1>5. QED
  BY <1>1, <1>2, <1>3, <1>4 DEF H!Next

\* A kill between any two steps of the saves running, however many and in whatever order
\* they end, costs nothing that was saved with no older save still running
\* (file.go:76-117).
THEOREM SavesSurviveKills == Spec => []SavedSurvives
<1> DEFINE Saved == kept = "history" => SavedInv
<1>1. Init => Saved
  <2> SUFFICES ASSUME kept = "history", H!Init PROVE SavedInv
    BY DEF Init
  <2>1. settled = 0 /\ saves = {}
    BY DEF H!Init
  <2>2. sends \in Nat
    <3>1. Before # <<>> => Before[1].at \in Nat
      BY HistoryConstants
    <3>2. QED BY <3>1 DEF H!Init
  <2>3. QED BY <2>1, <2>2 DEF SavedInv, H!SavedSurvives
<1>2. /\ kept = "history" => RecentInv
      /\ Saved /\ [Next]_vars
      => Saved'
  <2> SUFFICES ASSUME kept = "history", RecentInv, SavedInv, [Next]_vars
               PROVE  SavedInv'
    BY DEF Next, vars
  <2>1. CASE UNCHANGED vars
    BY <2>1 DEF vars, historyOnly, SavedInv, H!SavedSurvives
  <2>2. QED BY <2>1, SavedStep DEF Next
<1>3. Saved => SavedSurvives
  BY DEF SavedInv, SavedSurvives
<1>4. QED BY <1>1, <1>2, <1>3, PastHolds, PTL DEF Spec

-----------------------------------------------------------------------------
(* The collections. *)

Row == [name : Names, by : Nat]
Set == [Files -> Seq(Row)]

\* No two entries of a collection have one name.
Unique(seq) == \A i, j \in DOMAIN seq : seq[i].name = seq[j].name => i = j

\* What a person's files may be: no name twice in one of them.
GivenIsUnique == \A f \in DOMAIN Given : \A i, j \in DOMAIN Given[f] : Given[f][i] = Given[f][j] => i = j

\* All there is of a collection: what the browser and the file have, and what the saves
\* under way were given or hand on.
Versions(f) == {collections[f], disk[f]} \union {p.given[f] : p \in saves \union results}

\* A save that has written a file and not reported yet.
Wrote(p, f) == p \in results /\ p.ok /\ p.file = f

\* Finished with, and without another beside it: what such a save wrote is settled.
Settled(k) == k \notin raced /\ k \notin C!Pending

Typed ==
  /\ begun \in Nat /\ collections \in Set /\ disk \in Set
  /\ asked \subseteq [file : Files, name : Names]
  /\ saves \subseteq [file : Files, name : Names, by : Nat, given : Set]
  /\ results \subseteq [file : Files, by : Nat, ok : BOOLEAN, given : Set]
  /\ written \in [Files -> [Names -> Nat]]

\* Saves are numbered as they begin, and two that are under way are marked.
Numbered ==
  /\ saves \intersect results = {}
  /\ \A p \in saves \union results : p.by <= begun
  /\ \A p, q \in saves \union results : p.by = q.by => p = q
  /\ \A p, q \in saves \union results : p # q => p.by \in raced
  /\ \A f \in Files : \A n \in Names : written[f][n] <= begun
  /\ \A f \in Files : \A x \in Versions(f) : \A i \in DOMAIN x : x[i].by <= begun

\* A save's number is nowhere before it has written its file, and then only there.
OwnNumber ==
  \A p \in saves \union results : \A f \in Files :
    /\ \A n \in Names : written[f][n] = p.by => Wrote(p, f)
    /\ \A x \in Versions(f) : \A i \in DOMAIN x : x[i].by = p.by => Wrote(p, f)

\* A save alone hands on the file it wrote.
Handed == \A r \in results : r.ok /\ r.by \notin raced => disk[r.file] = r.given[r.file]

\* What a settled save wrote is older than every save under way...
SettledIsOlder ==
  \A f \in Files : \A n \in Names :
    Settled(written[f][n]) => \A p \in saves \union results : p.by > written[f][n]

\* ...its entry has one name and one place in every version of its file...
SettledIsEverywhere ==
  \A f \in Files : \A x, y \in Versions(f) : \A i \in DOMAIN x :
    Settled(x[i].by) => i \in DOMAIN y /\ y[i].name = x[i].name

\* ...and in every one of them if it was the last to write that name...
LastIsThere ==
  \A f \in Files : \A n \in Names :
    written[f][n] \notin raced \union {0} =>
      /\ \E i \in DOMAIN disk[f] : disk[f][i] = [name |-> n, by |-> written[f][n]]
      /\ Settled(written[f][n]) =>
           \A x \in Versions(f) : \E i \in DOMAIN x : x[i] = [name |-> n, by |-> written[f][n]]

\* ...and there is but one version if it was the last to write the file.
OneVersion ==
  \A f \in Files : \A n \in Names :
    Settled(written[f][n]) /\ (\A m \in Names : written[f][m] <= written[f][n]) =>
      \A x \in Versions(f) : x = disk[f]

CollectionsInv ==
  /\ Typed /\ Numbered /\ OwnNumber /\ Handed
  /\ SettledIsOlder /\ SettledIsEverywhere /\ LastIsThere /\ OneVersion

NamesOnce == \A f \in Files : \A x \in Versions(f) : Unique(x)

\* Save's entry list: the one entry is there, once, and the others where they were.
LEMMA PutInPlace ==
  ASSUME NEW seq \in Seq(Row), NEW n \in Names, NEW k \in Nat
  PROVE  LET after == C!Put(seq, n, k) IN
         /\ after \in Seq(Row)
         /\ Unique(seq) => Unique(after)
         /\ \A i \in DOMAIN seq : /\ i \in DOMAIN after /\ after[i].name = seq[i].name
                                  /\ seq[i].name # n => after[i] = seq[i]
         /\ \A i \in DOMAIN after : after[i] = [name |-> n, by |-> k] \/ (i \in DOMAIN seq /\ after[i] = seq[i])
         /\ \E i \in DOMAIN after : after[i] = [name |-> n, by |-> k]
<1> DEFINE e == [name |-> n, by |-> k]
<1>1. e \in Row /\ e.name = n
  BY DEF Row
<1>2. Len(seq) \in Nat /\ DOMAIN seq = 1 .. Len(seq) /\ \A i \in DOMAIN seq : seq[i] \in Row
  OBVIOUS
<1>3. CASE C!Index(seq, n) = {}
  <2> DEFINE after == Append(seq, e)
  <2>1. C!Put(seq, n, k) = after
    BY <1>3 DEF C!Put
  <2>2. \A i \in DOMAIN seq : seq[i].name # n
    BY <1>3 DEF C!Index
  <2>3. /\ after \in Seq(Row) /\ DOMAIN after = 1 .. Len(seq) + 1 /\ after[Len(seq) + 1] = e
        /\ \A i \in DOMAIN seq : i \in DOMAIN after /\ after[i] = seq[i]
    BY <1>1, <1>2
  <2> HIDE DEF after, e
  <2>4. \A i \in DOMAIN after : i \in DOMAIN seq \/ i = Len(seq) + 1
    BY <1>2, <2>3
  <2>5. \A i \in DOMAIN after : after[i] = e \/ (i \in DOMAIN seq /\ after[i] = seq[i])
    BY <2>3, <2>4
  <2>6. Unique(seq) => Unique(after)
    BY <1>1, <2>2, <2>3, <2>4 DEF Unique
  <2>7. Len(seq) + 1 \in DOMAIN after
    BY <1>2, <2>3
  <2>8. QED BY <2>1, <2>3, <2>5, <2>6, <2>7 DEF e
<1>4. CASE C!Index(seq, n) # {}
  <2> DEFINE after == [i \in DOMAIN seq |-> IF i \in C!Index(seq, n) THEN e ELSE seq[i]]
  <2>1. C!Put(seq, n, k) = after
    BY <1>4 DEF C!Put
  <2>2. after \in Seq(Row) /\ DOMAIN after = DOMAIN seq
    BY <1>1, <1>2
  <2>3. \A i \in DOMAIN seq : IF seq[i].name = n THEN after[i] = e ELSE after[i] = seq[i]
    BY DEF C!Index
  <2> HIDE DEF after, e
  <2>4. /\ \A i \in DOMAIN seq : after[i].name = seq[i].name
        /\ \A i \in DOMAIN after : after[i] = e \/ (i \in DOMAIN seq /\ after[i] = seq[i])
    BY <1>1, <2>2, <2>3
  <2>5. Unique(seq) => Unique(after)
    BY <2>2, <2>4 DEF Unique
  <2>6. \E i \in DOMAIN after : after[i] = e
    BY <1>4, <2>2, <2>3 DEF C!Index
  <2>7. QED BY <2>1, <2>2, <2>3, <2>4, <2>5, <2>6 DEF e
<1>5. QED BY <1>3, <1>4

\* The versions there are.
LEMMA VersionsAre ==
  ASSUME Typed, NEW f \in Files
  PROVE  /\ collections[f] \in Versions(f) /\ disk[f] \in Versions(f)
         /\ \A p \in saves \union results : p.given[f] \in Versions(f)
         /\ \A x \in Versions(f) : /\ x \in Seq(Row)
                                   /\ \/ x = collections[f] \/ x = disk[f]
                                      \/ \E p \in saves \union results : x = p.given[f]
BY DEF Versions, Typed, Set

\* With no new version and nothing newly settled, what is said of both still holds.
LEMMA FewerVersions ==
  ASSUME CollectionsInv, UNCHANGED <<disk, written>>, raced \subseteq raced',
         \A f \in Files : Versions(f)' \subseteq Versions(f),
         \A k : Settled(k)' => Settled(k)
  PROVE  SettledIsEverywhere' /\ LastIsThere' /\ OneVersion'
<1>1. SettledIsEverywhere /\ LastIsThere /\ OneVersion
  BY DEF CollectionsInv
<1>2. SettledIsEverywhere'
  BY <1>1 DEF SettledIsEverywhere
<1>3. LastIsThere'
  BY <1>1 DEF LastIsThere
<1>4. OneVersion'
  BY <1>1 DEF OneVersion
<1>5. QED BY <1>2, <1>3, <1>4

\* What the browser does by itself changes no version.
LEMMA BrowserStep ==
  ASSUME CollectionsInv, asked' \subseteq asked \union [file : Files, name : Names],
         UNCHANGED <<collections, saves, results, disk, written, begun, raced>>
  PROVE  CollectionsInv' /\ \A f \in Files : Versions(f)' = Versions(f)
<1>1. \A f \in Files : Versions(f)' = Versions(f)
  BY DEF Versions
<1>2. \A k : Settled(k)' <=> Settled(k)
  BY DEF Settled, C!Pending
<1>3. SettledIsEverywhere' /\ LastIsThere' /\ OneVersion'
  BY <1>1, <1>2, FewerVersions
<1>4. Typed' /\ Handed'
  BY DEF CollectionsInv, Typed, Handed
<1>5. Numbered' /\ OwnNumber' /\ SettledIsOlder'
  BY <1>1, <1>2 DEF CollectionsInv, Numbered, OwnNumber, Wrote, SettledIsOlder
<1>6. QED BY <1>1, <1>3, <1>4, <1>5 DEF CollectionsInv

\* A save begins with what the browser has, and marks those it finds under way.
LEMMA SaveRequestStep ==
  ASSUME CollectionsInv, NEW a \in asked, C!SaveRequest(a)
  PROVE  CollectionsInv' /\ \A f \in Files : Versions(f)' \subseteq Versions(f)
<1> DEFINE new == [file |-> a.file, name |-> a.name, by |-> begun', given |-> collections]
<1>1. /\ begun' = begun + 1 /\ asked' = asked \ {a} /\ saves' = saves \union {new}
      /\ raced' = IF C!Pending = {} THEN raced ELSE raced \union C!Pending \union {begun'}
      /\ UNCHANGED <<collections, results, disk, written>>
  BY DEF C!SaveRequest, C!memory, C!files
<1>2. /\ Typed /\ Numbered /\ OwnNumber /\ Handed /\ SettledIsOlder
  BY DEF CollectionsInv
<1>3. /\ new \in [file : Files, name : Names, by : Nat, given : Set]
      /\ new.by = begun + 1 /\ new.given = collections /\ begun \in Nat
  BY <1>1, <1>2 DEF Typed
<1> HIDE DEF new
<1>4. \A p \in (saves \union results)' : p \in saves \union results \/ p = new
  BY <1>1
<1>5. \A f \in Files : Versions(f)' \subseteq Versions(f)
  BY <1>1, <1>3 DEF Versions
<1>6. /\ \A p \in saves \union results : p.by \in raced' /\ p.by \in C!Pending'
      /\ raced \subseteq raced' /\ C!Pending \subseteq C!Pending'
      /\ new.by \in raced' \/ saves \union results = {}
  <2>1. \A p \in saves \union results : p.by \in C!Pending
    BY DEF C!Pending
  <2>2. C!Pending \subseteq C!Pending'
    BY <1>1 DEF C!Pending
  <2>3. QED BY <1>1, <1>3, <2>1, <2>2
<1>7. \A k : Settled(k)' => Settled(k)
  BY <1>6 DEF Settled
<1>8. SettledIsEverywhere' /\ LastIsThere' /\ OneVersion'
  BY <1>1, <1>5, <1>6, <1>7, FewerVersions
<1>9. Typed'
  BY <1>1, <1>2, <1>3 DEF Typed
<1>10. \A p \in saves \union results : p.by \in Nat /\ p.by <= begun
  BY <1>2 DEF Typed, Numbered
<1>11. \A f \in Files : \A n \in Names : written[f][n] \in Nat /\ written[f][n] <= begun
  BY <1>2 DEF Typed, Numbered
<1>12. \A f \in Files : \A x \in Versions(f) : \A i \in DOMAIN x : x[i].by \in Nat /\ x[i].by <= begun
  <2> SUFFICES ASSUME NEW f \in Files, NEW x \in Versions(f), NEW i \in DOMAIN x
               PROVE  x[i].by \in Nat /\ x[i].by <= begun
    OBVIOUS
  <2>1. x \in Seq(Row)
    BY <1>2, VersionsAre
  <2>2. x[i] \in Row
    BY <2>1
  <2>3. QED BY <1>2, <2>2 DEF Numbered, Row
<1>13. Numbered'
  <2>1. saves' \intersect results' = {}
    BY <1>1, <1>2, <1>3, <1>10 DEF Numbered
  <2>2. \A p \in (saves \union results)' : p.by <= begun'
    BY <1>1, <1>3, <1>4, <1>10
  <2>3. \A p, q \in (saves \union results)' : p.by = q.by => p = q
    <3> SUFFICES ASSUME NEW p \in (saves \union results)', NEW q \in (saves \union results)', p.by = q.by
                 PROVE  p = q
      OBVIOUS
    <3>1. \A u \in saves \union results : u.by # new.by
      BY <1>3, <1>10
    <3>2. QED BY <1>2, <1>4, <3>1 DEF Numbered
  <2>4. \A p, q \in (saves \union results)' : p # q => p.by \in raced'
    BY <1>2, <1>4, <1>6 DEF Numbered
  <2>5. \A f \in Files : \A n \in Names : written'[f][n] <= begun'
    BY <1>1, <1>3, <1>11
  <2>6. \A f \in Files : \A x \in Versions(f)' : \A i \in DOMAIN x : x[i].by <= begun'
    BY <1>1, <1>3, <1>5, <1>12
  <2>7. QED BY <2>1, <2>2, <2>3, <2>4, <2>5, <2>6 DEF Numbered
<1>14. OwnNumber'
  <2> SUFFICES ASSUME NEW p \in (saves \union results)', NEW f \in Files
               PROVE  /\ \A n \in Names : written'[f][n] = p.by => Wrote(p, f)'
                      /\ \A x \in Versions(f)' : \A i \in DOMAIN x : x[i].by = p.by => Wrote(p, f)'
    BY DEF OwnNumber
  <2>1. CASE p \in saves \union results
    BY <1>1, <1>2, <1>5, <2>1 DEF OwnNumber, Wrote
  <2>2. CASE p = new
    BY <1>1, <1>3, <1>5, <1>11, <1>12, <2>2
  <2>3. QED BY <1>4, <2>1, <2>2
<1>15. Handed'
  BY <1>1, <1>2, <1>6 DEF Handed
<1>16. SettledIsOlder'
  <2> SUFFICES ASSUME NEW f \in Files, NEW n \in Names, Settled(written[f][n])',
                      NEW p \in (saves \union results)'
               PROVE  p.by > written[f][n]
    BY <1>1 DEF SettledIsOlder
  <2>0. Settled(written[f][n])
    BY <1>1, <1>6 DEF Settled
  <2>1. CASE p \in saves \union results
    BY <1>2, <2>0, <2>1 DEF SettledIsOlder
  <2>2. CASE p = new
    BY <1>3, <1>11, <2>2
  <2>3. QED BY <1>4, <2>1, <2>2
<1>17. QED BY <1>5, <1>8, <1>9, <1>13, <1>14, <1>15, <1>16 DEF CollectionsInv

\* A save puts its one entry into the set it was given, writes the file from that, and
\* hands the set on.
LEMMA SaveStep ==
  ASSUME CollectionsInv, NEW s \in saves, C!Save(s)
  PROVE  CollectionsInv' /\ C!EntryStays /\ (NamesOnce => NamesOnce')
<1> DEFINE before == s.given[s.file]
           put == C!Put(before, s.name, s.by)
           given == [s.given EXCEPT ![s.file] = C!Put(@, s.name, s.by)]
           r == [file |-> s.file, by |-> s.by, ok |-> TRUE, given |-> given]
<1>1. /\ disk' = [disk EXCEPT ![s.file] = given[s.file]] /\ results' = results \union {r}
      /\ written' = [written EXCEPT ![s.file][s.name] = s.by]
      /\ saves' = saves \ {s} /\ UNCHANGED <<collections, asked, begun, raced>>
  BY DEF C!Save, C!memory
<1>2. /\ Typed /\ Numbered /\ OwnNumber /\ Handed /\ SettledIsOlder /\ SettledIsEverywhere
      /\ LastIsThere /\ OneVersion
  BY DEF CollectionsInv
<1>3. /\ s.file \in Files /\ s.name \in Names /\ s.by \in Nat /\ s.given \in Set
      /\ before \in Seq(Row) /\ disk \in Set /\ written \in [Files -> [Names -> Nat]] /\ begun \in Nat
  BY <1>2 DEF Typed, Set
<1> HIDE DEF before
<1>4. /\ put \in Seq(Row) /\ (Unique(before) => Unique(put))
      /\ \A i \in DOMAIN before : /\ i \in DOMAIN put /\ put[i].name = before[i].name
                                  /\ before[i].name # s.name => put[i] = before[i]
      /\ \A i \in DOMAIN put : put[i] = [name |-> s.name, by |-> s.by]
                                 \/ (i \in DOMAIN before /\ put[i] = before[i])
      /\ \E i \in DOMAIN put : put[i] = [name |-> s.name, by |-> s.by]
  BY <1>3, PutInPlace
<1>5. /\ given \in Set /\ given[s.file] = put /\ \A f \in Files : f # s.file => given[f] = s.given[f]
      /\ disk' \in Set /\ disk'[s.file] = put /\ \A f \in Files : f # s.file => disk'[f] = disk[f]
  BY <1>1, <1>3, <1>4 DEF Set, before
<1>6. /\ written' \in [Files -> [Names -> Nat]] /\ written'[s.file][s.name] = s.by
      /\ \A f \in Files, n \in Names : f # s.file \/ n # s.name => written'[f][n] = written[f][n]
  BY <1>1, <1>3
<1>7. /\ r \in [file : Files, by : Nat, ok : BOOLEAN, given : Set]
      /\ r.by = s.by /\ r.ok = TRUE /\ r.file = s.file /\ r.given = given
  BY <1>3, <1>5
<1> HIDE DEF put, given, r
<1>8. /\ before \in Versions(s.file)
      /\ \A f \in Files : \A x \in Versions(f)' : x \in Versions(f) \/ (f = s.file /\ x = put)
  <2>1. before \in Versions(s.file)
    BY <1>3 DEF Versions, before
  <2>2. ASSUME NEW f \in Files, NEW x \in Versions(f)'
        PROVE  x \in Versions(f) \/ (f = s.file /\ x = put)
    <3>1. \/ x = collections[f] \/ x = disk'[f] \/ x = r.given[f]
          \/ \E p \in saves \union results : x = p.given[f]
      BY <1>1 DEF Versions
    <3>2. CASE x = r.given[f] \/ x = disk'[f]
      <4>1. f = s.file => x = put
        BY <1>5, <1>7, <3>2
      <4>2. f # s.file => x = s.given[f] \/ x = disk[f]
        BY <1>5, <1>7, <3>2
      <4>3. QED BY <4>1, <4>2 DEF Versions
    <3>3. QED BY <3>1, <3>2 DEF Versions
  <2>3. QED BY <2>1, <2>2
<1>9. /\ \A p \in (saves \union results)' : p = r \/ (p \in saves \union results /\ p # s /\ p.by # s.by)
      /\ \A p \in results' : p = r \/ (p \in results /\ p # s)
      /\ s \notin results
  BY <1>1, <1>2 DEF Numbered
<1>10. \A k : (Settled(k)' <=> Settled(k)) /\ (Settled(k) => k # s.by)
  <2>1. C!Pending' = C!Pending /\ s.by \in C!Pending
    BY <1>1, <1>7 DEF C!Pending
  <2>2. QED BY <1>1, <2>1 DEF Settled
<1>11. \A k : k \notin raced => k = s.by \/ Settled(k)
  BY <1>2 DEF Settled, C!Pending, Numbered
<1>12. \A f \in Files : /\ \A n \in Names : written[f][n] # s.by
                        /\ \A x \in Versions(f) : \A i \in DOMAIN x : x[i].by # s.by
  BY <1>2, <1>9 DEF OwnNumber, Wrote
<1>13. Typed'
  BY <1>1, <1>2, <1>5, <1>6, <1>7 DEF Typed
<1>14. Numbered'
  <2>1. saves' \intersect results' = {}
    BY <1>1, <1>2, <1>7 DEF Numbered
  <2>2. \A p, q \in (saves \union results)' : p.by = q.by => p = q
    BY <1>2, <1>7, <1>9 DEF Numbered
  <2>3. \A p, q \in (saves \union results)' : p # q => p.by \in raced'
    BY <1>1, <1>2, <1>7, <1>9 DEF Numbered
  <2>4. s.by <= begun /\ begun' = begun /\ \A p \in (saves \union results)' : p.by <= begun'
    BY <1>1, <1>2, <1>7, <1>9 DEF Numbered
  <2>5. \A f \in Files : \A n \in Names : written'[f][n] <= begun'
    BY <1>2, <1>6, <2>4 DEF Numbered
  <2>6. \A f \in Files : \A x \in Versions(f)' : \A i \in DOMAIN x : x[i].by <= begun'
    <3> SUFFICES ASSUME NEW f \in Files, NEW x \in Versions(f)', NEW i \in DOMAIN x
                 PROVE  x[i].by <= begun
      BY <2>4
    <3>1. CASE x \in Versions(f)
      BY <1>2, <3>1 DEF Numbered
    <3>2. CASE f = s.file /\ x = put
      <4>1. CASE put[i] = [name |-> s.name, by |-> s.by]
        BY <2>4, <3>2, <4>1
      <4>2. CASE i \in DOMAIN before /\ put[i] = before[i]
        BY <1>2, <1>3, <1>8, <3>2, <4>2 DEF Numbered
      <4>3. QED BY <1>4, <3>2, <4>1, <4>2
    <3>3. QED BY <1>8, <3>1, <3>2
  <2>7. QED BY <2>1, <2>2, <2>3, <2>4, <2>5, <2>6 DEF Numbered
<1>15. OwnNumber'
  <2> SUFFICES ASSUME NEW p \in (saves \union results)', NEW f \in Files
               PROVE  /\ \A n \in Names : written'[f][n] = p.by => Wrote(p, f)'
                      /\ \A x \in Versions(f)' : \A i \in DOMAIN x : x[i].by = p.by => Wrote(p, f)'
    BY DEF OwnNumber
  <2>1. CASE p = r
    <3>1. f = s.file => Wrote(p, f)'
      BY <1>1, <1>7, <2>1 DEF Wrote
    <3>2. f # s.file => /\ \A n \in Names : written'[f][n] # s.by
                        /\ \A x \in Versions(f)' : \A i \in DOMAIN x : x[i].by # s.by
      BY <1>6, <1>8, <1>12
    <3>3. QED BY <1>7, <2>1, <3>1, <3>2
  <2>2. CASE p \in saves \union results /\ p # s /\ p.by # s.by
    <3>1. Wrote(p, f) => Wrote(p, f)'
      BY <1>1 DEF Wrote
    <3>2. \A n \in Names : written'[f][n] = p.by => Wrote(p, f)
      BY <1>2, <1>6, <2>2 DEF OwnNumber
    <3>3. ASSUME NEW x \in Versions(f)', NEW i \in DOMAIN x, x[i].by = p.by
          PROVE  Wrote(p, f)
      <4>1. CASE x \in Versions(f)
        BY <1>2, <2>2, <3>3, <4>1 DEF OwnNumber
      <4>2. CASE f = s.file /\ x = put
        <5>1. put[i] # [name |-> s.name, by |-> s.by]
          BY <2>2, <3>3, <4>2
        <5>2. i \in DOMAIN before /\ put[i] = before[i]
          BY <1>4, <4>2, <5>1
        <5>3. QED BY <1>2, <1>8, <2>2, <3>3, <4>2, <5>2 DEF OwnNumber
      <4>3. QED BY <1>8, <4>1, <4>2
    <3>4. QED BY <3>1, <3>2, <3>3
  <2>3. QED BY <1>9, <2>1, <2>2
<1>16. Handed'
  <2> SUFFICES ASSUME NEW q \in results', q.ok, q.by \notin raced
               PROVE  disk'[q.file] = q.given[q.file]
    BY <1>1 DEF Handed
  <2>1. CASE q = r
    BY <1>5, <1>7, <2>1
  <2>2. CASE q \in results /\ q # s
    BY <1>2, <2>2 DEF Numbered
  <2>3. QED BY <1>9, <2>1, <2>2
<1>17. SettledIsOlder'
  <2> SUFFICES ASSUME NEW f \in Files, NEW n \in Names, Settled(written'[f][n]),
                      NEW p \in (saves \union results)'
               PROVE  p.by > written'[f][n]
    BY <1>10 DEF SettledIsOlder
  <2>1. written'[f][n] = written[f][n]
    BY <1>6, <1>10
  <2>2. \A q \in saves \union results : q.by > written[f][n]
    BY <1>2, <2>1 DEF SettledIsOlder
  <2>3. QED BY <1>7, <1>9, <2>1, <2>2
<1>18. SettledIsEverywhere'
  <2> SUFFICES ASSUME NEW f \in Files, NEW x \in Versions(f)', NEW y \in Versions(f)',
                      NEW i \in DOMAIN x, Settled(x[i].by)
               PROVE  i \in DOMAIN y /\ y[i].name = x[i].name
    BY <1>10 DEF SettledIsEverywhere
  <2>1. PICK x0 \in Versions(f) : i \in DOMAIN x0 /\ x0[i] = x[i]
    <3>1. CASE f = s.file /\ x = put
      <4>1. put[i] # [name |-> s.name, by |-> s.by]
        BY <1>10, <3>1
      <4>2. QED BY <1>4, <1>8, <3>1, <4>1
    <3>2. QED BY <1>8, <3>1
  <2>2. \A z \in Versions(f) : i \in DOMAIN z /\ z[i].name = x[i].name
    BY <1>2, <2>1 DEF SettledIsEverywhere
  <2>3. CASE f = s.file /\ y = put
    BY <1>4, <1>8, <2>2, <2>3
  <2>4. QED BY <1>8, <2>2, <2>3
<1>19. LastIsThere'
  <2> SUFFICES ASSUME NEW f \in Files, NEW n \in Names, written'[f][n] \notin raced \union {0}
               PROVE  /\ \E i \in DOMAIN disk'[f] : disk'[f][i] = [name |-> n, by |-> written'[f][n]]
                      /\ Settled(written'[f][n]) =>
                           \A x \in Versions(f)' : \E i \in DOMAIN x : x[i] = [name |-> n, by |-> written'[f][n]]
    BY <1>1, <1>10 DEF LastIsThere
  <2>1. CASE f = s.file /\ n = s.name
    BY <1>4, <1>5, <1>6, <1>10, <2>1
  <2>2. CASE f # s.file \/ n # s.name
    <3>1. written'[f][n] = written[f][n] /\ written[f][n] # s.by
      BY <1>6, <1>12, <2>2
    <3>2. Settled(written[f][n])
      BY <1>11, <3>1
    <3>3. \A x \in Versions(f) : \E i \in DOMAIN x : x[i] = [name |-> n, by |-> written[f][n]]
      BY <1>2, <3>1, <3>2 DEF LastIsThere
    <3>4. f = s.file => \E i \in DOMAIN put : put[i] = [name |-> n, by |-> written[f][n]]
      <4> SUFFICES ASSUME f = s.file PROVE \E i \in DOMAIN put : put[i] = [name |-> n, by |-> written[f][n]]
        OBVIOUS
      <4>1. PICK i \in DOMAIN before : before[i] = [name |-> n, by |-> written[f][n]]
        BY <1>8, <3>3
      <4>2. before[i].name # s.name
        BY <2>2, <4>1
      <4>3. QED BY <1>4, <4>1, <4>2
    <3>5. \A x \in Versions(f)' : \E i \in DOMAIN x : x[i] = [name |-> n, by |-> written[f][n]]
      BY <1>8, <3>3, <3>4
    <3>6. disk'[f] \in Versions(f)'
      BY DEF Versions
    <3>7. QED BY <3>1, <3>5, <3>6
  <2>3. QED BY <2>1, <2>2
<1>20. OneVersion'
  <2> SUFFICES ASSUME NEW f \in Files, NEW n \in Names, Settled(written'[f][n]),
                      \A m \in Names : written'[f][m] <= written'[f][n],
                      NEW x \in Versions(f)'
               PROVE  x = disk'[f]
    BY <1>10 DEF OneVersion
  <2>1. written'[f][n] = written[f][n] /\ written[f][n] \in Nat
    BY <1>3, <1>6, <1>10
  <2>2. s.by > written[f][n]
    BY <1>2, <2>1 DEF SettledIsOlder
  <2>3. f # s.file
    BY <1>3, <1>6, <2>1, <2>2
  <2>4. \A m \in Names : written[f][m] <= written[f][n]
    BY <1>6, <2>1, <2>3
  <2>5. QED BY <1>2, <1>5, <1>8, <2>1, <2>3, <2>4 DEF OneVersion
<1>21. C!EntryStays
  <2> SUFFICES ASSUME NEW f \in Files, NEW i \in DOMAIN disk[f], disk[f][i].by \notin raced
               PROVE  i \in DOMAIN disk'[f] /\ disk'[f][i].name = disk[f][i].name
    BY <1>1 DEF C!EntryStays, C!Stays
  <2>1. disk[f] \in Versions(f)
    BY DEF Versions
  <2>2. Settled(disk[f][i].by)
    BY <1>11, <1>12, <2>1
  <2>3. \A z \in Versions(f) : i \in DOMAIN z /\ z[i].name = disk[f][i].name
    BY <1>2, <2>1, <2>2 DEF SettledIsEverywhere
  <2>4. QED BY <1>4, <1>5, <1>8, <2>3
<1>22. NamesOnce => NamesOnce'
  BY <1>3, <1>4, <1>8 DEF NamesOnce
<1>23. QED BY <1>13, <1>14, <1>15, <1>16, <1>17, <1>18, <1>19, <1>20, <1>21, <1>22 DEF CollectionsInv

\* A save that fails hands on what it was given.
LEMMA SaveFailsStep ==
  ASSUME CollectionsInv, NEW s \in saves, C!SaveFails(s)
  PROVE  CollectionsInv' /\ \A f \in Files : Versions(f)' \subseteq Versions(f)
<1> DEFINE r == [file |-> s.file, by |-> s.by, ok |-> FALSE, given |-> s.given]
<1>1. /\ results' = results \union {r} /\ saves' = saves \ {s}
      /\ UNCHANGED <<collections, asked, disk, written, begun, raced>>
  BY DEF C!SaveFails, C!memory, C!files
<1>2. Typed /\ Numbered /\ OwnNumber /\ Handed /\ SettledIsOlder
  BY DEF CollectionsInv
<1>3. /\ r \in [file : Files, by : Nat, ok : BOOLEAN, given : Set]
      /\ r.by = s.by /\ r.ok = FALSE /\ r.given = s.given
  BY <1>2 DEF Typed
<1> HIDE DEF r
<1>4. /\ \A p \in (saves \union results)' : p = r \/ (p \in saves \union results /\ p # s /\ p.by # s.by)
      /\ \A p \in results' : p = r \/ p \in results
      /\ s \notin results
  BY <1>1, <1>2 DEF Numbered
<1>5. \A f \in Files : Versions(f)' \subseteq Versions(f)
  BY <1>1, <1>3 DEF Versions
<1>6. \A k : Settled(k)' <=> Settled(k)
  BY <1>1, <1>3 DEF Settled, C!Pending
<1>7. SettledIsEverywhere' /\ LastIsThere' /\ OneVersion'
  BY <1>1, <1>5, <1>6, FewerVersions
<1>8. Typed'
  BY <1>1, <1>2, <1>3 DEF Typed
<1>9. Numbered'
  <2>1. saves' \intersect results' = {}
    BY <1>1, <1>2, <1>3 DEF Numbered
  <2>2. \A p, q \in (saves \union results)' : p.by = q.by => p = q
    BY <1>2, <1>3, <1>4 DEF Numbered
  <2>3. \A p, q \in (saves \union results)' : p # q => p.by \in raced'
    BY <1>1, <1>2, <1>3, <1>4 DEF Numbered
  <2>4. \A p \in (saves \union results)' : p.by <= begun'
    BY <1>1, <1>2, <1>3, <1>4 DEF Numbered
  <2>5. \A f \in Files : \A x \in Versions(f)' : \A i \in DOMAIN x : x[i].by <= begun'
    BY <1>1, <1>2, <1>5 DEF Numbered
  <2>6. \A f \in Files : \A n \in Names : written'[f][n] <= begun'
    BY <1>1, <1>2 DEF Numbered
  <2>7. QED BY <2>1, <2>2, <2>3, <2>4, <2>5, <2>6 DEF Numbered
<1>10. OwnNumber'
  <2> SUFFICES ASSUME NEW p \in (saves \union results)', NEW f \in Files
               PROVE  /\ \A n \in Names : written'[f][n] = p.by => Wrote(p, f)'
                      /\ \A x \in Versions(f)' : \A i \in DOMAIN x : x[i].by = p.by => Wrote(p, f)'
    BY DEF OwnNumber
  <2>1. PICK q \in saves \union results : q.by = p.by /\ (q = p \/ q = s)
    BY <1>3, <1>4
  <2>2. Wrote(q, f) => Wrote(p, f)'
    BY <1>1, <1>4, <2>1 DEF Wrote
  <2>3. QED BY <1>1, <1>2, <1>5, <2>1, <2>2 DEF OwnNumber
<1>11. Handed'
  BY <1>1, <1>2, <1>3, <1>4 DEF Handed
<1>12. SettledIsOlder'
  <2> SUFFICES ASSUME NEW f \in Files, NEW n \in Names, Settled(written[f][n]),
                      NEW p \in (saves \union results)'
               PROVE  p.by > written[f][n]
    BY <1>1, <1>6 DEF SettledIsOlder
  <2>1. QED BY <1>2, <1>3, <1>4 DEF SettledIsOlder
<1>13. QED BY <1>5, <1>7, <1>8, <1>9, <1>10, <1>11, <1>12 DEF CollectionsInv

\* A save that was alone leaves one version of the file it wrote.
LEMMA AloneLeavesOne ==
  ASSUME CollectionsInv, NEW r \in results, C!FinishSave(r), r.by \notin raced,
         NEW f \in Files, Wrote(r, f), NEW x \in Versions(f)'
  PROVE  x = disk[f]
<1>1. saves \union results = {r}
  BY DEF CollectionsInv, Numbered
<1>2. /\ collections' = r.given /\ disk' = disk /\ saves' = saves /\ results' = results \ {r}
  BY DEF C!FinishSave, C!files, Wrote
<1>3. disk[f] = r.given[f]
  BY DEF CollectionsInv, Handed, Wrote
<1>4. QED BY <1>1, <1>2, <1>3 DEF Versions

\* The set a save hands on becomes the browser's, or is dropped with its failure.
LEMMA FinishSaveStep ==
  ASSUME CollectionsInv, NEW r \in results, C!FinishSave(r)
  PROVE  CollectionsInv' /\ \A f \in Files : Versions(f)' \subseteq Versions(f)
<1>1. /\ results' = results \ {r} /\ collections' = (IF r.ok THEN r.given ELSE collections)
      /\ UNCHANGED <<asked, saves, disk, written, begun, raced>>
  BY DEF C!FinishSave, C!files
<1>2. /\ Typed /\ Numbered /\ OwnNumber /\ Handed /\ SettledIsOlder /\ SettledIsEverywhere
      /\ LastIsThere /\ OneVersion
  BY DEF CollectionsInv
<1>3. (saves \union results)' \subseteq saves \union results
  BY <1>1
<1>4. \A f \in Files : Versions(f)' \subseteq Versions(f)
  BY <1>1 DEF Versions
<1>5. \A k : Settled(k)' => Settled(k) \/ (k = r.by /\ r.by \notin raced)
  BY <1>1 DEF Settled, C!Pending
<1>6. Typed'
  BY <1>1, <1>2 DEF Typed
<1>7. Numbered' /\ Handed'
  BY <1>1, <1>2, <1>3, <1>4 DEF Numbered, Handed
<1>8. OwnNumber'
  <2> SUFFICES ASSUME NEW p \in (saves \union results)', NEW f \in Files
               PROVE  /\ \A n \in Names : written'[f][n] = p.by => Wrote(p, f)'
                      /\ \A x \in Versions(f)' : \A i \in DOMAIN x : x[i].by = p.by => Wrote(p, f)'
    BY DEF OwnNumber
  <2>1. Wrote(p, f) => Wrote(p, f)'
    <3>1. p # r
      BY <1>1, <1>2 DEF Numbered
    <3>2. QED BY <1>1, <3>1 DEF Wrote
  <2>2. QED BY <1>1, <1>2, <1>3, <1>4, <2>1 DEF OwnNumber
<1>9. SettledIsOlder'
  <2> SUFFICES ASSUME NEW f \in Files, NEW n \in Names, Settled(written[f][n]) \/ r.by \notin raced,
                      NEW p \in (saves \union results)'
               PROVE  p.by > written[f][n]
    <3>1. \A f \in Files : \A n \in Names : Settled(written[f][n])' => Settled(written[f][n]) \/ r.by \notin raced
      BY <1>1 DEF Settled, C!Pending
    <3>2. QED BY <1>1, <3>1 DEF SettledIsOlder
  <2>1. CASE Settled(written[f][n])
    BY <1>2, <1>3, <2>1 DEF SettledIsOlder
  <2>2. CASE r.by \notin raced
    <3>1. p \in saves \union results /\ p # r
      BY <1>1, <1>2, <1>3 DEF Numbered
    <3>2. QED BY <1>2, <2>2, <3>1 DEF Numbered
  <2>3. QED BY <2>1, <2>2
<1>10. SettledIsEverywhere'
  <2> SUFFICES ASSUME NEW f \in Files, NEW x \in Versions(f)', NEW y \in Versions(f)',
                      NEW i \in DOMAIN x, Settled(x[i].by)'
               PROVE  i \in DOMAIN y /\ y[i].name = x[i].name
    BY DEF SettledIsEverywhere
  <2>1. CASE Settled(x[i].by)
    BY <1>2, <1>4, <2>1 DEF SettledIsEverywhere
  <2>2. CASE x[i].by = r.by /\ r.by \notin raced
    <3>1. Wrote(r, f)
      BY <1>2, <1>4, <2>2 DEF OwnNumber
    <3>2. x = disk[f] /\ y = disk[f]
      BY <2>2, <3>1, AloneLeavesOne
    <3>3. QED BY <3>2
  <2>3. QED BY <1>5, <2>1, <2>2
<1>11. LastIsThere'
  <2> SUFFICES ASSUME NEW f \in Files, NEW n \in Names, written[f][n] \notin raced \union {0}
               PROVE  /\ \E i \in DOMAIN disk[f] : disk[f][i] = [name |-> n, by |-> written[f][n]]
                      /\ Settled(written[f][n])' =>
                           \A x \in Versions(f)' : \E i \in DOMAIN x : x[i] = [name |-> n, by |-> written[f][n]]
    BY <1>1 DEF LastIsThere
  <2>1. \E i \in DOMAIN disk[f] : disk[f][i] = [name |-> n, by |-> written[f][n]]
    BY <1>2 DEF LastIsThere
  <2>2. CASE Settled(written[f][n])
    BY <1>2, <1>4, <2>1, <2>2 DEF LastIsThere
  <2>3. CASE written[f][n] = r.by
    <3>1. Wrote(r, f) /\ r.by \notin raced
      BY <1>2, <2>3 DEF OwnNumber
    <3>2. \A x \in Versions(f)' : x = disk[f]
      BY <3>1, AloneLeavesOne
    <3>3. QED BY <2>1, <3>2
  <2>4. Settled(written[f][n])' => Settled(written[f][n]) \/ written[f][n] = r.by
    BY <1>1 DEF Settled, C!Pending
  <2>5. QED BY <2>1, <2>2, <2>3, <2>4
<1>12. OneVersion'
  <2> SUFFICES ASSUME NEW f \in Files, NEW n \in Names, Settled(written[f][n])',
                      \A m \in Names : written[f][m] <= written[f][n], NEW x \in Versions(f)'
               PROVE  x = disk[f]
    BY <1>1 DEF OneVersion
  <2>1. CASE Settled(written[f][n])
    BY <1>2, <1>4, <2>1 DEF OneVersion
  <2>2. CASE written[f][n] = r.by /\ r.by \notin raced
    <3>1. Wrote(r, f)
      BY <1>2, <2>2 DEF OwnNumber
    <3>2. QED BY <2>2, <3>1, AloneLeavesOne
  <2>3. Settled(written[f][n]) \/ (written[f][n] = r.by /\ r.by \notin raced)
    BY <1>1 DEF Settled, C!Pending
  <2>4. QED BY <2>1, <2>2, <2>3
<1>13. QED BY <1>4, <1>6, <1>7, <1>8, <1>9, <1>10, <1>11, <1>12 DEF CollectionsInv

\* What writes no file leaves every entry of it.
LEMMA FilesKept ==
  ASSUME UNCHANGED disk, \A f \in Files : Versions(f)' \subseteq Versions(f)
  PROVE  C!EntryStays /\ (NamesOnce => NamesOnce')
BY DEF C!EntryStays, C!Stays, NamesOnce

\* One step of the browser or of a save, per action.
LEMMA CollectionsStep ==
  ASSUME CollectionsInv, C!Next
  PROVE  CollectionsInv' /\ C!EntryStays /\ (NamesOnce => NamesOnce')
<1>1. CASE \/ \E m \in {"list", "save"} : C!Open(m)
           \/ C!Close
           \/ \E f \in Files, n \in Names : C!Submit(f, n)
  <2>1. /\ asked' \subseteq asked \union [file : Files, name : Names]
        /\ UNCHANGED <<collections, saves, results, disk, written, begun, raced>>
    BY <1>1 DEF C!Open, C!Close, C!Submit, C!memory, C!files, CollectionsInv, Typed
  <2>2. QED BY <2>1, BrowserStep, FilesKept
<1>2. ASSUME NEW a \in asked, C!SaveRequest(a)
      PROVE  CollectionsInv' /\ C!EntryStays /\ (NamesOnce => NamesOnce')
  <2>1. UNCHANGED disk
    BY <1>2 DEF C!SaveRequest, C!files
  <2>2. QED BY <1>2, <2>1, SaveRequestStep, FilesKept
<1>3. ASSUME NEW s \in saves, C!Save(s)
      PROVE  CollectionsInv' /\ C!EntryStays /\ (NamesOnce => NamesOnce')
  BY <1>3, SaveStep
<1>4. ASSUME NEW s \in saves, C!SaveFails(s)
      PROVE  CollectionsInv' /\ C!EntryStays /\ (NamesOnce => NamesOnce')
  <2>1. UNCHANGED disk
    BY <1>4 DEF C!SaveFails, C!files
  <2>2. QED BY <1>4, <2>1, SaveFailsStep, FilesKept
<1>5. ASSUME NEW r \in results, C!FinishSave(r)
      PROVE  CollectionsInv' /\ C!EntryStays /\ (NamesOnce => NamesOnce')
  <2>1. UNCHANGED disk
    BY <1>5 DEF C!FinishSave, C!files
  <2>2. QED BY <1>5, <2>1, FinishSaveStep, FilesKept
<1>6. QED BY <1>1, <1>2, <1>3, <1>4, <1>5 DEF C!Next

\* What is found at the start is one version of everything, and settled.
LEMMA CollectionsInit ==
  ASSUME C!Init
  PROVE  CollectionsInv
<1>1. \A f \in DOMAIN Given : f \in Files /\ Given[f] \in Seq(Names)
  BY RequestsAssumption DEF C!ConstantsOK
<1>2. /\ disk = collections /\ asked = {} /\ saves = {} /\ results = {} /\ begun = 0 /\ raced = {}
      /\ written = [f \in Files |-> [n \in Names |-> 0]]
      /\ collections = [f \in Files |->
           IF f \in DOMAIN Given
           THEN [i \in DOMAIN Given[f] |-> [name |-> Given[f][i], by |-> 0]]
           ELSE <<>>]
  BY DEF C!Init, C!Unwritten
<1>3. ASSUME NEW f \in Files
      PROVE  collections[f] \in Seq(Row) /\ \A i \in DOMAIN collections[f] : collections[f][i].by = 0
  <2>1. CASE f \in DOMAIN Given
    <3>1. collections[f] = [i \in DOMAIN Given[f] |-> [name |-> Given[f][i], by |-> 0]]
      BY <1>2, <2>1
    <3>2. DOMAIN Given[f] = 1 .. Len(Given[f]) /\ Len(Given[f]) \in Nat
          /\ \A i \in DOMAIN Given[f] : Given[f][i] \in Names
      BY <1>1, <2>1
    <3>3. \A i \in DOMAIN Given[f] : [name |-> Given[f][i], by |-> 0] \in Row
      BY <3>2 DEF Row
    <3>4. QED BY <3>1, <3>2, <3>3
  <2>2. CASE f \notin DOMAIN Given
    BY <1>2, <2>2
  <2>3. QED BY <2>1, <2>2
<1>4. Typed
  <2>1. collections \in Set
    BY <1>2, <1>3 DEF Set
  <2>2. QED BY <1>2, <2>1 DEF Typed
<1>5. \A f \in Files : Versions(f) = {disk[f]}
  BY <1>2 DEF Versions
<1>6. \A f \in Files : \A n \in Names : written[f][n] = 0
  BY <1>2
<1>7. Numbered
  BY <1>2, <1>3, <1>5, <1>6 DEF Numbered
<1>8. OwnNumber /\ Handed /\ SettledIsOlder
  BY <1>2 DEF OwnNumber, Handed, SettledIsOlder
<1>9. SettledIsEverywhere /\ OneVersion
  BY <1>5 DEF SettledIsEverywhere, OneVersion
<1>10. LastIsThere
  BY <1>6 DEF LastIsThere
<1>11. QED BY <1>4, <1>7, <1>8, <1>9, <1>10 DEF CollectionsInv

\* What saves under way together may lose is told apart from all the rest.
LEMMA CollectionsHold == Spec => [](kept = "collections" => CollectionsInv)
<1> DEFINE Agree == kept = "collections" => CollectionsInv
<1>1. Init => Agree
  BY CollectionsInit DEF Init
<1>2. Agree /\ [Next]_vars => Agree'
  <2> SUFFICES ASSUME CollectionsInv, kept = "collections", [Next]_vars PROVE CollectionsInv'
    BY DEF Next, vars
  <2>1. CASE UNCHANGED vars
    BY <2>1, BrowserStep DEF vars, collectionsOnly
  <2>2. QED BY <2>1, CollectionsStep DEF Next
<1>3. QED BY <1>1, <1>2, PTL DEF Spec

\* With no save under way browser and file agree, once the last save of the file had
\* none beside it, and a file holds, once and under its name, the last save of a name
\* that had none beside it: however many saves overlap, over files in which a person
\* has given no name twice (collections.go:132-135).
THEOREM BrowserAndFilesAgree ==
  ASSUME GivenIsUnique
  PROVE  Spec => []BrowserShowsTheFiles
<1> DEFINE Agree == kept = "collections" => CollectionsInv
           Once == kept = "collections" => NamesOnce
<1>1. Agree /\ Once => BrowserShowsTheFiles
  <2> SUFFICES ASSUME CollectionsInv, NamesOnce PROVE C!BrowserShowsTheFiles
    BY DEF BrowserShowsTheFiles
  <2>1. ASSUME NEW f \in Files, NEW n \in Names
        PROVE  Cardinality(C!Index(disk[f], n)) <= 1
    <3>1. \A i, j \in C!Index(disk[f], n) : i = j
      BY DEF NamesOnce, Unique, C!Index, Versions
    <3>2. CASE C!Index(disk[f], n) = {}
      BY <3>2, FS_EmptySet
    <3>3. CASE \E i : i \in C!Index(disk[f], n)
      <4>1. PICK i : C!Index(disk[f], n) = {i}
        BY <3>1, <3>3
      <4>2. Cardinality({i}) = 1
        BY FS_Singleton
      <4>3. QED BY <4>1, <4>2
    <3>4. QED BY <3>2, <3>3
  <2>2. ASSUME NEW f \in Files, NEW n \in Names, written[f][n] \notin raced \union {0}
        PROVE  \E i \in C!Index(disk[f], n) : disk[f][i].by = written[f][n]
    <3>1. PICK i \in DOMAIN disk[f] : disk[f][i] = [name |-> n, by |-> written[f][n]]
      BY <2>2 DEF CollectionsInv, LastIsThere
    <3>2. disk[f][i].name = n /\ disk[f][i].by = written[f][n]
      BY <3>1
    <3>3. QED BY <3>2 DEF C!Index
  <2>3. ASSUME C!Pending = {}, NEW f \in Files, NEW n \in Names, written[f][n] \notin raced,
               \A m \in Names : written[f][m] <= written[f][n]
        PROVE  collections[f] = disk[f]
    <3>1. Settled(written[f][n]) /\ collections[f] \in Versions(f)
      BY <2>3 DEF Settled, Versions
    <3>2. QED BY <2>3, <3>1 DEF CollectionsInv, OneVersion
  <2>4. QED BY <2>1, <2>2, <2>3, SameCardinality DEF C!BrowserShowsTheFiles
<1>2. Init => Once
  <2> SUFFICES ASSUME C!Init PROVE NamesOnce
    BY DEF Init
  <2>1. \A f \in Files : Versions(f) = {collections[f]}
    BY DEF C!Init, Versions
  <2>2. \A f \in Files : Unique(collections[f])
    BY DEF C!Init, Unique, GivenIsUnique
  <2>3. QED BY <2>1, <2>2 DEF NamesOnce
<1>3. Agree /\ Once /\ [Next]_vars => Once'
  <2> SUFFICES ASSUME kept = "collections", CollectionsInv, NamesOnce, [Next]_vars
               PROVE  NamesOnce'
    BY DEF Next, vars
  <2>1. CASE UNCHANGED vars
    BY <2>1, BrowserStep, FilesKept DEF vars, collectionsOnly
  <2>2. QED BY <2>1, CollectionsStep DEF Next
<1>4. QED BY <1>1, <1>2, <1>3, CollectionsHold, PTL DEF Spec

\* A save, however many run beside it, leaves every other entry of its file there, in
\* the order a person put them, but for those that saves under way together wrote
\* (README.md:362).
THEOREM SavesLeaveTheRestAlone == Spec => EntriesStay
<1>1. /\ kept = "collections" => CollectionsInv
      /\ [Next]_vars
      => [kept = "collections" => C!EntryStays]_vars
  <2> SUFFICES ASSUME kept = "collections", CollectionsInv, Next PROVE C!EntryStays
    BY DEF Next
  <2>1. QED BY CollectionsStep DEF Next
<1>2. QED BY <1>1, CollectionsHold, PTL DEF Spec, EntriesStay
=============================================================================
