------------------------------ MODULE FormTree ------------------------------
(***************************************************************************)
(* The tree behind a request form (internal/protoschema: tree.go, node.go, *)
(* form.go, build.go, load.go).  A tree maps the address of each row that  *)
(* has been materialised to the row; an address is the row's position      *)
(* among its siblings, level by level, so the root is << >> and << 2, 1 >> *)
(* the first child of the second field.  Node.Path names rows one to one   *)
(* with their addresses, and is not modelled as text.                      *)
(*                                                                         *)
(* A message is the set of what it carries: pairs of a place and a value.  *)
(* A place is an address in which the entry of a map goes by its key, since *)
(* a map has no order.  Every numeric kind is "int", the kind whose zero   *)
(* and whose syntax matter; bytes is not used.                             *)
(***************************************************************************)
EXTENDS Integers, Sequences, FiniteSets, SequencesExt, FiniteSetsExt

CONSTANTS
  Fields,   \* the fields of each message type, in declaration order
  Requests, \* the types of the requests
  EnumNames,  \* the values of every enum, the first being number zero
  Number,   \* what a text means as a number, for the texts that are one
  Texts,    \* everything a row can hold, in a sequence
  Refs,     \* the texts that are a reference
  Unbound   \* a reference nothing binds

\* No text, and no name.
Blank == ""
Name == STRING \cup {Blank}

\* A field descriptor.
Descriptor ==
  [name : Name, label : {"one", "list", "map"},
   kind : {"string", "int", "bool", "enum", "message"}, type : Name,
   presence : BOOLEAN, required : BOOLEAN, oneof : Name]

ASSUME FormAssumption ==
  /\ Requests \subseteq DOMAIN Fields /\ DOMAIN Fields \subseteq STRING
  /\ \A type \in DOMAIN Fields :
       /\ Fields[type] \in Seq(Descriptor)
       /\ \A i \in DOMAIN Fields[type] :
            LET fd == Fields[type][i]
            IN  /\ fd.kind = "message" => fd.type \in DOMAIN Fields
                /\ fd.label = "map" => Len(Fields[fd.type]) = 2
  /\ EnumNames \in Seq(STRING)
  /\ Refs \subseteq Range(Texts)

Field(name, label, kind, type, presence, required, oneof) ==
  [name |-> name, label |-> label, kind |-> kind, type |-> type,
   presence |-> presence, required |-> required, oneof |-> oneof]
NoField == Field(Blank, "one", "string", Blank, FALSE, FALSE, Blank)

-----------------------------------------------------------------------------
(* Addresses *)

\* The elements of a set in the order of a strict total order.
Sorted(S, Less(_, _)) ==
  [i \in 1..Cardinality(S) |->
     CHOOSE x \in S : Cardinality({y \in S : Less(y, x)}) = i - 1]

Parent(p) == Front(p)
Under(p, q) == IsPrefix(p, q)
Prefix(p, k) == SubSeq(p, 1, k)
Children(t, p) == {q \in DOMAIN t : Len(q) = Len(p) + 1 /\ Under(p, q)}

\* The order of rows: a row before what it holds, siblings by position.
Before(p, q) ==
  \/ Under(p, q) /\ p # q
  \/ \E k \in 1..Len(p) : /\ k <= Len(q)
                          /\ Prefix(p, k - 1) = Prefix(q, k - 1)
                          /\ p[k] < q[k]

Repeated(row) == row.kind \in {"list", "map"}
Leaf(row) == row.kind \in {"string", "int", "bool", "enum"}
IsItem(t, p) == p # << >> /\ Repeated(t[Parent(p)])
IsVariant(t, p) == p # << >> /\ t[Parent(p)].kind = "oneof"
IsActive(t, p) == IsVariant(t, p) /\ t[Parent(p)].active = Last(p)

-----------------------------------------------------------------------------
(* Rows from descriptors (tree.go) *)

NewRow(fd, kind) ==
  [fd |-> fd, kind |-> kind, value |-> Blank, touched |-> FALSE,
   present |-> FALSE, expanded |-> FALSE, active |-> 0]

\* No message type has more fields.
MaxFields == Max({Len(Fields[type]) : type \in DOMAIN Fields})

\* s, a tree of its own, hung at address p of t.
Graft(t, p, s) ==
  [q \in DOMAIN t \cup {p \o r : r \in DOMAIN s} |->
     IF q \in DOMAIN t THEN t[q] ELSE s[SubSeq(q, Len(p) + 1, Len(q))]]

\* A row and what hangs off it: subs are trees, in their order.
Over(row, subs) ==
  [q \in {<< >>} \cup UNION {{<<k>> \o r : r \in DOMAIN subs[k]} : k \in DOMAIN subs} |->
     IF q = << >> THEN row ELSE subs[q[1]][Tail(q)]]
Alone(row) == [q \in {<< >>} |-> row]

\* newField, setLeafKind: an enum comes with its choices.
NewField(fd) ==
  LET kind == IF fd.label = "one" THEN fd.kind ELSE fd.label
      choices == IF kind = "enum" THEN DOMAIN EnumNames ELSE {}
  IN  Over(NewRow(fd, kind), [i \in choices |-> Alone(NewRow(NoField, "choice"))])

\* ensureChildren: a oneof's members hang off one picker, placed where the first
\* of them is declared (newOneof).
NewChildren ==
  [type \in DOMAIN Fields |->
     LET fs == Fields[type]
         Group(i) == IF fs[i].oneof = Blank THEN {i} ELSE {j \in DOMAIN fs : fs[j].oneof = fs[i].oneof}
         opens == Sorted({i \in DOMAIN fs : \A j \in Group(i) : i <= j}, <)
         Hung(i) == LET members == Sorted(Group(i), <)
                    IN  IF fs[i].oneof = Blank THEN NewField(fs[i])
                        ELSE Over(NewRow(NoField, "oneof"),
                                  [v \in DOMAIN members |-> NewField(fs[members[v]])])
     IN  Over(NewRow(Field(Blank, "one", "message", type, FALSE, FALSE, Blank), "message"),
              [k \in DOMAIN opens |-> Hung(opens[k])])]

\* Rows are materialised when they are first opened: a message may contain itself.
EnsureChildren(t, p) ==
  IF t[p].kind = "message" THEN Graft(t, p, NewChildren[t[p].fd.type]) ELSE t

NewForm(type) == NewChildren[type]

\* newItem: an item that is a message is opened, a map's being its entry.
NewItem(fd) ==
  IF fd.kind = "message"
  THEN [NewChildren[fd.type] EXCEPT ![<< >>] = [NewRow(fd, "message") EXCEPT !.expanded = TRUE]]
  ELSE NewField([fd EXCEPT !.label = "one"])

-----------------------------------------------------------------------------
(* The edits (node.go) *)

SetExpanded(t, p, expanded) ==
  LET shown == IF expanded THEN EnsureChildren(t, p) ELSE t
  IN  [shown EXCEPT ![p].expanded = expanded]

\* Typing into a variant picks it.
SetValue(t, p, text) ==
  LET typed == [t EXCEPT ![p].value = text, ![p].touched = TRUE]
  IN  IF IsVariant(t, p) THEN [typed EXCEPT ![Parent(p)].active = Last(p)] ELSE typed

Pick(t, p) == [t EXCEPT ![Parent(p)].active = Last(p)]

Toggle(t, p) ==
  CASE t[p].kind = "choice" -> [SetValue(t, Parent(p), EnumNames[Last(p)])
                                  EXCEPT ![Parent(p)].expanded = FALSE]
    [] t[p].kind = "bool" -> SetValue(t, p, IF t[p].value = "true" THEN "false" ELSE "true")
    [] t[p].kind \notin {"choice", "bool"} /\ IsVariant(t, p) -> Pick(t, p)
    [] t[p].kind = "message" /\ ~IsVariant(t, p) -> [t EXCEPT ![p].present = ~@]
    [] OTHER -> t

AddItem(t, p) ==
  LET next == Cardinality(Children(t, p)) + 1
  IN  [Graft(t, Append(p, next), NewItem(t[p].fd)) EXCEPT ![p].expanded = TRUE]

\* Remove, renumber: the items behind move up.
RemoveItem(t, p) ==
  LET d == Len(p)
      Behind(q) == Len(q) >= d /\ Prefix(q, d - 1) = Parent(p) /\ q[d] > p[d]
      Moved(q) == IF Behind(q) THEN [q EXCEPT ![d] = @ - 1] ELSE q
      Was(q) == IF Under(p, q) \/ Behind(q) THEN [q EXCEPT ![d] = @ + 1] ELSE q
  IN  [q \in {Moved(r) : r \in {r \in DOMAIN t : ~Under(p, r)}} |-> t[Was(q)]]

\* Rows, appendRows: what is not under a folded row.
Rows(t) ==
  Sorted({p \in DOMAIN t \ {<< >>} :
                  \A k \in 1..(Len(p) - 1) : t[Prefix(p, k)].expanded},
               Before)

Editable(row) == row.kind \in {"string", "int"}
Expandable(row) == row.kind \in {"message", "list", "map", "oneof", "enum"}
Radio(t, p) == t[p].kind = "choice" \/ IsVariant(t, p)

\* dirty: the user has put something into this row or anything under it.  An
\* item that was added and left alone is not in it.
Dirty(t, p) ==
  \E q \in DOMAIN t :
    /\ Under(p, q)
    /\ \/ t[q].touched \/ t[q].present \/ IsActive(t, q)
       \/ t[q].kind = "oneof" /\ t[q].active # 0

-----------------------------------------------------------------------------
(* Building the message (build.go) *)

\* One walk over the form: the binding in force, and whether it keeps the
\* references (Template) or expands them (Build).
Wire(env) == [env |-> env, template |-> FALSE]
Record(env) == [env |-> env, template |-> TRUE]

Refers(text) == text \in Refs
Resolved(b, text) == IF Refers(text) THEN b.env ELSE text
Zero(kind) == CASE kind = "int" -> "0" [] kind = "bool" -> "false"
                [] kind = "enum" -> EnumNames[1] [] OTHER -> Blank

\* parse: what a text is worth as a value of the kind, if anything.
Parses(kind, text) ==
  /\ text # Unbound
  /\ CASE kind = "int" -> text \in DOMAIN Number
       [] kind = "bool" -> text \in {"true", "false"}
       [] kind = "enum" -> text \in Range(EnumNames)
       [] OTHER -> TRUE
Parsed(kind, text) == IF kind = "int" THEN Number[text] ELSE text

\* A message is entered if it is sent: an item always, another if it is dirty.
\* A oneof is entered at its active variant.
Entered(t, p) ==
  \A k \in 1..(Len(p) - 1) :
    LET q == Prefix(p, k)
    IN  CASE t[q].kind = "message" -> IsItem(t, q) \/ Dirty(t, q)
          [] t[q].kind = "oneof" -> t[q].active = p[k + 1]
          [] OTHER -> Repeated(t[q])

AcceptsEmpty(row) == row.fd.presence /\ row.kind = "string"

\* setInto, setScalar, setMessage, setList, setMap: the row has something to set.
Sets(t, p) ==
  /\ p # << >>
  /\ Entered(t, p)
  /\ LET row == t[p]
     IN  CASE row.kind = "message" -> IsItem(t, p) \/ Dirty(t, p)
           [] Leaf(row) -> \/ row.value # Blank \/ IsItem(t, p) \/ IsActive(t, p)
                           \/ row.touched /\ AcceptsEmpty(row)
           [] OTHER -> FALSE

Kept(b, row) == b.template /\ Refers(row.value)

Bad(t, b, p) ==
  /\ Sets(t, p) /\ Leaf(t[p]) /\ t[p].value # Blank /\ ~Kept(b, t[p])
  /\ ~Parses(t[p].kind, Resolved(b, t[p].value))

\* Mutated Content: a text is expanded where it could have been kept.
ContentExpanded(t, b, p) ==
  IF ~Leaf(t[p]) THEN "set"
  ELSE IF t[p].value = Blank \/ Bad(t, b, p) THEN Zero(t[p].kind)
  ELSE IF Kept(b, t[p]) /\ t[p].kind # "string" THEN Zero(t[p].kind)
  ELSE Parsed(t[p].kind, Resolved(b, t[p].value))

\* templateValue: a reference is kept where the field can hold it, and is zero
\* in the message where it cannot.
Content(t, b, p) ==
  LET row == t[p]
  IN  CASE ~Leaf(row) -> "set"
        [] Leaf(row) /\ row.value = Blank -> Zero(row.kind)
        [] Leaf(row) /\ Kept(b, row) -> IF row.kind = "string" THEN row.value ELSE Zero(row.kind)
        [] OTHER -> IF Bad(t, b, p) THEN Zero(row.kind)
                    ELSE Parsed(row.kind, Resolved(b, row.value))

\* Set, and then told apart from unset: a field without presence is not, at zero.
Has(t, b, p) ==
  /\ Sets(t, p) /\ ~Bad(t, b, p)
  /\ \/ ~Leaf(t[p]) \/ IsItem(t, p) \/ t[p].fd.presence
     \/ Content(t, b, p) # Zero(t[p].kind)

\* missingRequired, for each message that is sent, opened or not; the value of a
\* map's entry nobody touched is not built, and not checked.
MissingRequired(t, b) ==
  LET sent == {q \in DOMAIN t : t[q].kind = "message" /\ (q = << >> \/ Sets(t, q))}
      Fresh(q) == NewChildren[t[q].fd.type]
  IN  {p \in {Append(q, k) : q \in sent, k \in 1..MaxFields} :
         /\ <<Last(p)>> \in DOMAIN Fresh(Parent(p))
         /\ Fresh(Parent(p))[<<Last(p)>>].fd.required
         /\ ~(p \in DOMAIN t /\ Has(t, b, p))}

Errors(t, b) == {p \in DOMAIN t : Bad(t, b, p)} \cup MissingRequired(t, b)

\* Keys as steps of a place: negative, so that they are no positions.
KeyStep(text) == 0 - (CHOOSE i \in DOMAIN Texts : Texts[i] = text)
KeyText(step) == Texts[0 - step]

IsEntry(t, p) == p # << >> /\ t[Parent(p)].kind = "map"
KeyOf(t, b, entry) == Content(t, b, Append(entry, 1))

Place(t, b, p) ==
  [k \in 1..Len(p) |->
     IF IsEntry(t, Prefix(p, k)) THEN KeyStep(KeyOf(t, b, Prefix(p, k))) ELSE p[k]]

\* setMap sets the entries in turn: the last one with a key is the one there.
Overwritten(t, b, p) ==
  \E k \in 1..Len(p) :
    /\ IsEntry(t, Prefix(p, k))
    /\ \E later \in Children(t, Prefix(p, k - 1)) :
         later[k] > p[k] /\ KeyOf(t, b, later) = KeyOf(t, b, Prefix(p, k))

\* The value of an entry is there whatever it holds; its key is in the place.
Carries(t, b, p) ==
  /\ Entered(t, p)
  /\ ~IsEntry(t, p)
  /\ IF p # << >> /\ IsEntry(t, Parent(p)) THEN Last(p) = 2 ELSE Has(t, b, p)
  /\ ~Overwritten(t, b, p)

Message(t, b) ==
  {<<Place(t, b, p), Content(t, b, p)>> : p \in {q \in DOMAIN t \ {<< >>} : Carries(t, b, q)}}

\* Template's second result: the references the message has no room for, by row.
Values(t, b) ==
  {<<p, t[p].value>> : p \in {q \in DOMAIN t : /\ Sets(t, q) /\ Leaf(t[q])
                                               /\ Kept(b, t[q]) /\ t[q].kind # "string"}}

-----------------------------------------------------------------------------
(* Loading a message back (load.go) *)

\* Items and entries are added as they are met, an entry with its key typed in.
\* The walk is over the rows there are.
Meet(t, x) ==
  LET list == Parent(x.at)
      entered == AddItem(t, Parent(list))
  IN  IF x.at \in DOMAIN t THEN t
      ELSE IF list \in DOMAIN t THEN AddItem(t, list)
      ELSE IF Parent(list) \in DOMAIN t /\ list \in DOMAIN entered
      THEN SetValue(entered, Append(list, 1), KeyText(x.key))
      ELSE t

\* Mutated Fill: a message is opened, and not marked as asked for.
FillUnasked(t, p, content) ==
  IF t[p].kind # "message"
  THEN SetValue(t, p, content)
  ELSE EnsureChildren(IF IsVariant(t, p) THEN Pick(t, p) ELSE t, p)

\* A message that is not an item is marked as asked for, the rest is typed in.
Fill(t, p, content) ==
  IF t[p].kind # "message"
  THEN SetValue(t, p, content)
  ELSE [EnsureChildren(IF IsVariant(t, p) THEN Pick(t, p) ELSE t, p)
          EXCEPT ![p].present = @ \/ ~(IsItem(t, p) \/ IsEntry(t, Parent(p)))]

\* One row of the message.
LoadRow(t, x) ==
  LET met == Meet(t, x) IN IF x.at \in DOMAIN met THEN Fill(met, x.at, x.content) ELSE met

\* The orders in which a map may be walked: Go leaves it open.
KeyOrders(m) ==
  LET keys == UNION {{w[1][k] : k \in {k \in DOMAIN w[1] : w[1][k] < 0}} : w \in m}
  IN  SetToSeqs(keys)

\* The message in the order of the form, each map in the order given.
Walk(m, order) ==
  LET Rank(step) == CHOOSE i \in DOMAIN order : order[i] = step
      Keys(w, k) == {v[1][k] : v \in {v \in m : Len(v[1]) >= k
                                        /\ Prefix(v[1], k - 1) = Prefix(w, k - 1)}}
      At(w) == [k \in DOMAIN w |->
                  IF w[k] > 0 THEN w[k]
                  ELSE Cardinality({s \in Keys(w, k) : Rank(s) <= Rank(w[k])})]
      rows == {[at |-> At(w[1]), content |-> w[2],
                key |-> IF Len(w[1]) > 1 THEN w[1][Len(w[1]) - 1] ELSE 0] : w \in m}
  IN  Sorted(rows, LAMBDA x, y : Before(x.at, y.at))

\* A tree after one step for each element of the walk.
Along(Step(_, _), t, walk) ==
  LET done[k \in 0..Len(walk)] == IF k = 0 THEN t ELSE Step(done[k - 1], walk[k])
  IN  done[Len(walk)]

\* loadFrom, loadValue, loadElement, loadEntry.
LoadInto(t, m, order) == Along(LoadRow, t, Walk(m, order))

\* A list with so many items.
Grown(t, p, n) ==
  LET has == Cardinality(Children(t, p))
      grown[k \in 0..(n - has)] == IF k = 0 THEN t ELSE AddItem(grown[k - 1], p)
  IN  IF n <= has THEN t ELSE grown[n - has]

\* nodeAt: opens what is on the way and grows a list that is too short, up to a
\* row that is not there.
Opened(t, q) ==
  LET above == EnsureChildren(t, Parent(q))
  IN  IF Parent(q) \notin DOMAIN t THEN t
      ELSE IF Repeated(above[Parent(q)]) THEN Grown(above, Parent(q), Last(q)) ELSE above
Reach(t, p) ==
  LET reached[k \in 0..Len(p)] == IF k = 0 THEN t ELSE Opened(reached[k - 1], Prefix(p, k))
  IN  reached[Len(p)]

\* LoadValues: the references go back on the rows they name, those there are.
PutBack(t, v) ==
  LET there == Reach(t, v[1])
  IN  IF v[1] \in DOMAIN there THEN SetValue(there, v[1], v[2]) ELSE there
LoadValues(t, values) ==
  Along(PutBack, t, Sorted(values, LAMBDA v, w : Before(v[1], w[1])))
=============================================================================
