------------------------------ MODULE MCPanels ------------------------------
(***************************************************************************)
(* Panels, with values for its constants.                                  *)
(***************************************************************************)
EXTENDS Panels

\* No service; two with methods; and one with none between two.
ThreeSchemas == { << >>, << <<"a.M", "a.N">>, <<"b.M">> >>,
                  << <<"a.M">>, << >>, <<"b.M", "b.N">> >> }

\* A profile with a header that refers to a variable, and one with none.
TwoProfiles == { << >>, << [key |-> "x-key", value |-> "{{t}}", disabled |-> FALSE] >> }

ThreeNames == <<"id", "token", "user">>
TwoEnvironments == << [n \in {"id", "user"} |-> "1"], [n \in {"token"} |-> "2"] >>
Typed(shape, name, rest) == [shape |-> shape, name |-> name, rest |-> rest]
ThreeBindings == { Typed("word", "", ""), Typed("assignment", "id", ""),
                   Typed("assignment", "token", "3") }

OneWord == [t \in {"", "team", "login"} |-> IF t = "" THEN {} ELSE {t}]

SomeContexts == -1 .. 2
=============================================================================
