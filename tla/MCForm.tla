------------------------------- MODULE MCForm -------------------------------
(* The form with requests small enough to fill in, one for each shape. *)
EXTENDS FormPanel, TLC

\* A oneof and a required enum; a nested message with a text and a list; a
\* map from texts to numbers.
MCFields ==
  [Choices |-> << Field("name", "one", "string", "", TRUE, FALSE, "pick"),
                  Field("color", "one", "enum", "", TRUE, TRUE, ""),
                  Field("id", "one", "int", "", TRUE, FALSE, "pick") >>,
   Nested |-> << Field("sub", "one", "message", "Sub", TRUE, FALSE, "") >>,
   Sub |-> << Field("note", "one", "string", "", TRUE, FALSE, ""),
              Field("ints", "list", "int", "", FALSE, FALSE, "") >>,
   Labels |-> << Field("labels", "map", "message", "Entry", FALSE, FALSE, "") >>,
   Entry |-> << Field("key", "one", "string", "", FALSE, FALSE, ""),
                Field("value", "one", "int", "", FALSE, FALSE, "") >>]
MCEnumNames == <<"RED", "BLUE">>
MCNumber == ("0" :> "0") @@ ("7" :> "7") @@ ("07" :> "7")
MCTexts == <<"", "0", "7", "07", "x", "{{r}}", "unbound", "RED", "BLUE">>
=============================================================================
