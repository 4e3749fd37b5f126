------------------------------ MODULE MCCalls ------------------------------
(***************************************************************************)
(* Calls on two small connections: two unary methods and a chat, for the   *)
(* answers, the diff and how calls end; and streams alone.                 *)
(***************************************************************************)
EXTENDS Calls

CONSTANTS unary, lookup, watch, chat

Answered == {unary, lookup, chat}
Streaming == {watch, chat}

TwoUnary == {unary, lookup}
Nothing == {}
Chat == {chat}
=============================================================================
