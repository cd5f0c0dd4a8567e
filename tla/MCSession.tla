------------------------------ MODULE MCSession ------------------------------
(* A small instance of Session: two calls from one page.  Calls from other   *)
(* pages meet only in the table of tokens, as those of one page do.          *)
EXTENDS Session

MCPageOf == [c \in Calls |-> "a"]
=============================================================================
