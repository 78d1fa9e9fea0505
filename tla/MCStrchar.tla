----------------------------- MODULE MCStrchar -----------------------------
(* A fresh buffer of two bytes, for an empty word and one of a character. *)
EXTENDS Strchar

SomeWords == {<<>>, <<"a">>}
=============================================================================
