------------------------------ MODULE MCMemio ------------------------------
(* A block of two bytes, for texts that fit and one that is too long. *)
EXTENDS Memio

Newline  == <<"n">>
Blank    == {[i \in Place |-> "x"]}
SomeText == {<<"a">>, <<"a", "b", "c">>}
=============================================================================
