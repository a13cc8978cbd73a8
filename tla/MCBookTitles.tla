---------------------------- MODULE MCBookTitles ----------------------------
(* Small instances of BookTitles for TLC: "t" and "t (1)" are typed.       *)
EXTENDS BookTitles

MCTyped == {<<>>, <<1>>}
=============================================================================
