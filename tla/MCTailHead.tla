----------------------------- MODULE MCTailHead -----------------------------
(* TailHead on its own for TLC.                                             *)
EXTENDS TailHead

(* "-2", "-c" and "2", and the name of a file.                              *)
TypedWords == {<<"-", "2">>, <<"-", "c">>, <<"2">>, <<"f">>}
=============================================================================
