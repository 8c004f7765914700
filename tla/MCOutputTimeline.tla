--------------------------- MODULE MCOutputTimeline ---------------------------
(* Texts that fill the ring, end a line and split a character, over two    *)
(* reads or over two chunks of an append.                                  *)
EXTENDS OutputTimeline

MCTexts == {<<"a", "n", "L">>, <<"C", "a", "L", "C">>}
=============================================================================
