----------------------------- MODULE MCConsole -----------------------------
(* Console on a small instance. *)
EXTENDS Console

\* A screen of two rows of two cells; a letter above 127, line feeds and
\* backspaces in every order; a word in which a column below 0 is still no
\* column of the screen. Two colors, and numbers of one and two digits.
MCChars   == {8, 10, 32, 200} \cup 48 .. 57
MCColors  == {2, 15}
MCTexts   == {<<200>>, <<10>>, <<8>>}
MCNumbers == {0, 10}
=============================================================================
