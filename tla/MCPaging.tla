------------------------------ MODULE MCPaging ------------------------------
(* Paging on a small instance. *)
EXTENDS Paging

\* Two tables of two pages of two bytes: aligned and unaligned addresses in
\* both tables; programs of one page and of one and a half pages.
MCAddresses == {0, 3, 4, 6}
MCSizes     == {2, 3}
=============================================================================
