------------------------------ MODULE Terminal ------------------------------
(***************************************************************************)
(* What a text screen without scrolling promises to those who print to it: *)
(* the screen is a line of cells with one position in it. The text of a    *)
(* line goes on at the start of the next one, and after the last cell at   *)
(* the first; a backspace takes back one character, over line ends too.    *)
(* Nothing is promised once the text has left the screen, until the screen *)
(* is cleared.                                                             *)
(***************************************************************************)
EXTENDS Integers

CONSTANTS
  Width, Height,  \* in cells
  Entries,        \* what a cell can show
  Black           \* a cell that shows nothing

VARIABLES
  cells,  \* what each cell shows
  pos,    \* the cell that the next character goes to
  line,   \* the line that the text is on; pos is before it after backspaces
  lost    \* the text has left the screen since it was last cleared
vars == <<cells, pos, line, lost>>

Screen == 0 .. Width * Height - 1

Init == cells \in [Screen -> Entries] /\ pos = 0 /\ line = 0 /\ lost = FALSE

Put ==
  /\ ~lost /\ ~lost'
  /\ \E e \in Entries : cells' = [cells EXCEPT ![pos] = e]
  /\ IF pos + 1 = (line + 1) * Width
     THEN line' = (line + 1) % Height /\ pos' = line' * Width
     ELSE pos' = pos + 1 /\ line' = line

NewLine ==
  /\ ~lost /\ ~lost'
  /\ line + 1 < Height
  /\ line' = line + 1 /\ pos' = line' * Width
  /\ cells' = cells

Backspace ==
  /\ ~lost /\ ~lost'
  /\ pos > 0
  /\ \E e \in Entries : cells' = [cells EXCEPT ![pos - 1] = e]
  /\ pos' = pos - 1 /\ line' = line

\* The text leaves the screen: with a new line on the last one, or with a
\* backspace in the first cell when others have led there from a later line.
Leave ==
  /\ ~lost /\ lost'
  /\ line = Height - 1 \/ (pos = 0 /\ line > 0)
  /\ cells' = cells

\* The first half of the screen at least shows nothing.
Clear ==
  /\ pos' = 0 /\ line' = 0 /\ ~lost'
  /\ cells' \in [Screen -> Entries]
  /\ \A i \in Screen :
       cells'[i] = Black \/ (2 * i >= Width * Height /\ cells'[i] = cells[i])

\* Anything may happen while the text is lost.
Anything == lost /\ lost'

Next == Put \/ NewLine \/ Backspace \/ Leave \/ Clear \/ Anything

Spec == Init /\ [][Next]_vars
=============================================================================
