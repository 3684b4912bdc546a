------------------------------- MODULE Video -------------------------------
(***************************************************************************)
(* The text screen of arch/x86/video/video.c: the row and the column of    *)
(* the next character, unsigned words that wrap, the color, and the video  *)
(* memory. Characters are their codes.                                     *)
(***************************************************************************)
EXTENDS Integers

CONSTANTS
  g_vga_width, g_vga_height,  \* 80 and 40
  Word,     \* 2^32: g_row and g_column are size_t
  Chars,    \* the codes of characters, 0 .. 255
  Colors    \* enum vga_color

ASSUME VideoAssumption ==
  /\ g_vga_width \in Nat \ {0} /\ g_vga_height \in Nat \ {0}
  /\ Word \in Nat /\ Word > g_vga_width * (g_vga_height + 1)
  /\ Chars \subseteq 0 .. 255 /\ 32 \in Chars
  /\ Colors \subseteq 0 .. 15 /\ 15 \in Colors

VARIABLES
  crt,    \* g_row, g_column and the cells of the screen in video memory
  color,  \* g_color
  lost    \* history: the text has left the screen since it was last cleared
videoVars == <<crt, color, lost>>

Screen == 0 .. g_vga_width * g_vga_height - 1
VGA_COLOR_WHITE == 15
Black == 0

\* Mutant: the color is not shifted.
vga_entry_unshifted(c, clr) == c + clr

\* c | color << 8 with a signed char: a code of 128 or more fills the color.
vga_entry(c, clr) == c + 256 * (IF c < 128 THEN clr ELSE 255)

Entries == {Black} \cup {vga_entry(c, clr) : c \in Chars, clr \in Colors}

\* The constructor of ostream clears whatever the BIOS left on the screen.
VideoInit ==
  /\ crt = [row |-> 0, col |-> 0,
            cells |-> [i \in Screen |->
                         IF 2 * i < g_vga_width * g_vga_height THEN Black
                         ELSE vga_entry(32, VGA_COLOR_WHITE)]]
  /\ color = VGA_COLOR_WHITE
  /\ lost = FALSE

----------------------------------------------------------------------------
\* Where the next character goes. Outside the screen it goes to other memory.
Index(s) == (s.row * g_vga_width + s.col) % Word

putc_at(s, c) ==
  IF Index(s) \in Screen THEN [s EXCEPT !.cells[Index(s)] = vga_entry(c, color)] ELSE s

\* putc of a character that is not special.
put_plain(s, c) ==
  LET row == (s.row + 1) % Word
      col == (s.col + 1) % Word
  IN  IF col # g_vga_width
      THEN [putc_at(s, c) EXCEPT !.col = col]
      ELSE [putc_at(s, c) EXCEPT !.col = 0, !.row = IF row = g_vga_height THEN 0 ELSE row]

\* Mutant: the blank leaves the cursor after it.
backspace_once(s) ==
  IF s.col = 0 /\ s.row = 0 THEN s
  ELSE put_plain(IF s.col = 0 THEN [s EXCEPT !.row = @ - 1, !.col = g_vga_width - 1]
                 ELSE [s EXCEPT !.col = @ - 1], 32)

\* put_special_char of '\b': back, a blank, and back. After the blank in the
\* last column of a row the column wraps below 0.
backspace(s) ==
  LET back == IF s.col = 0
              THEN [s EXCEPT !.row = @ - 1, !.col = g_vga_width - 1]
              ELSE [s EXCEPT !.col = @ - 1]
  IN  IF s.col = 0 /\ s.row = 0 THEN s
      ELSE [put_plain(back, 32) EXCEPT !.col = (@ - 1) % Word]

\* put_special_char of '\n': the last row is not tested.
newline(s) == [s EXCEPT !.row = (@ + 1) % Word, !.col = 0]

putc(c) ==
  /\ crt' = CASE c = 10 -> newline(crt)
              [] c = 8  -> backspace(crt)
              [] OTHER  -> put_plain(crt, c)
  /\ lost' = (lost \/ Index(crt') \notin Screen \/ crt'.row >= g_vga_height)
  /\ UNCHANGED color

set_color(c) == color' = c /\ UNCHANGED <<crt, lost>>

\* memset of as many bytes as there are cells, of two bytes each.
clear ==
  /\ crt' = [row |-> 0, col |-> 0,
             cells |-> [i \in Screen |->
                          IF 2 * i < g_vga_width * g_vga_height THEN Black ELSE crt.cells[i]]]
  /\ color' = VGA_COLOR_WHITE
  /\ lost' = FALSE

VideoNext ==
  (\E c \in Chars : putc(c)) \/ (\E clr \in Colors : set_color(clr)) \/ clear

VideoSpec == VideoInit /\ [][VideoNext]_videoVars

----------------------------------------------------------------------------
\* Row and column, wrapped or not, stand for one position in the text, and what
\* is printed goes there: while the text is on the screen no character is lost,
\* put twice or put into another cell, and a backspace erases the last one.
Promise == INSTANCE Terminal WITH
  Width <- g_vga_width, Height <- g_vga_height,
  cells <- crt.cells, pos <- Index(crt), line <- crt.row,
  lost <- lost

TerminalSpec == Promise!Spec
=============================================================================
