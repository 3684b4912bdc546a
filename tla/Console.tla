------------------------------ MODULE Console ------------------------------
(***************************************************************************)
(* What the kernel prints: write, print and print_number of video.c, itoa  *)
(* and atoi of libc, and the operators << of lava::ostream, a character a  *)
(* step. The kernel prints no negative number.                             *)
(***************************************************************************)
EXTENDS Video, SequencesExt

CONSTANTS
  Texts,    \* what is printed, as sequences of characters
  Numbers,  \* the numbers that are printed
  None

\* Every code is a character: so are those in the texts and the ten digits.
ASSUME ConsoleAssumption ==
  Texts \subseteq Seq(Chars) /\ Numbers \subseteq Nat /\ 48 .. 57 \subseteq Chars

VARIABLES
  data,     \* what write has still to put
  number,   \* the number that is being printed, and its characters, or None
  str
vars == <<videoVars, data, number, str>>

Init == VideoInit /\ data = <<>> /\ number = None /\ str = <<>>

\* Mutant: a while loop, which gives no digit for 0.
itoa_while(value) ==
  LET low[v \in Nat] == IF v = 0 THEN <<>> ELSE <<48 + (v % 10)>> \o low[v \div 10]
  IN  Reverse(low[value])

\* itoa with base 10: a do loop gives the digits from the lowest on, and they
\* are reversed in place.
itoa(value) ==
  LET low[v \in 0 .. value] ==
        <<48 + (v % 10)>> \o IF v \div 10 = 0 THEN <<>> ELSE low[v \div 10]
  IN  Reverse(low[value])

\* atoi of a text without blanks: a sign, and digits up to the first other one.
atoi(s) ==
  LET signed == s # <<>> /\ s[1] \in {43, 45}
      value[i \in 1 .. Len(s) + 1] ==
        [v \in Nat |->
           IF i <= Len(s) /\ s[i] \in 48 .. 57 THEN value[i + 1][v * 10 + s[i] - 48] ELSE v]
      v0 == value[IF signed THEN 2 ELSE 1][0]
  IN  IF signed /\ s[1] = 45 THEN -v0 ELSE v0

\* ostream << const char* : print.
print(text) ==
  /\ data = <<>>
  /\ data' = text
  /\ number' = None /\ str' = <<>>
  /\ UNCHANGED videoVars

\* ostream << int : print_number.
print_number(n) ==
  /\ data = <<>>
  /\ number' = n /\ str' = itoa(n)
  /\ data' = str'
  /\ UNCHANGED videoVars

\* The loop of write.
write ==
  /\ data # <<>>
  /\ putc(Head(data))
  /\ data' = Tail(data)
  /\ UNCHANGED <<number, str>>

\* ostream << color.
change_color(clr) == data = <<>> /\ set_color(clr) /\ UNCHANGED <<data, number, str>>

\* The constructor of an ostream.
ostream == data = <<>> /\ clear /\ UNCHANGED <<data, number, str>>

Next ==
  \/ \E text \in Texts : print(text)
  \/ \E n \in Numbers : print_number(n)
  \/ write
  \/ \E clr \in Colors : change_color(clr)
  \/ ostream

Spec == Init /\ [][Next]_vars

----------------------------------------------------------------------------
\* What is printed for a number reads back as that number, digit by digit and
\* with no zero before it.
NumbersReadBack ==
  number # None =>
    /\ str # <<>> /\ atoi(str) = number
    /\ str[1] = 48 => Len(str) = 1

\* A character appears in the color that was set when it was put, unless its
\* code is 128 or more, and only one cell changes with it.
OneCellInColor ==
  [][data # <<>> =>
       \A i, j \in Screen :
         /\ crt'.cells[i] # crt.cells[i] /\ crt'.cells[j] # crt.cells[j] => i = j
         /\ crt'.cells[i] # crt.cells[i] => crt'.cells[i] \div 256 \in {color, 255}]_vars

----------------------------------------------------------------------------
\* What holds between two characters: while the text is on the screen the
\* column is one of the screen's, or it has wrapped below 0 and stands for a
\* cell before the row, and the digits are those of the number.
ConsoleInv ==
  /\ crt \in [row : 0 .. Word - 1, col : 0 .. Word - 1, cells : [Screen -> Entries]]
  /\ color \in Colors /\ lost \in BOOLEAN
  /\ data \in Seq(Chars)
  /\ ~lost =>
       /\ crt.row < g_vga_height
       /\ crt.col < g_vga_width \/ crt.row * g_vga_width + crt.col >= Word
  /\ number # None => number \in Numbers /\ str = itoa(number)
=============================================================================
