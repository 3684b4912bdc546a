CONSTANTS
  g_vga_width = 2
  g_vga_height = 2
  Word = 8
  Chars <- MCChars
  Colors <- MCColors
  Texts <- MCTexts
  Numbers <- MCNumbers
  None = None
SPECIFICATION Spec
INVARIANTS NumbersReadBack
PROPERTIES TerminalSpec OneCellInColor
