---------------------------------- MODULE Vga ----------------------------------
(***************************************************************************)
(* The text screen (drivers/vga.c).  A screen is a record of the cursor's  *)
(* row and column and of the cells, row by row.  The colour that goes with *)
(* each cell is left out: nothing depends on it.                           *)
(***************************************************************************)
EXTENDS Integers, Sequences

CONSTANTS VGA_WIDTH, VGA_HEIGHT, TAB_STOP      \* 80, 25 and 8

ASSUME VgaAssumption ==
  /\ VGA_WIDTH \in Nat /\ VGA_HEIGHT \in Nat /\ VGA_WIDTH >= 1 /\ VGA_HEIGHT >= 1
  /\ TAB_STOP \in Nat /\ TAB_STOP >= 1

Cells == 0..(VGA_WIDTH * VGA_HEIGHT - 1)
Blank == " "

\* The control characters \n, \r, \t and \b.
NL  == "newline"
CR  == "return"
TAB == "tab"
BS  == "backspace"

Screens(glyphs) == [row  : 0..(VGA_HEIGHT - 1),
                    col  : 0..(VGA_WIDTH - 1),
                    cell : [Cells -> glyphs]]

\* The cell under the cursor: the cells before it are what was printed.
Position(s) == s.row * VGA_WIDTH + s.col

-------------------------------------------------------------------------------
vga_putentryat(s, c, x, y) == [s EXCEPT !.cell[y * VGA_WIDTH + x] = c]

\* Mutant: the last line is not cleared.
vga_scroll_dirty(s) ==
  [row  |-> VGA_HEIGHT - 1, col |-> 0,
   cell |-> [i \in Cells |-> IF i + VGA_WIDTH \in Cells THEN s.cell[i + VGA_WIDTH]
                             ELSE s.cell[i]]]

\* vga_scroll: every line moves up, the last is cleared and the cursor goes there.
vga_scroll(s) ==
  [row  |-> VGA_HEIGHT - 1, col |-> 0,
   cell |-> [i \in Cells |-> IF i + VGA_WIDTH \in Cells THEN s.cell[i + VGA_WIDTH]
                             ELSE Blank]]

\* To the start of the next line; below the last one, the screen scrolls.
NextLine(s) ==
  IF s.row + 1 >= VGA_HEIGHT THEN vga_scroll(s) ELSE [s EXCEPT !.row = @ + 1, !.col = 0]

\* Mutant: the line is left one column late.
Advance_late(s, col) == IF col > VGA_WIDTH THEN NextLine(s) ELSE [s EXCEPT !.col = col]

\* The cursor moves on to column col, or to the next line if that is past the end.
Advance(s, col) == IF col >= VGA_WIDTH THEN NextLine(s) ELSE [s EXCEPT !.col = col]

vga_putchar(s, c) ==
  CASE c = NL -> NextLine(s)
    [] c = CR -> [s EXCEPT !.col = 0]
    [] c = TAB -> Advance(s, ((s.col + TAB_STOP) \div TAB_STOP) * TAB_STOP)
    [] OTHER    -> Advance(vga_putentryat(s, c, s.col, s.row), s.col + 1)

\* Mutant: a backspace stops at the start of the line.
Backspace_in_line(s) ==
  IF s.col > 0 THEN vga_putentryat([s EXCEPT !.col = @ - 1], Blank, s.col - 1, s.row)
  ELSE s

\* The \b of vga_print: one cell back, into the line above if need be, and that
\* cell is cleared; at the top left nothing.
Backspace(s) ==
  CASE s.col > 0 -> vga_putentryat([s EXCEPT !.col = @ - 1], Blank, s.col - 1, s.row)
    [] s.col = 0 /\ s.row > 0 ->
         vga_putentryat([s EXCEPT !.row = @ - 1, !.col = VGA_WIDTH - 1],
                        Blank, VGA_WIDTH - 1, s.row - 1)
    [] OTHER -> s

\* One character of vga_print.
vga_print(s, c) == IF c = BS THEN Backspace(s) ELSE vga_putchar(s, c)

\* vga_init and vga_clear
vga_clear == [row |-> 0, col |-> 0, cell |-> [i \in Cells |-> Blank]]
================================================================================
