----------------------------- MODULE ConsoleProofs -----------------------------
(***************************************************************************)
(* The safety properties of Console, for any screen, tab stop, line limit, *)
(* prompts and outputs.  The lemmas say what vga_print does to the cells   *)
(* in terms of the cursor's position, whatever row and column that is, so  *)
(* that lines, scrolling and the way back over the end of a row are dealt  *)
(* with once.                                                              *)
(***************************************************************************)
EXTENDS Console, TLAPS

\* The cells of rows above the last: what a line must fit in.
Room == VGA_WIDTH * (VGA_HEIGHT - 1)

\* A screen with nothing shown from the cursor on.
Tidy(s) ==
  /\ s \in Screens(Glyphs)
  /\ \A i \in Cells : i >= Position(s) => s.cell[i] = Blank

\* Blanks and the cursor's mark fill a cell; control characters do not.
LEMMA CellCharacters ==
  /\ Blank \in Glyphs /\ Mark \in Glyphs /\ Chars \subseteq Glyphs
  /\ \A c \in Glyphs : c # NL /\ c # CR /\ c # TAB /\ c # BS
BY ConsoleAssumption

\* The rows lie one after the other in the cells.
LEMMA Rows ==
  ASSUME NEW row \in 0..(VGA_HEIGHT - 1)
  PROVE  /\ row * VGA_WIDTH \in Nat /\ (row + 1) * VGA_WIDTH = row * VGA_WIDTH + VGA_WIDTH
         /\ VGA_WIDTH * VGA_HEIGHT \in Nat /\ Room \in Nat
         /\ row * VGA_WIDTH + VGA_WIDTH <= VGA_WIDTH * VGA_HEIGHT
         /\ VGA_WIDTH * VGA_HEIGHT = Room + VGA_WIDTH
         /\ row + 1 >= VGA_HEIGHT => row * VGA_WIDTH = Room
         /\ row + 1 < VGA_HEIGHT => (row + 1) * VGA_WIDTH + VGA_WIDTH <= VGA_WIDTH * VGA_HEIGHT
         /\ row > 0 => (row - 1) * VGA_WIDTH = row * VGA_WIDTH - VGA_WIDTH
<1> USE VgaAssumption
<1> DEFINE up == VGA_HEIGHT - 1 - row
<1>1. up \in Nat /\ VGA_HEIGHT = row + up + 1 /\ VGA_WIDTH \in Nat /\ row \in Nat
  OBVIOUS
<1>2. row * VGA_WIDTH \in Nat /\ up * VGA_WIDTH \in Nat
  <2> HIDE DEF up
  <2> QED BY <1>1
<1>3. /\ (row + 1) * VGA_WIDTH = row * VGA_WIDTH + VGA_WIDTH
      /\ (row - 1) * VGA_WIDTH = row * VGA_WIDTH - VGA_WIDTH
  BY <1>1
<1>4. /\ VGA_WIDTH * VGA_HEIGHT = row * VGA_WIDTH + up * VGA_WIDTH + VGA_WIDTH
      /\ VGA_WIDTH * (VGA_HEIGHT - 1) = row * VGA_WIDTH + up * VGA_WIDTH
  <2> HIDE DEF up
  <2> QED BY <1>1
<1>5. up = 0 => up * VGA_WIDTH = 0
  <2> HIDE DEF up
  <2> QED BY <1>1
<1>6. up >= 1 => up * VGA_WIDTH >= VGA_WIDTH
  <2> HIDE DEF up
  <2>1. SUFFICES ASSUME up >= 1 PROVE up * VGA_WIDTH >= VGA_WIDTH
    OBVIOUS
  <2>2. PICK d \in Nat : up = d + 1
    BY <1>1, <2>1
  <2>3. up * VGA_WIDTH = d * VGA_WIDTH + VGA_WIDTH /\ d * VGA_WIDTH >= 0
    BY <2>2
  <2> QED BY <2>3, <1>1
<1>7. row + 1 >= VGA_HEIGHT => up = 0
  OBVIOUS
<1>8. row + 1 < VGA_HEIGHT => up >= 1
  OBVIOUS
<1> HIDE DEF up
<1> QED BY <1>1, <1>2, <1>3, <1>4, <1>5, <1>6, <1>7, <1>8 DEF Room

\* The cursor is on a cell.
LEMMA CursorOnCell ==
  ASSUME NEW s \in Screens(Glyphs)
  PROVE  /\ Position(s) \in Cells /\ Position(s) \in Nat
         /\ s.row \in 0..(VGA_HEIGHT - 1) /\ s.col \in 0..(VGA_WIDTH - 1)
<1>1. s.row \in 0..(VGA_HEIGHT - 1) /\ s.col \in 0..(VGA_WIDTH - 1)
  BY DEF Screens
<1>2. /\ s.row * VGA_WIDTH \in Nat /\ VGA_WIDTH * VGA_HEIGHT \in Nat
      /\ s.row * VGA_WIDTH + VGA_WIDTH <= VGA_WIDTH * VGA_HEIGHT
  BY <1>1, Rows
<1> QED BY <1>1, <1>2, VgaAssumption DEF Cells, Position

\* The screen after a character was written and the cursor moved: it scrolled, or
\* the cursor is further on.
Scrolled(s, t) ==
  /\ Position(t) = Room
  /\ \A i \in Cells : t.cell[i] = IF i + VGA_WIDTH \in Cells THEN s.cell[i + VGA_WIDTH]
                                  ELSE Blank

\* The next line of the screen, or the last one after scrolling.
LEMMA NextLinePlace ==
  ASSUME NEW s \in Screens(Glyphs), NEW t, t = NextLine(s)
  PROVE  /\ t \in Screens(Glyphs)
         /\ \/ s.row + 1 >= VGA_HEIGHT /\ Scrolled(s, t)
            \/ /\ s.row + 1 < VGA_HEIGHT /\ t.cell = s.cell
               /\ Position(t) = s.row * VGA_WIDTH + VGA_WIDTH
<1> USE VgaAssumption
<1>1. s.row \in 0..(VGA_HEIGHT - 1) /\ s.col \in 0..(VGA_WIDTH - 1) /\ s.cell \in [Cells -> Glyphs]
  BY DEF Screens
<1>2. CASE s.row + 1 >= VGA_HEIGHT
  <2>1. t = vga_scroll(s)
    BY <1>2 DEF NextLine
  <2>2. /\ t.row = VGA_HEIGHT - 1 /\ t.col = 0
        /\ t.cell = [i \in Cells |-> IF i + VGA_WIDTH \in Cells THEN s.cell[i + VGA_WIDTH]
                                     ELSE Blank]
    BY <2>1 DEF vga_scroll
  <2>3. t.cell \in [Cells -> Glyphs]
    <3>1. Blank \in Glyphs
      BY CellCharacters
    <3> QED BY <2>2, <1>1, <3>1
  <2>4. t \in Screens(Glyphs)
    <3>1. VGA_HEIGHT - 1 \in 0..(VGA_HEIGHT - 1) /\ 0 \in 0..(VGA_WIDTH - 1)
      OBVIOUS
    <3> QED BY <2>1, <2>2, <2>3, <3>1 DEF vga_scroll, Screens
  <2>5. Position(t) = Room
    <3>1. s.row = VGA_HEIGHT - 1
      BY <1>1, <1>2
    <3>2. s.row * VGA_WIDTH = Room /\ Room \in Nat
      BY Rows, <1>1, <1>2
    <3> QED BY <2>2, <3>1, <3>2 DEF Position
  <2> QED BY <2>2, <2>4, <2>5, <1>2 DEF Scrolled
<1>3. CASE s.row + 1 < VGA_HEIGHT
  <2>1. t = [s EXCEPT !.row = @ + 1, !.col = 0]
    BY <1>3, <1>1 DEF NextLine
  <2>2. t.row = s.row + 1 /\ t.col = 0 /\ t.cell = s.cell
    BY <2>1 DEF Screens
  <2>3. t.row \in 0..(VGA_HEIGHT - 1) /\ t.col \in 0..(VGA_WIDTH - 1)
    BY <2>2, <1>1, <1>3
  <2>4. t \in Screens(Glyphs)
    BY <2>1, <2>2, <2>3, <1>1 DEF Screens
  <2>5. Position(t) = s.row * VGA_WIDTH + VGA_WIDTH
    <3>1. (s.row + 1) * VGA_WIDTH = s.row * VGA_WIDTH + VGA_WIDTH /\ s.row * VGA_WIDTH \in Nat
      BY Rows, <1>1
    <3> QED BY <2>2, <3>1 DEF Position
  <2> QED BY <2>2, <2>4, <2>5, <1>3
<1> QED BY <1>1, <1>2, <1>3

\* A character that fills a cell: it stands where the cursor was, and the cursor
\* is one further on, unless the screen scrolled.
LEMMA PutPlace ==
  ASSUME NEW s \in Screens(Glyphs), NEW c \in Glyphs, NEW t, t = vga_putchar(s, c)
  PROVE  /\ t \in Screens(Glyphs)
         /\ \/ /\ Position(t) = Position(s) + 1
               /\ \A i \in Cells : t.cell[i] = IF i = Position(s) THEN c ELSE s.cell[i]
            \/ /\ Position(s) = Room + VGA_WIDTH - 1 /\ Position(t) = Room
               /\ \A i \in Cells :
                    t.cell[i] = IF i + VGA_WIDTH \in Cells
                                THEN IF i + VGA_WIDTH = Position(s) THEN c
                                     ELSE s.cell[i + VGA_WIDTH]
                                ELSE Blank
<1> DEFINE u == vga_putentryat(s, c, s.col, s.row)
<1>1. /\ s.row \in 0..(VGA_HEIGHT - 1) /\ s.col \in 0..(VGA_WIDTH - 1)
      /\ s.cell \in [Cells -> Glyphs] /\ Position(s) \in Cells
  BY CursorOnCell DEF Screens
<1>2. /\ u \in Screens(Glyphs) /\ u.row = s.row /\ u.col = s.col
      /\ u.cell = [s.cell EXCEPT ![Position(s)] = c]
  <2>1. u = [s EXCEPT !.cell = [s.cell EXCEPT ![Position(s)] = c]]
    BY DEF vga_putentryat, Position
  <2>2. [s.cell EXCEPT ![Position(s)] = c] \in [Cells -> Glyphs]
    BY <1>1
  <2> HIDE DEF u
  <2> QED BY <2>1, <2>2 DEF Screens
<1>3. \A i \in Cells : u.cell[i] = IF i = Position(s) THEN c ELSE s.cell[i]
  <2> HIDE DEF u
  <2> QED BY <1>1, <1>2
<1>4. t = Advance(u, s.col + 1)
  <2>1. c # NL /\ c # CR /\ c # TAB
    BY CellCharacters
  <2> QED BY <2>1 DEF vga_putchar
<1> HIDE DEF u
<1>5. Position(s) = s.row * VGA_WIDTH + s.col
  BY DEF Position
<1>6. /\ s.row * VGA_WIDTH \in Nat
      /\ (s.row + 1) * VGA_WIDTH = s.row * VGA_WIDTH + VGA_WIDTH /\ Room \in Nat
      /\ s.row + 1 >= VGA_HEIGHT => s.row * VGA_WIDTH = Room
  BY Rows, <1>1
<1>7. CASE s.col + 1 < VGA_WIDTH
  <2>1. t = [u EXCEPT !.col = s.col + 1]
    BY <1>1, <1>4, <1>7, VgaAssumption DEF Advance
  <2>2. t.row = s.row /\ t.col = s.col + 1 /\ t.cell = u.cell
    BY <2>1, <1>2 DEF Screens
  <2>3. s.col + 1 \in 0..(VGA_WIDTH - 1)
    BY <1>1, <1>7, VgaAssumption
  <2>4. t \in Screens(Glyphs)
    BY <1>2, <2>1, <2>3 DEF Screens
  <2>5. Position(t) = Position(s) + 1
    <3>1. Position(t) = s.row * VGA_WIDTH + (s.col + 1)
      BY <2>2 DEF Position
    <3> QED BY <3>1, <1>5, <1>6, <1>1, VgaAssumption
  <2> QED BY <2>2, <2>4, <2>5, <1>3
<1>8. CASE s.col + 1 >= VGA_WIDTH
  <2>1. s.col = VGA_WIDTH - 1
    BY <1>1, <1>8, VgaAssumption
  <2>2. t = NextLine(u)
    BY <1>4, <1>8 DEF Advance
  <2>3. /\ t \in Screens(Glyphs)
        /\ \/ s.row + 1 >= VGA_HEIGHT /\ Scrolled(u, t)
           \/ /\ s.row + 1 < VGA_HEIGHT /\ t.cell = u.cell
              /\ Position(t) = s.row * VGA_WIDTH + VGA_WIDTH
    BY <2>2, <1>2, NextLinePlace
  <2>4. CASE s.row + 1 >= VGA_HEIGHT /\ Scrolled(u, t)
    <3>1. Position(s) = Room + VGA_WIDTH - 1
      BY <1>5, <1>6, <2>1, <2>4, VgaAssumption
    <3>2. Position(t) = Room
      BY <2>4 DEF Scrolled
    <3>3. ASSUME NEW i \in Cells
          PROVE  t.cell[i] = IF i + VGA_WIDTH \in Cells
                             THEN IF i + VGA_WIDTH = Position(s) THEN c
                                  ELSE s.cell[i + VGA_WIDTH]
                             ELSE Blank
      BY <2>4, <1>3 DEF Scrolled
    <3> QED BY <2>3, <3>1, <3>2, <3>3
  <2>5. CASE /\ s.row + 1 < VGA_HEIGHT /\ t.cell = u.cell
             /\ Position(t) = s.row * VGA_WIDTH + VGA_WIDTH
    <3>1. Position(t) = Position(s) + 1
      BY <1>5, <1>6, <2>1, <2>5, VgaAssumption
    <3> QED BY <2>3, <2>5, <3>1, <1>3
  <2> QED BY <2>3, <2>4, <2>5
<1>9. s.col + 1 < VGA_WIDTH \/ s.col + 1 >= VGA_WIDTH
  BY <1>1, VgaAssumption
<1> QED BY <1>7, <1>8, <1>9

\* A backspace: the cursor is one cell back, and that cell is cleared.
LEMMA ErasePlace ==
  ASSUME NEW s \in Screens(Glyphs), NEW t, t = vga_print(s, BS), Position(s) >= 1
  PROVE  /\ t \in Screens(Glyphs) /\ Position(t) = Position(s) - 1
         /\ \A i \in Cells : t.cell[i] = IF i = Position(s) - 1 THEN Blank ELSE s.cell[i]
<1>1. /\ s.row \in 0..(VGA_HEIGHT - 1) /\ s.col \in 0..(VGA_WIDTH - 1)
      /\ s.cell \in [Cells -> Glyphs] /\ Position(s) \in Cells /\ Position(s) \in Nat
  BY CursorOnCell DEF Screens
<1>2. t = Backspace(s)
  BY DEF vga_print
<1>3. Position(s) = s.row * VGA_WIDTH + s.col
  BY DEF Position
<1>4. Position(s) - 1 \in Cells
  BY <1>1, VgaAssumption DEF Cells
<1>5. Blank \in Glyphs
  BY CellCharacters
<1>6. /\ s.row * VGA_WIDTH \in Nat
      /\ s.row > 0 => (s.row - 1) * VGA_WIDTH = s.row * VGA_WIDTH - VGA_WIDTH
  BY Rows, <1>1
<1>7. CASE s.col > 0
  <2>1. t = [s EXCEPT !.col = s.col - 1, !.cell = [s.cell EXCEPT ![Position(s) - 1] = Blank]]
    <3>1. s.row * VGA_WIDTH + (s.col - 1) = Position(s) - 1
      BY <1>1, <1>3, <1>6, VgaAssumption
    <3>2. t = vga_putentryat([s EXCEPT !.col = s.col - 1], Blank, s.col - 1, s.row)
      BY <1>2, <1>7 DEF Backspace
    <3> QED BY <3>1, <3>2 DEF vga_putentryat, Screens
  <2>2. /\ t.row = s.row /\ t.col = s.col - 1
        /\ t.cell = [s.cell EXCEPT ![Position(s) - 1] = Blank]
    BY <2>1 DEF Screens
  <2>3. s.col - 1 \in 0..(VGA_WIDTH - 1)
    BY <1>1, <1>7, VgaAssumption
  <2>4. t.cell \in [Cells -> Glyphs]
    BY <2>2, <1>1, <1>5
  <2>5. t \in Screens(Glyphs)
    BY <2>1, <2>2, <2>3, <2>4 DEF Screens
  <2>6. Position(t) = s.row * VGA_WIDTH + (s.col - 1)
    BY <2>2 DEF Position
  <2>7. Position(t) = Position(s) - 1
    BY <2>6, <1>1, <1>3, <1>6, VgaAssumption
  <2> QED BY <2>2, <2>5, <2>7, <1>1, <1>4
<1>8. CASE s.col = 0 /\ s.row > 0
  <2>1. (s.row - 1) * VGA_WIDTH + (VGA_WIDTH - 1) = Position(s) - 1
    BY <1>1, <1>3, <1>6, <1>8, VgaAssumption
  <2>2. t = [s EXCEPT !.row = s.row - 1, !.col = VGA_WIDTH - 1,
                      !.cell = [s.cell EXCEPT ![Position(s) - 1] = Blank]]
    <3>1. t = vga_putentryat([s EXCEPT !.row = s.row - 1, !.col = VGA_WIDTH - 1],
                             Blank, VGA_WIDTH - 1, s.row - 1)
      BY <1>2, <1>8 DEF Backspace
    <3> QED BY <2>1, <3>1 DEF vga_putentryat, Screens
  <2>3. /\ t.row = s.row - 1 /\ t.col = VGA_WIDTH - 1
        /\ t.cell = [s.cell EXCEPT ![Position(s) - 1] = Blank]
    BY <2>2 DEF Screens
  <2>4. t.row \in 0..(VGA_HEIGHT - 1) /\ t.col \in 0..(VGA_WIDTH - 1)
    BY <1>1, <1>8, <2>3, VgaAssumption
  <2>5. t.cell \in [Cells -> Glyphs]
    BY <2>3, <1>1, <1>5
  <2>6. t \in Screens(Glyphs)
    BY <2>2, <2>3, <2>4, <2>5 DEF Screens
  <2>7. Position(t) = Position(s) - 1
    BY <2>1, <2>3 DEF Position
  <2> QED BY <2>3, <2>6, <2>7, <1>1, <1>4
<1>9. s.col > 0 \/ (s.col = 0 /\ s.row > 0)
  <2>1. s.row = 0 => s.row * VGA_WIDTH = 0
    BY VgaAssumption
  <2> QED BY <2>1, <1>1, <1>3, VgaAssumption
<1> QED BY <1>7, <1>8, <1>9

-------------------------------------------------------------------------------
(* What is shown from the cursor on.                                       *)

\* The end of the screen is a row behind the start of its last one.
LEMMA ScreenEnd == Room \in Nat /\ VGA_WIDTH \in Nat /\ Cells = 0..(Room + VGA_WIDTH - 1)
<1>1. 0 \in 0..(VGA_HEIGHT - 1)
  BY VgaAssumption
<1>2. Room \in Nat /\ VGA_WIDTH * VGA_HEIGHT = Room + VGA_WIDTH
  BY <1>1, Rows
<1> QED BY <1>2, VgaAssumption DEF Cells

\* The next tab stop is not behind the cursor.
LEMMA TabStop ==
  ASSUME NEW col \in Nat
  PROVE  /\ ((col + TAB_STOP) \div TAB_STOP) * TAB_STOP \in Nat
         /\ ((col + TAB_STOP) \div TAB_STOP) * TAB_STOP >= col
<1> DEFINE q == (col + TAB_STOP) \div TAB_STOP
<1>1. q \in Int /\ q * TAB_STOP <= col + TAB_STOP /\ col + TAB_STOP < q * TAB_STOP + TAB_STOP
  BY VgaAssumption
<1>2. q * TAB_STOP \in Int
  <2> HIDE DEF q
  <2> QED BY <1>1, VgaAssumption
<1> HIDE DEF q
<1>3. q * TAB_STOP \in Nat /\ q * TAB_STOP >= col
  BY <1>1, <1>2, VgaAssumption
<1> QED BY <1>3 DEF q

\* The cursor on the next line leaves nothing behind it.
LEMMA TidyNextLine ==
  ASSUME NEW s, Tidy(s), NEW t, t = NextLine(s)
  PROVE  Tidy(t)
<1>1. s \in Screens(Glyphs)
  BY DEF Tidy
<1>2. /\ t \in Screens(Glyphs)
      /\ \/ Scrolled(s, t)
         \/ t.cell = s.cell /\ Position(t) = s.row * VGA_WIDTH + VGA_WIDTH
  BY <1>1, NextLinePlace
<1>3. Position(s) = s.row * VGA_WIDTH + s.col /\ s.row * VGA_WIDTH \in Nat
  BY <1>1, CursorOnCell, Rows DEF Position
<1>4. ASSUME NEW i \in Cells, i >= Position(t)
      PROVE  t.cell[i] = Blank
  <2>1. CASE Scrolled(s, t)
    <3>1. i >= Room
      BY <1>4, <2>1 DEF Scrolled
    <3>2. i + VGA_WIDTH \notin Cells
      BY <3>1, ScreenEnd
    <3> QED BY <2>1, <3>2 DEF Scrolled
  <2>2. CASE t.cell = s.cell /\ Position(t) = s.row * VGA_WIDTH + VGA_WIDTH
    <3>1. s.col \in 0..(VGA_WIDTH - 1)
      BY <1>1, CursorOnCell
    <3>2. i >= Position(s)
      BY <1>3, <1>4, <2>2, <3>1, ScreenEnd
    <3> QED BY <2>2, <3>2 DEF Tidy
  <2> QED BY <1>2, <2>1, <2>2
<1> QED BY <1>2, <1>4 DEF Tidy

\* Nothing that vga_print prints of a text leaves anything behind the cursor.
LEMMA TidyPrint ==
  ASSUME NEW s, Tidy(s), NEW c \in Glyphs \cup {NL, TAB}, NEW t, t = vga_putchar(s, c)
  PROVE  Tidy(t)
<1>1. s \in Screens(Glyphs)
  BY DEF Tidy
<1>2. CASE c \in Glyphs
  <2>1. /\ t \in Screens(Glyphs) /\ Position(s) \in Nat
        /\ \/ /\ Position(t) = Position(s) + 1
              /\ \A i \in Cells : t.cell[i] = IF i = Position(s) THEN c ELSE s.cell[i]
           \/ /\ Position(t) = Room
              /\ \A i \in Cells : i + VGA_WIDTH \notin Cells => t.cell[i] = Blank
    BY <1>1, <1>2, PutPlace, CursorOnCell
  <2>2. ASSUME NEW i \in Cells, i >= Position(t)
        PROVE  t.cell[i] = Blank
    <3>1. CASE /\ Position(t) = Position(s) + 1
               /\ \A j \in Cells : t.cell[j] = IF j = Position(s) THEN c ELSE s.cell[j]
      <4>1. i >= Position(s) /\ i # Position(s)
        BY <2>1, <2>2, <3>1, ScreenEnd
      <4> QED BY <3>1, <4>1 DEF Tidy
    <3>2. CASE /\ Position(t) = Room
               /\ \A j \in Cells : j + VGA_WIDTH \notin Cells => t.cell[j] = Blank
      <4>1. i + VGA_WIDTH \notin Cells
        BY <2>2, <3>2, ScreenEnd
      <4> QED BY <3>2, <4>1
    <3> QED BY <2>1, <3>1, <3>2
  <2> QED BY <2>1, <2>2 DEF Tidy
<1>3. CASE c = NL
  <2>1. t = NextLine(s)
    BY <1>3 DEF vga_putchar, NL, CR, TAB
  <2> QED BY <2>1, TidyNextLine
<1>4. CASE c = TAB
  <2> DEFINE col == ((s.col + TAB_STOP) \div TAB_STOP) * TAB_STOP
  <2>1. t = Advance(s, col)
    BY <1>4 DEF vga_putchar, NL, CR, TAB
  <2>2. s.col \in 0..(VGA_WIDTH - 1) /\ s.row \in 0..(VGA_HEIGHT - 1) /\ Position(s) \in Nat
    BY <1>1, CursorOnCell
  <2>3. col \in Nat /\ col >= s.col
    BY <2>2, TabStop
  <2> HIDE DEF col
  <2>4. CASE col >= VGA_WIDTH
    BY <2>1, <2>4, TidyNextLine DEF Advance
  <2>5. CASE col < VGA_WIDTH
    <3>1. t = [s EXCEPT !.col = col]
      BY <2>1, <2>3, <2>5, VgaAssumption DEF Advance
    <3>2. t.row = s.row /\ t.col = col /\ t.cell = s.cell
      BY <1>1, <3>1 DEF Screens
    <3>3. col \in 0..(VGA_WIDTH - 1)
      BY <2>3, <2>5, VgaAssumption
    <3>4. t \in Screens(Glyphs)
      BY <1>1, <3>1, <3>3 DEF Screens
    <3>5. Position(t) >= Position(s)
      <4>1. s.row * VGA_WIDTH \in Nat
        BY <2>2, Rows
      <4> QED BY <4>1, <2>2, <2>3, <3>2 DEF Position
    <3>6. Position(t) \in Nat
      BY <3>4, CursorOnCell
    <3>7. ASSUME NEW i \in Cells, i >= Position(t)
          PROVE  i >= Position(s)
      BY <2>2, <3>5, <3>6, <3>7, ScreenEnd
    <3> QED BY <3>2, <3>4, <3>7 DEF Tidy
  <2> QED BY <2>3, <2>4, <2>5, VgaAssumption
<1> QED BY <1>2, <1>3, <1>4

\* Neither does a backspace.
LEMMA TidyErase ==
  ASSUME NEW s, Tidy(s), NEW t, t = vga_print(s, BS), Position(s) >= 1
  PROVE  Tidy(t)
<1>1. s \in Screens(Glyphs)
  BY DEF Tidy
<1>2. /\ t \in Screens(Glyphs) /\ Position(t) = Position(s) - 1 /\ Position(s) \in Nat
      /\ \A i \in Cells : t.cell[i] = IF i = Position(s) - 1 THEN Blank ELSE s.cell[i]
  BY <1>1, ErasePlace, CursorOnCell
<1>3. ASSUME NEW i \in Cells, i >= Position(t)
      PROVE  i = Position(s) - 1 \/ i >= Position(s)
  BY <1>2, <1>3, ScreenEnd
<1> QED BY <1>2, <1>3 DEF Tidy

\* The cleared screen is empty.
LEMMA TidyClear == Tidy(vga_clear)
<1>1. Blank \in Glyphs
  BY CellCharacters
<1>2. 0 \in 0..(VGA_HEIGHT - 1) /\ 0 \in 0..(VGA_WIDTH - 1)
  BY VgaAssumption
<1>3. vga_clear \in Screens(Glyphs)
  BY <1>1, <1>2 DEF vga_clear, Screens
<1>4. \A i \in Cells : vga_clear.cell[i] = Blank
  BY DEF vga_clear
<1> QED BY <1>3, <1>4 DEF Tidy

-------------------------------------------------------------------------------
(* What is shown before the cursor.                                        *)

\* What stands before the cursor is one cell further back after a character, which
\* now stands next to it, as long as the row that scrolling takes is not needed.
LEMMA ShowsPut ==
  ASSUME NEW s \in Screens(Glyphs), NEW c \in Glyphs, NEW t, t = vga_putchar(s, c),
         NEW j \in Nat, NEW text, Len(text) \in Nat,
         Shows(s, j, text), j + Len(text) + 1 <= Room
  PROVE  Shows(t, j + 1, text) /\ Position(t) >= 1 /\ t.cell[Position(t) - 1] = c
<1> DEFINE L == Len(text)
<1>1. /\ Position(s) \in Nat /\ Position(s) \in Cells /\ Position(t) \in Nat
      /\ Position(s) >= j + L /\ L \in Nat /\ j + L + 1 <= Room
      /\ \A k \in 1..L : s.cell[Position(s) - (j + L + 1 - k)] = text[k]
  BY PutPlace, CursorOnCell DEF Shows
<1> HIDE DEF L
<1>2. SUFFICES /\ Position(t) >= j + L + 1 /\ t.cell[Position(t) - 1] = c
               /\ \A k \in 1..L : t.cell[Position(t) - (j + 1 + L + 1 - k)] = text[k]
  BY <1>1 DEF Shows, L
<1>3. CASE /\ Position(t) = Position(s) + 1
           /\ \A i \in Cells : t.cell[i] = IF i = Position(s) THEN c ELSE s.cell[i]
  <2>1. Position(t) >= j + L + 1 /\ Position(t) - 1 = Position(s)
    <3>1. Position(t) = Position(s) + 1 /\ Position(s) \in Nat /\ Position(s) >= j + L
          /\ L \in Nat
      BY <1>1, <1>3
    <3> QED BY <3>1
  <2>2. ASSUME NEW k \in 1..L
        PROVE  t.cell[Position(t) - (j + 1 + L + 1 - k)] = text[k]
    <3> DEFINE i == Position(s) - (j + L + 1 - k)
    <3>1. i \in Cells /\ i # Position(s) /\ Position(t) - (j + 1 + L + 1 - k) = i
      BY <1>1, <1>3, ScreenEnd
    <3>2. s.cell[i] = text[k]
      BY <1>1
    <3> HIDE DEF i
    <3> QED BY <1>3, <3>1, <3>2
  <2> QED BY <1>1, <1>3, <2>1, <2>2
<1>4. CASE /\ Position(s) = Room + VGA_WIDTH - 1 /\ Position(t) = Room
           /\ \A i \in Cells :
                t.cell[i] = IF i + VGA_WIDTH \in Cells
                            THEN IF i + VGA_WIDTH = Position(s) THEN c
                                 ELSE s.cell[i + VGA_WIDTH]
                            ELSE Blank
  <2>1. Position(t) >= j + L + 1
    BY <1>1, <1>4
  <2>2. /\ Position(t) - 1 \in Cells /\ Position(t) - 1 + VGA_WIDTH = Position(s)
    BY <1>1, <1>4, <2>1, ScreenEnd
  <2>3. t.cell[Position(t) - 1] = c
    BY <1>1, <1>4, <2>2
  <2>4. ASSUME NEW k \in 1..L
        PROVE  t.cell[Position(t) - (j + 1 + L + 1 - k)] = text[k]
    <3> DEFINE i == Position(t) - (j + 1 + L + 1 - k)
               h == Position(s) - (j + L + 1 - k)
    <3>1. i \in Cells /\ i + VGA_WIDTH = h /\ h \in Cells /\ h # Position(s)
      BY <1>1, <1>4, ScreenEnd
    <3>2. s.cell[h] = text[k]
      BY <1>1
    <3> HIDE DEF i, h
    <3>3. t.cell[i] = text[k]
      BY <1>4, <3>1, <3>2
    <3> QED BY <3>3 DEF i
  <2> QED BY <2>1, <2>3, <2>4
<1> QED BY PutPlace, <1>3, <1>4

\* A text that ends at the cursor, and the character that is put behind it.
LEMMA ShowsAppend ==
  ASSUME NEW s \in Screens(Glyphs), NEW c \in Glyphs, NEW t, t = vga_putchar(s, c),
         NEW text, NEW more, Len(text) \in Nat, Len(more) = Len(text) + 1,
         \A k \in 1..Len(text) : more[k] = text[k], more[Len(text) + 1] = c,
         Shows(s, 0, text), Len(more) <= Room
  PROVE  Shows(t, 0, more)
<1>1. t \in Screens(Glyphs) /\ 0 + Len(text) + 1 <= Room
  BY PutPlace
<1>2. Shows(t, 0 + 1, text) /\ Position(t) >= 1 /\ t.cell[Position(t) - 1] = c
  BY <1>1, ShowsPut
<1> DEFINE L == Len(text)
<1>3. /\ Position(t) >= L + 1 /\ Position(t) \in Nat /\ L \in Nat /\ Len(more) = L + 1
      /\ \A k \in 1..L : t.cell[Position(t) - (0 + 1 + L + 1 - k)] = text[k]
      /\ \A k \in 1..L : more[k] = text[k]
      /\ more[L + 1] = c
  BY <1>1, <1>2, CursorOnCell DEF Shows
<1> HIDE DEF L
<1>4. Position(t) >= 0 + (L + 1)
  BY <1>3
<1>5. ASSUME NEW k \in 1..(L + 1)
      PROVE  t.cell[Position(t) - (0 + (L + 1) + 1 - k)] = more[k]
  <2>1. CASE k = L + 1
    <3>1. Position(t) - (0 + (L + 1) + 1 - k) = Position(t) - 1
      BY <1>3, <2>1
    <3> QED BY <1>2, <1>3, <2>1, <3>1
  <2>2. CASE k \in 1..L
    <3>1. Position(t) - (0 + (L + 1) + 1 - k) = Position(t) - (0 + 1 + L + 1 - k)
      BY <1>3, <2>2
    <3> QED BY <1>3, <2>2, <3>1
  <2> QED BY <1>3, <2>1, <2>2
<1> QED BY <1>3, <1>4, <1>5 DEF Shows

\* A backspace takes the cell next to the cursor and no other.
LEMMA ShowsErase ==
  ASSUME NEW s \in Screens(Glyphs), NEW t, t = vga_print(s, BS),
         NEW j \in Nat, NEW text, Len(text) \in Nat, Shows(s, j + 1, text)
  PROVE  Position(s) >= 1 /\ Shows(t, j, text)
<1> DEFINE L == Len(text)
<1>1. /\ Position(s) \in Nat /\ Position(s) \in Cells /\ L \in Nat
      /\ Position(s) >= j + 1 + L
      /\ \A k \in 1..L : s.cell[Position(s) - (j + 1 + L + 1 - k)] = text[k]
  BY CursorOnCell DEF Shows
<1>2. Position(s) >= 1
  BY <1>1
<1>3. /\ Position(t) = Position(s) - 1
      /\ \A i \in Cells : t.cell[i] = IF i = Position(s) - 1 THEN Blank ELSE s.cell[i]
  BY <1>2, ErasePlace
<1> HIDE DEF L
<1>4. Position(t) >= j + L
  BY <1>1, <1>3
<1>5. ASSUME NEW k \in 1..L
      PROVE  t.cell[Position(t) - (j + L + 1 - k)] = text[k]
  <2> DEFINE i == Position(s) - (j + 1 + L + 1 - k)
  <2>1. i \in Cells /\ i # Position(s) - 1 /\ Position(t) - (j + L + 1 - k) = i
    BY <1>1, <1>3, ScreenEnd
  <2>2. s.cell[i] = text[k]
    BY <1>1
  <2> HIDE DEF i
  <2> QED BY <1>3, <2>1, <2>2
<1> QED BY <1>2, <1>4, <1>5 DEF Shows, L

-------------------------------------------------------------------------------
(* The line and its echo.                                                  *)

\* A prompt, a line and the marks between them fit above the last row.
LEMMA LineFits ==
  ASSUME NEW p \in Prompts
  PROVE  /\ p \in Seq(Glyphs) /\ Len(p) \in Nat
         /\ LINE_MAX \in Nat /\ MAX_STRAYS \in Nat /\ TAB_LIMIT \in 0..LINE_MAX
         /\ Len(p) + LINE_MAX + MAX_STRAYS + 1 <= Room
<1>1. p \in Seq(Glyphs)
  BY ConsoleAssumption
<1>2. Len(p) \in Nat
  BY <1>1
<1>3. LINE_MAX \in Nat /\ MAX_STRAYS \in Nat /\ TAB_LIMIT \in 0..LINE_MAX
  BY ConsoleAssumption
<1>4. Len(p) + LINE_MAX + MAX_STRAYS + 1 <= Room
  BY ConsoleAssumption DEF Room
<1> QED BY <1>1, <1>2, <1>3, <1>4

\* The screen while the cursor's mark is away: the prompt, strays and the line.
Holds(s, text) ==
  /\ Tidy(s)
  /\ Shows(s, Len(text) + strays, prompt)
  /\ strays = 0 => Shows(s, 0, text)

\* One more character on the line and on the screen.
LEMMA PutHolds ==
  ASSUME NEW s, NEW c \in Glyphs, NEW t, t = vga_putchar(s, c),
         NEW text, NEW more, Len(text) \in Nat, Len(more) = Len(text) + 1,
         \A k \in 1..Len(text) : more[k] = text[k], more[Len(text) + 1] = c,
         Len(more) <= LINE_MAX, prompt \in Prompts, strays \in 0..MAX_STRAYS,
         Holds(s, text)
  PROVE  Holds(t, more)
<1>1. s \in Screens(Glyphs) /\ Tidy(s)
  BY DEF Holds, Tidy
<1>2. Tidy(t) /\ t \in Screens(Glyphs)
  <2>1. Tidy(t)
    BY <1>1, TidyPrint
  <2> QED BY <2>1 DEF Tidy
<1>3. /\ Len(prompt) \in Nat /\ LINE_MAX \in Nat /\ MAX_STRAYS \in Nat /\ Room \in Nat
      /\ Len(prompt) + LINE_MAX + MAX_STRAYS + 1 <= Room
  BY LineFits, ScreenEnd
<1>4. /\ Len(text) + strays \in Nat /\ Len(text) + strays + Len(prompt) + 1 <= Room
      /\ Len(text) + 1 <= Room /\ Len(more) + strays = Len(text) + strays + 1
  BY <1>3
<1>5. Shows(t, Len(more) + strays, prompt)
  <2>1. Shows(s, Len(text) + strays, prompt)
    BY DEF Holds
  <2> DEFINE j == Len(text) + strays
  <2>2. j \in Nat /\ j + Len(prompt) + 1 <= Room /\ Shows(s, j, prompt)
    BY <2>1, <1>4
  <2> HIDE DEF j
  <2>3. Shows(t, j + 1, prompt)
    BY <1>1, <1>3, <2>2, ShowsPut
  <2> QED BY <1>4, <2>3 DEF j
<1>6. ASSUME strays = 0
      PROVE  Shows(t, 0, more)
  <2>1. Shows(s, 0, text) /\ 0 + Len(text) + 1 <= Room
    BY <1>4, <1>6 DEF Holds
  <2> QED BY <1>1, <2>1, ShowsAppend
<1> QED BY <1>2, <1>5, <1>6 DEF Holds

\* The last character of the line goes, and so does its cell.
LEMMA EraseHolds ==
  ASSUME NEW s, NEW t, t = vga_print(s, BS), NEW text, Len(text) \in Nat, text # <<>>,
         NEW less, Len(less) = Len(text) - 1, Len(less) \in Nat,
         \A k \in 1..Len(less) : less[k] = text[k],
         prompt \in Prompts, strays \in 0..MAX_STRAYS, Holds(s, text)
  PROVE  Holds(t, less)
<1>1. s \in Screens(Glyphs) /\ Tidy(s)
  BY DEF Holds, Tidy
<1>2. Len(prompt) \in Nat /\ MAX_STRAYS \in Nat
  BY LineFits
<1>3. Len(less) + strays \in Nat /\ Len(text) + strays = Len(less) + strays + 1
  BY <1>2
<1>4. Position(s) >= 1 /\ Shows(t, Len(less) + strays, prompt)
  <2> DEFINE j == Len(less) + strays
  <2>1. j \in Nat /\ Shows(s, j + 1, prompt)
    BY <1>3 DEF Holds
  <2> HIDE DEF j
  <2>2. Position(s) >= 1 /\ Shows(t, j, prompt)
    BY <1>1, <1>2, <2>1, ShowsErase
  <2> QED BY <2>2 DEF j
<1>5. ASSUME strays = 0
      PROVE  Shows(t, 0, less)
  <2>1. Shows(s, 0, text)
    BY <1>5 DEF Holds
  <2> DEFINE L == Len(less)
  <2>2. /\ Position(s) \in Nat /\ L \in Nat /\ Position(s) >= L + 1
        /\ \A k \in 1..L : s.cell[Position(s) - (0 + (L + 1) + 1 - k)] = less[k]
    <3>1. Len(text) = L + 1 /\ \A k \in 1..L : k \in 1..Len(text) /\ less[k] = text[k]
      OBVIOUS
    <3> HIDE DEF L
    <3>2. /\ Position(s) >= 0 + (L + 1)
          /\ \A k \in 1..(L + 1) : s.cell[Position(s) - (0 + (L + 1) + 1 - k)] = text[k]
      BY <2>1, <3>1 DEF Shows
    <3>3. Position(s) \in Nat
      BY <1>1, CursorOnCell
    <3>4. L \in Nat
      BY DEF L
    <3> QED BY <3>1, <3>2, <3>3, <3>4
  <2> HIDE DEF L
  <2>3. Shows(s, 0 + 1, less)
    <3>1. Position(s) >= 0 + 1 + L
      BY <2>2
    <3>2. ASSUME NEW k \in 1..L
          PROVE  s.cell[Position(s) - (0 + 1 + L + 1 - k)] = less[k]
      <4>1. Position(s) - (0 + 1 + L + 1 - k) = Position(s) - (0 + (L + 1) + 1 - k)
        BY <2>2
      <4> QED BY <2>2, <4>1
    <3> QED BY <3>1, <3>2 DEF Shows, L
  <2> QED BY <1>1, <2>3, ShowsErase
<1>6. Tidy(t)
  BY <1>1, <1>4, TidyErase
<1> QED BY <1>4, <1>5, <1>6 DEF Holds

\* A line with n blanks behind it.
Padded(text, n) == text \o [i \in 1..n |-> Blank]

\* Its characters.
LEMMA PaddedLine ==
  ASSUME NEW text \in Seq(Chars), NEW n \in Nat
  PROVE  /\ Padded(text, n) \in Seq(Chars)
         /\ Len(text) \in Nat /\ Len(Padded(text, n)) = Len(text) + n
         /\ \A k \in 1..Len(text) : Padded(text, n)[k] = text[k]
         /\ \A k \in 1..n : Padded(text, n)[Len(text) + k] = Blank
<1>1. Blank \in Chars
  BY ConsoleAssumption
<1> DEFINE b == [i \in 1..n |-> Blank]
<1>2. b \in Seq(Chars) /\ Len(b) = n /\ \A k \in 1..n : b[k] = Blank
  BY <1>1
<1>3. Padded(text, n) = text \o b
  BY DEF Padded
<1> HIDE DEF b
<1>4. text \o b \in Seq(Chars) /\ Len(text \o b) = Len(text) + n /\ Len(text) \in Nat
  BY <1>2
<1>5. \A k \in 1..Len(text) : (text \o b)[k] = text[k]
  BY <1>2
<1>6. \A k \in 1..n : (text \o b)[Len(text) + k] = b[k]
  BY <1>2
<1> QED BY <1>2, <1>3, <1>4, <1>5, <1>6

\* One blank more.
LEMMA BlankHolds ==
  ASSUME NEW text \in Seq(Chars), NEW n \in Nat, NEW s, Holds(s, Padded(text, n)),
         NEW t, t = vga_putchar(s, Blank), Len(text) + n + 1 <= LINE_MAX,
         prompt \in Prompts, strays \in 0..MAX_STRAYS
  PROVE  Holds(t, Padded(text, n + 1))
<1> DEFINE now == Padded(text, n)
           then == Padded(text, n + 1)
<1>0. now = Padded(text, n) /\ then = Padded(text, n + 1) /\ n + 1 \in Nat
  OBVIOUS
<1>3. Holds(s, now) /\ Blank \in Glyphs
  BY CellCharacters
<1> HIDE DEF now, then
<1>1. /\ Len(now) = Len(text) + n /\ Len(text) \in Nat
      /\ \A k \in 1..Len(text) : now[k] = text[k]
      /\ \A k \in 1..n : now[Len(text) + k] = Blank
  BY <1>0, PaddedLine
<1>2. /\ Len(then) = Len(text) + (n + 1)
      /\ \A k \in 1..Len(text) : then[k] = text[k]
      /\ \A k \in 1..(n + 1) : then[Len(text) + k] = Blank
  BY <1>0, PaddedLine
<1>4. /\ Len(now) \in Nat /\ Len(then) = Len(now) + 1 /\ Len(then) <= LINE_MAX
      /\ then[Len(now) + 1] = Blank
  <2>1. Len(now) + 1 = Len(text) + (n + 1) /\ n + 1 \in 1..(n + 1)
    BY <1>1
  <2> QED BY <1>1, <1>2, <2>1
<1>5. ASSUME NEW k \in 1..Len(now)
      PROVE  then[k] = now[k]
  <2>1. CASE k \in 1..Len(text)
    BY <1>1, <1>2, <2>1
  <2>2. CASE k \notin 1..Len(text)
    <3>1. k - Len(text) \in 1..n /\ k - Len(text) \in 1..(n + 1) /\ k = Len(text) + (k - Len(text))
      BY <1>1, <2>2
    <3> QED BY <1>1, <1>2, <3>1
  <2> QED BY <2>1, <2>2
<1>6. Holds(t, then)
  BY <1>3, <1>4, <1>5, PutHolds
<1> QED BY <1>6 DEF then

\* Up to four of them.
LEMMA SpacesHold ==
  ASSUME NEW text \in Seq(Chars), NEW n \in 0..4, NEW s, Holds(s, text),
         NEW t, t = Spaces(s, n), Len(text) + n <= LINE_MAX,
         prompt \in Prompts, strays \in 0..MAX_STRAYS
  PROVE  Holds(t, Padded(text, n))
<1> DEFINE put(u) == vga_putchar(u, Blank)
           s1 == put(s)
           s2 == put(s1)
           s3 == put(s2)
           s4 == put(s3)
<1>1. /\ n = 0 => t = s
      /\ n = 1 => t = s1
      /\ n = 2 => t = s2
      /\ n = 3 => t = s3
      /\ n = 4 => t = s4
  BY DEF Spaces
<1>2. s1 = vga_putchar(s, Blank) /\ s2 = vga_putchar(s1, Blank)
      /\ s3 = vga_putchar(s2, Blank) /\ s4 = vga_putchar(s3, Blank)
  OBVIOUS
<1> HIDE DEF s1, s2, s3, s4
<1>3. Len(text) \in Nat /\ LINE_MAX \in Nat
  BY LineFits
<1>4. Holds(s, Padded(text, 0))
  <2>1. Padded(text, 0) = text
    BY DEF Padded
  <2> QED BY <2>1
<1>5. n >= 1 => Holds(s1, Padded(text, 1))
  <2>1. SUFFICES ASSUME n >= 1 PROVE Holds(s1, Padded(text, 0 + 1))
    OBVIOUS
  <2>2. Len(text) + 0 + 1 <= LINE_MAX
    BY <1>3, <2>1
  <2> QED BY <1>2, <1>4, <2>2, BlankHolds
<1>6. n >= 2 => Holds(s2, Padded(text, 2))
  <2>1. SUFFICES ASSUME n >= 2 PROVE Holds(s2, Padded(text, 1 + 1))
    OBVIOUS
  <2>2. Len(text) + 1 + 1 <= LINE_MAX /\ n >= 1
    BY <1>3, <2>1
  <2> QED BY <1>2, <1>5, <2>2, BlankHolds
<1>7. n >= 3 => Holds(s3, Padded(text, 3))
  <2>1. SUFFICES ASSUME n >= 3 PROVE Holds(s3, Padded(text, 2 + 1))
    OBVIOUS
  <2>2. Len(text) + 2 + 1 <= LINE_MAX /\ n >= 2
    BY <1>3, <2>1
  <2> QED BY <1>2, <1>6, <2>2, BlankHolds
<1>8. n >= 4 => Holds(s4, Padded(text, 4))
  <2>1. SUFFICES ASSUME n >= 4 PROVE Holds(s4, Padded(text, 3 + 1))
    OBVIOUS
  <2>2. Len(text) + 3 + 1 <= LINE_MAX /\ n >= 3
    BY <1>3, <2>1
  <2> QED BY <1>2, <1>7, <2>2, BlankHolds
<1>9. n = 0 \/ n = 1 \/ n = 2 \/ n = 3 \/ n = 4
  OBVIOUS
<1> QED BY <1>1, <1>4, <1>5, <1>6, <1>7, <1>8, <1>9

\* The screen with the cursor's mark behind n strays and the line.
Marks(s, text, n) ==
  /\ Tidy(s)
  /\ Shows(s, Len(text) + n + 1, prompt) /\ Shows(s, 0, <<Mark>>)
  /\ n = 0 => Shows(s, 1, text)

\* What the cursor's mark stands for.
LEMMA MarkShows ==
  ASSUME NEW s \in Screens(Glyphs), Position(s) >= 1, s.cell[Position(s) - 1] = Mark
  PROVE  Shows(s, 0, <<Mark>>)
<1>1. Position(s) \in Nat
  BY CursorOnCell
<1>2. Position(s) - (0 + 1 + 1 - 1) = Position(s) - 1
  BY <1>1
<1>3. Len(<<Mark>>) = 1 /\ <<Mark>>[1] = Mark
  OBVIOUS
<1>4. \A k \in 1..1 : s.cell[Position(s) - (0 + 1 + 1 - k)] = <<Mark>>[k]
  <2>1. \A k \in 1..1 : k = 1
    OBVIOUS
  <2> QED BY <1>2, <1>3, <2>1
<1> QED BY <1>1, <1>3, <1>4 DEF Shows

\* The mark is drawn behind the line.
LEMMA MarkHolds ==
  ASSUME NEW s, NEW text, Len(text) \in Nat, Len(text) <= LINE_MAX, Holds(s, text),
         NEW t, t = Marked(s), prompt \in Prompts, strays \in 0..MAX_STRAYS
  PROVE  Marks(t, text, strays)
<1>1. s \in Screens(Glyphs) /\ Tidy(s) /\ Mark \in Glyphs /\ t = vga_putchar(s, Mark)
  BY CellCharacters DEF Holds, Tidy, Marked
<1>2. Tidy(t) /\ t \in Screens(Glyphs)
  <2>1. Tidy(t)
    BY <1>1, TidyPrint
  <2> QED BY <2>1 DEF Tidy
<1>3. /\ Len(prompt) \in Nat /\ LINE_MAX \in Nat /\ MAX_STRAYS \in Nat /\ Room \in Nat
      /\ Len(prompt) + LINE_MAX + MAX_STRAYS + 1 <= Room
  BY LineFits, ScreenEnd
<1>4. /\ Shows(t, Len(text) + strays + 1, prompt)
      /\ Position(t) >= 1 /\ t.cell[Position(t) - 1] = Mark
  <2> DEFINE j == Len(text) + strays
  <2>1. j \in Nat /\ j + Len(prompt) + 1 <= Room /\ Shows(s, j, prompt)
    BY <1>3 DEF Holds
  <2> HIDE DEF j
  <2>2. Shows(t, j + 1, prompt) /\ Position(t) >= 1 /\ t.cell[Position(t) - 1] = Mark
    BY <1>1, <1>3, <2>1, ShowsPut
  <2> QED BY <2>2 DEF j
<1>5. ASSUME strays = 0
      PROVE  Shows(t, 1, text)
  <2>1. Shows(s, 0, text) /\ 0 + Len(text) + 1 <= Room
    BY <1>3, <1>5 DEF Holds
  <2>2. Shows(t, 0 + 1, text)
    BY <1>1, <2>1, ShowsPut
  <2> QED BY <2>2
<1> QED BY <1>2, <1>4, <1>5, MarkShows DEF Marks

-------------------------------------------------------------------------------
(* The steps.                                                              *)

\* What a command may print is a text, and so is a line with its end.
LEMMA TextTypes ==
  /\ \A out \in Outputs : out \in Texts
  /\ \A p \in Prompts : p \in Texts
  /\ \A text \in Seq(Chars) : text \o <<NL>> \in Texts
  /\ <<>> \in Texts
<1>1. /\ Chars \subseteq Glyphs /\ Outputs \subseteq Texts /\ Prompts \subseteq Seq(Glyphs)
  BY ConsoleAssumption
<1>2. \A p \in Seq(Glyphs) : p \in Texts
  BY DEF Texts
<1>3. \A text \in Seq(Chars) : text \o <<NL>> \in Texts
  <2> SUFFICES ASSUME NEW text \in Seq(Chars) PROVE text \o <<NL>> \in Texts
    OBVIOUS
  <2>1. text \in Texts /\ <<NL>> \in Texts
    BY <1>1 DEF Texts
  <2> QED BY <2>1 DEF Texts
<1> QED BY <1>1, <1>2, <1>3 DEF Texts

\* Without a line being edited or a prompt printed, only types and what is ahead of
\* the cursor are left to show.
LEMMA OutputKeeps ==
  ASSUME TypeOK', Tidy(screen'), pc' \in {"output", "command"}
  PROVE  IInv'
BY DEF IInv, Tidy, BlankAhead, PromptPrinted, PromptKept, EchoShowsLine

\* After a step that leaves the mark behind the line, the invariant holds.
LEMMA PollKeeps ==
  ASSUME TypeOK', pc' = "poll", prompt' = prompt, Marks(screen', line', strays')
  PROVE  IInv'
<1>1. Shows(screen', Len(line') + strays' + 1, prompt') /\ Shows(screen', 0, <<Mark>>)
  BY DEF Marks
<1>2. strays' = 0 => Shows(screen', 1, line')
  BY DEF Marks
<1>3. PromptKept' /\ EchoShowsLine'
  BY <1>1, <1>2 DEF PromptKept, EchoShowsLine
<1>4. PromptPrinted'
  BY DEF PromptPrinted
<1>5. BlankAhead'
  BY DEF Marks, Tidy, BlankAhead
<1> QED BY <1>3, <1>4, <1>5 DEF IInv

\* The screen of the invariant, and what stands on it when the mark goes.
LEMMA UnmarkHolds ==
  ASSUME IInv, pc = "poll", NEW s, s = Unmarked
  PROVE  Holds(s, line) /\ Tidy(screen) /\ Position(screen) >= 1
<1>1. /\ screen \in Screens(Glyphs) /\ Tidy(screen) /\ prompt \in Prompts
      /\ strays \in 0..MAX_STRAYS /\ line \in Seq(Chars)
  BY DEF IInv, TypeOK, BlankAhead, Tidy
<1>2. Len(prompt) \in Nat /\ MAX_STRAYS \in Nat /\ Len(line) \in Nat
  BY <1>1, LineFits
<1>3. s = vga_print(screen, BS)
  BY DEF Unmarked
<1>4. Position(screen) >= 1 /\ Shows(s, Len(line) + strays, prompt)
  <2> DEFINE j == Len(line) + strays
  <2>1. j \in Nat /\ Shows(screen, j + 1, prompt)
    BY <1>1, <1>2 DEF IInv, PromptKept
  <2> HIDE DEF j
  <2>2. Position(screen) >= 1 /\ Shows(s, j, prompt)
    BY <1>1, <1>2, <1>3, <2>1, ShowsErase
  <2> QED BY <2>2 DEF j
<1>5. ASSUME strays = 0
      PROVE  Shows(s, 0, line)
  <2>1. Shows(screen, 0 + 1, line)
    BY <1>5 DEF IInv, EchoShowsLine
  <2> QED BY <1>1, <1>2, <1>3, <2>1, ShowsErase
<1>6. Tidy(s)
  BY <1>1, <1>3, <1>4, TidyErase
<1> QED BY <1>1, <1>4, <1>5, <1>6 DEF Holds

\* A key's echo that leaves the line it edits on the screen.
LEMMA EditKeeps ==
  ASSUME IInv, pc = "poll", line' \in Seq(Chars), Len(line') <= LINE_MAX,
         NEW s, Holds(s, line'), Edit(s)
  PROVE  IInv'
<1>1. /\ prompt \in Prompts /\ strays \in 0..MAX_STRAYS
      /\ prompt' = prompt /\ strays' = strays /\ pc' = "poll" /\ pending' = pending
      /\ screen' = Marked(s) /\ Len(line') \in Nat
  BY DEF IInv, TypeOK, Edit
<1>2. Marks(screen', line', strays)
  BY <1>1, MarkHolds
<1>3. TypeOK'
  <2>1. screen' \in Screens(Glyphs)
    BY <1>2 DEF Marks, Tidy
  <2> QED BY <1>1, <2>1 DEF IInv, TypeOK
<1> QED BY <1>1, <1>2, <1>3, PollKeeps

\* TypeCharacter: the character stands where the mark was.
LEMMA TypeStep ==
  ASSUME IInv, NEW c \in Chars, TypeCharacter(c)
  PROVE  IInv'
<1>1. pc = "poll" /\ Len(line) < LINE_MAX /\ line' = Append(line, c)
  BY DEF TypeCharacter
<1>2. /\ line \in Seq(Chars) /\ Len(line) \in Nat /\ prompt \in Prompts
      /\ strays \in 0..MAX_STRAYS /\ LINE_MAX \in Nat /\ c \in Glyphs
  BY LineFits, CellCharacters DEF IInv, TypeOK
<1>3. /\ line' \in Seq(Chars) /\ Len(line') = Len(line) + 1 /\ Len(line') <= LINE_MAX
      /\ \A k \in 1..Len(line) : line'[k] = line[k]
      /\ line'[Len(line) + 1] = c
  BY <1>1, <1>2
<1> DEFINE s == Unmarked
           t == vga_putchar(s, c)
<1>4. s = Unmarked /\ t = vga_putchar(s, c) /\ Edit(t)
  BY DEF TypeCharacter
<1> HIDE DEF s, t
<1>5. Holds(s, line)
  BY <1>1, <1>4, UnmarkHolds
<1>6. Holds(t, line')
  BY <1>2, <1>3, <1>4, <1>5, PutHolds
<1> QED BY <1>1, <1>3, <1>4, <1>6, EditKeeps

\* A line without its last character.
LEMMA FrontOf ==
  ASSUME NEW text \in Seq(Chars), text # <<>>
  PROVE  LET less == SubSeq(text, 1, Len(text) - 1)
         IN /\ less \in Seq(Chars) /\ Len(less) = Len(text) - 1 /\ Len(less) \in Nat
            /\ \A k \in 1..Len(less) : less[k] = text[k]
<1>1. Len(text) \in Nat /\ Len(text) >= 1
  OBVIOUS
<1> DEFINE n == Len(text) - 1
<1>2. n \in Nat /\ n <= Len(text) /\ n = Len(text) - 1
  BY <1>1
<1> HIDE DEF n
<1>3. SubSeq(text, 1, n) \in Seq(Chars) /\ Len(SubSeq(text, 1, n)) = n
  BY <1>1, <1>2
<1>4. \A k \in 1..n : SubSeq(text, 1, n)[k] = text[k]
  BY <1>1, <1>2
<1> QED BY <1>2, <1>3, <1>4

\* An erased character: one cell back, a blank, and back again.
LEMMA ErasedHolds ==
  ASSUME NEW text, NEW less, Len(text) \in Nat, text # <<>>, Len(less) \in Nat,
         Len(less) = Len(text) - 1, \A k \in 1..Len(less) : less[k] = text[k],
         NEW s, Holds(s, text), NEW t, t = Erased(s), Len(text) <= LINE_MAX,
         NEW again, Len(again) = Len(less) + 1, again # <<>>,
         \A k \in 1..Len(less) : again[k] = less[k], again[Len(less) + 1] = Blank,
         prompt \in Prompts, strays \in 0..MAX_STRAYS
  PROVE  Holds(t, less)
<1> DEFINE u == vga_print(s, BS)
           v == vga_print(u, Blank)
<1>1. u = vga_print(s, BS) /\ v = vga_print(u, Blank) /\ t = vga_print(v, BS)
  BY DEF Erased
<1> HIDE DEF u, v
<1>2. Blank \in Glyphs /\ Blank # BS
  BY CellCharacters
<1>3. Holds(u, less)
  BY <1>1, EraseHolds
<1>4. v = vga_putchar(u, Blank)
  BY <1>1, <1>2 DEF vga_print
<1>5. Len(again) <= LINE_MAX /\ Len(again) \in Nat /\ Len(less) = Len(again) - 1
  OBVIOUS
<1>6. Holds(v, again)
  BY <1>2, <1>3, <1>4, <1>5, PutHolds
<1>7. \A k \in 1..Len(less) : less[k] = again[k]
  OBVIOUS
<1> QED BY <1>1, <1>5, <1>6, <1>7, EraseHolds

\* BackspaceKey, on a line and on an empty one.
LEMMA BackspaceStep ==
  ASSUME IInv, BackspaceKey
  PROVE  IInv'
<1> DEFINE s == Unmarked
           t == Erased(s)
<1>1. /\ s = Unmarked /\ t = Erased(s) /\ pc = "poll"
      /\ \/ line # <<>> /\ line' = SubSeq(line, 1, Len(line) - 1) /\ Edit(t)
         \/ line = <<>> /\ line' = line /\ Edit(s)
  BY DEF BackspaceKey
<1> HIDE DEF s, t
<1>2. Holds(s, line)
  BY <1>1, UnmarkHolds
<1>3. CASE line # <<>> /\ line' = SubSeq(line, 1, Len(line) - 1) /\ Edit(t)
  <2>1. /\ line \in Seq(Chars) /\ Len(line) \in Nat /\ Len(line) <= LINE_MAX
        /\ prompt \in Prompts /\ strays \in 0..MAX_STRAYS /\ LINE_MAX \in Nat
    BY LineFits DEF IInv, TypeOK
  <2> DEFINE less == SubSeq(line, 1, Len(line) - 1)
  <2>2. /\ less \in Seq(Chars) /\ Len(less) = Len(line) - 1 /\ Len(less) \in Nat
        /\ \A k \in 1..Len(less) : less[k] = line[k]
    BY <1>3, <2>1, FrontOf
  <2>3. line' = less
    BY <1>3
  <2> HIDE DEF less
  <2> DEFINE again == Append(less, Blank)
  <2>4. /\ Len(again) = Len(less) + 1 /\ again # <<>>
        /\ \A k \in 1..Len(less) : again[k] = less[k]
        /\ again[Len(less) + 1] = Blank
    BY <2>2
  <2> HIDE DEF again
  <2>5. Holds(t, less)
    BY <1>1, <1>2, <1>3, <2>1, <2>2, <2>4, ErasedHolds
  <2>6. line' \in Seq(Chars) /\ Len(line') <= LINE_MAX /\ Holds(t, line')
    BY <2>1, <2>2, <2>3, <2>5
  <2> QED BY <1>1, <1>3, <2>6, EditKeeps
<1>4. CASE line' = line /\ Edit(s)
  <2>1. line' \in Seq(Chars) /\ Len(line') <= LINE_MAX /\ Holds(s, line')
    BY <1>2, <1>4 DEF IInv, TypeOK
  <2> QED BY <1>1, <1>4, <2>1, EditKeeps
<1> QED BY <1>1, <1>3, <1>4

\* TabKey: as many blanks on the screen as on the line.
LEMMA TabStep ==
  ASSUME IInv, TabKey
  PROVE  IInv'
<1> DEFINE n == IF Len(line) >= TAB_LIMIT THEN 0
                ELSE IF Len(line) + 4 <= TAB_LIMIT THEN 4 ELSE TAB_LIMIT - Len(line)
           s == Unmarked
           t == Spaces(s, n)
<1>1. /\ s = Unmarked /\ t = Spaces(s, n) /\ pc = "poll" /\ Edit(t)
      /\ line' = Padded(line, n)
  BY DEF TabKey, Padded
<1>2. /\ line \in Seq(Chars) /\ Len(line) \in Nat /\ Len(line) <= LINE_MAX
      /\ prompt \in Prompts /\ strays \in 0..MAX_STRAYS
      /\ LINE_MAX \in Nat /\ TAB_LIMIT \in 0..LINE_MAX
  BY LineFits DEF IInv, TypeOK
<1>3. n \in 0..4 /\ n \in Nat /\ Len(line) + n <= LINE_MAX
  BY <1>2
<1> HIDE DEF n, s, t
<1>4. Holds(s, line)
  BY <1>1, UnmarkHolds
<1>5. Holds(t, line')
  BY <1>1, <1>2, <1>3, <1>4, SpacesHold
<1>6. line' \in Seq(Chars) /\ Len(line') = Len(line) + n
  BY <1>1, <1>2, <1>3, PaddedLine
<1> QED BY <1>1, <1>3, <1>5, <1>6, EditKeeps

\* OtherKey: the mark goes and comes back.
LEMMA OtherStep ==
  ASSUME IInv, OtherKey
  PROVE  IInv'
<1> DEFINE s == Unmarked
<1>1. s = Unmarked /\ pc = "poll" /\ Edit(s) /\ line' = line
  BY DEF OtherKey
<1> HIDE DEF s
<1>2. Holds(s, line)
  BY <1>1, UnmarkHolds
<1>3. line' \in Seq(Chars) /\ Len(line') <= LINE_MAX /\ Holds(s, line')
  BY <1>1, <1>2 DEF IInv, TypeOK
<1> QED BY <1>1, <1>3, EditKeeps

\* ModifierKey: one more mark between the prompt and the cursor.
LEMMA ModifierStep ==
  ASSUME IInv, ModifierKey
  PROVE  IInv'
<1>1. /\ pc = "poll" /\ pc' = "poll" /\ strays < MAX_STRAYS /\ strays' = strays + 1
      /\ screen' = vga_putchar(screen, Mark)
      /\ pending' = pending /\ line' = line /\ prompt' = prompt
  BY DEF ModifierKey, Marked
<1>2. /\ screen \in Screens(Glyphs) /\ Tidy(screen) /\ prompt \in Prompts
      /\ strays \in 0..MAX_STRAYS /\ line \in Seq(Chars) /\ Len(line) <= LINE_MAX
      /\ Len(line) \in Nat /\ Mark \in Glyphs
  BY CellCharacters DEF IInv, TypeOK, BlankAhead, Tidy
<1>3. /\ Len(prompt) \in Nat /\ LINE_MAX \in Nat /\ MAX_STRAYS \in Nat /\ Room \in Nat
      /\ Len(prompt) + LINE_MAX + MAX_STRAYS + 1 <= Room
  BY <1>2, LineFits, ScreenEnd
<1>4. Tidy(screen') /\ screen' \in Screens(Glyphs)
  <2>1. Tidy(screen')
    BY <1>1, <1>2, TidyPrint
  <2> QED BY <2>1 DEF Tidy
<1> DEFINE j == Len(line) + strays + 1
<1>5. /\ j \in Nat /\ j + Len(prompt) + 1 <= Room /\ j + 1 = Len(line') + strays' + 1
  BY <1>1, <1>2, <1>3
<1>6. Shows(screen, j, prompt)
  BY <1>1 DEF IInv, PromptKept
<1> HIDE DEF j
<1>7. /\ Shows(screen', j + 1, prompt)
      /\ Position(screen') >= 1 /\ screen'.cell[Position(screen') - 1] = Mark
  BY <1>1, <1>2, <1>3, <1>5, <1>6, ShowsPut
<1>8. strays' # 0
  BY <1>1, <1>2, <1>3
<1>9. Shows(screen', 0, <<Mark>>)
  BY <1>4, <1>7, MarkShows
<1>10. Marks(screen', line', strays')
  BY <1>1, <1>4, <1>5, <1>7, <1>8, <1>9 DEF Marks
<1>11. TypeOK'
  <2>1. strays' \in 0..MAX_STRAYS
    BY <1>1, <1>2, <1>3
  <2> QED BY <1>1, <1>2, <1>4, <2>1 DEF IInv, TypeOK
<1> QED BY <1>1, <1>10, <1>11, PollKeeps

\* keyboard_get_input: the prompt is complete, and the mark is drawn behind it.
LEMMA InputStep ==
  ASSUME IInv, keyboard_get_input
  PROVE  IInv'
<1>1. /\ pc = "prompt" /\ pc' = "poll" /\ pending = <<>> /\ strays' = 0 /\ line' = <<>>
      /\ screen' = vga_putchar(screen, Mark) /\ pending' = pending /\ prompt' = prompt
  BY DEF keyboard_get_input
<1>2. /\ screen \in Screens(Glyphs) /\ Tidy(screen) /\ prompt \in Prompts /\ Mark \in Glyphs
  BY CellCharacters DEF IInv, TypeOK, BlankAhead, Tidy
<1>3. /\ Len(prompt) \in Nat /\ LINE_MAX \in Nat /\ MAX_STRAYS \in Nat /\ Room \in Nat
      /\ Len(prompt) + LINE_MAX + MAX_STRAYS + 1 <= Room /\ prompt \in Seq(Glyphs)
  BY <1>2, LineFits, ScreenEnd
<1>4. Tidy(screen') /\ screen' \in Screens(Glyphs)
  <2>1. Tidy(screen')
    BY <1>1, <1>2, TidyPrint
  <2> QED BY <2>1 DEF Tidy
<1>5. Shows(screen, 0, prompt)
  <2>1. Len(pending) = 0
    BY <1>1
  <2>2. Len(prompt) - Len(pending) = Len(prompt)
    BY <1>3, <2>1
  <2>3. SubSeq(prompt, 1, Len(prompt)) = prompt
    BY <1>3
  <2>4. Shows(screen, 0, SubSeq(prompt, 1, Len(prompt) - Len(pending)))
    BY <1>1 DEF IInv, PromptPrinted
  <2> QED BY <2>2, <2>3, <2>4
<1>6. /\ Shows(screen', 0 + 1, prompt)
      /\ Position(screen') >= 1 /\ screen'.cell[Position(screen') - 1] = Mark
  <2>1. 0 + Len(prompt) + 1 <= Room
    BY <1>3
  <2> QED BY <1>1, <1>2, <1>3, <1>5, <2>1, ShowsPut
<1>7. Len(line') + strays' + 1 = 0 + 1 /\ Len(line') = 0
  BY <1>1
<1>8. Shows(screen', 0, <<Mark>>)
  BY <1>4, <1>6, MarkShows
<1>9. Shows(screen', 1, line')
  <2>1. Position(screen') >= 1 + 0
    BY <1>6
  <2> QED BY <1>7, <2>1 DEF Shows
<1>10. Marks(screen', line', strays')
  BY <1>1, <1>4, <1>6, <1>7, <1>8, <1>9 DEF Marks
<1>11. TypeOK'
  <2>1. strays' \in 0..MAX_STRAYS /\ line' \in Seq(Chars) /\ Len(line') <= LINE_MAX
    BY <1>1, <1>3
  <2> QED BY <1>1, <1>2, <1>4, <2>1 DEF IInv, TypeOK
<1> QED BY <1>1, <1>10, <1>11, PollKeeps

\* print_prompt: all of the prompt is still to be printed.
LEMMA PromptStep ==
  ASSUME IInv, print_prompt
  PROVE  IInv'
<1>1. /\ prompt' \in Prompts /\ pending' = prompt' /\ pc' = "prompt"
      /\ screen' = screen /\ line' = line /\ strays' = strays
  BY DEF print_prompt
<1>2. prompt' \in Seq(Glyphs) /\ pending' \in Texts /\ Len(prompt') \in Nat
  BY <1>1, LineFits, TextTypes
<1>3. TypeOK' /\ BlankAhead'
  BY <1>1, <1>2 DEF IInv, TypeOK, BlankAhead
<1>4. PromptPrinted'
  <2>1. Len(prompt') - Len(pending') = 0
    BY <1>1, <1>2
  <2>2. pending' = SubSeq(prompt', 0 + 1, Len(prompt'))
    BY <1>1, <1>2
  <2>3. Len(SubSeq(prompt', 1, 0)) = 0
    OBVIOUS
  <2>4. Shows(screen', 0, SubSeq(prompt', 1, 0))
    <3>1. screen' \in Screens(Glyphs)
      BY <1>3 DEF TypeOK
    <3>2. Position(screen') \in Nat
      BY <3>1, CursorOnCell
    <3>3. Position(screen') >= 0 + 0
      BY <3>2
    <3> QED BY <2>3, <3>3 DEF Shows
  <2> DEFINE n == Len(prompt') - Len(pending')
  <2>5. n = 0
    BY <2>1
  <2> HIDE DEF n
  <2>6. /\ n >= 0 /\ pending' = SubSeq(prompt', n + 1, Len(prompt'))
        /\ Shows(screen', 0, SubSeq(prompt', 1, n))
    BY <2>2, <2>4, <2>5
  <2> QED BY <2>6 DEF PromptPrinted, n
<1> QED BY <1>1, <1>3, <1>4 DEF IInv, PromptKept, EchoShowsLine

\* The first character of the rest of a prompt, and what is left behind it.
LEMMA RestOf ==
  ASSUME NEW p \in Seq(Glyphs), NEW n \in Nat, n <= Len(p),
         NEW rest, rest = SubSeq(p, n + 1, Len(p)), rest # <<>>
  PROVE  /\ n + 1 <= Len(p) /\ Head(rest) = p[n + 1]
         /\ Tail(rest) = SubSeq(p, n + 2, Len(p)) /\ Len(Tail(rest)) = Len(p) - (n + 1)
<1> DEFINE l == Len(p)
<1>1. l \in Nat /\ l = Len(p)
  OBVIOUS
<1> HIDE DEF l
<1>2. n + 1 <= l
  BY <1>1
<1>3. Len(rest) = l - n /\ rest[1] = p[n + 1] /\ rest \in Seq(Glyphs)
  BY <1>1, <1>2
<1>4. Tail(rest) = SubSeq(p, n + 2, l)
  BY <1>1, <1>2
<1> QED BY <1>1, <1>2, <1>3, <1>4

\* PrintCharacter: the next character of the prompt stands behind those before it.
LEMMA PrintStep ==
  ASSUME IInv, PrintCharacter
  PROVE  IInv'
<1> DEFINE c == Head(pending)
<1>1. /\ pc \in {"output", "prompt"} /\ pending # <<>> /\ screen' = vga_print(screen, c)
      /\ pending' = Tail(pending) /\ line' = line /\ prompt' = prompt
      /\ strays' = strays /\ pc' = pc
  BY DEF PrintCharacter
<1>2. /\ screen \in Screens(Glyphs) /\ Tidy(screen) /\ prompt \in Prompts
      /\ pending \in Seq(Glyphs \cup {NL, TAB})
  BY DEF IInv, TypeOK, BlankAhead, Tidy, Texts
<1>3. c \in Glyphs \cup {NL, TAB} /\ pending' \in Seq(Glyphs \cup {NL, TAB})
  BY <1>1, <1>2
<1> HIDE DEF c
<1>4. c # BS
  BY <1>3, CellCharacters DEF NL, TAB, BS
<1>5. screen' = vga_putchar(screen, c)
  BY <1>1, <1>4 DEF vga_print
<1>6. Tidy(screen') /\ screen' \in Screens(Glyphs)
  <2>1. Tidy(screen')
    BY <1>2, <1>3, <1>5, TidyPrint
  <2> QED BY <2>1 DEF Tidy
<1>7. TypeOK'
  BY <1>1, <1>2, <1>3, <1>6 DEF IInv, TypeOK, Texts
<1>8. CASE pc = "output"
  BY <1>1, <1>6, <1>7, <1>8, OutputKeeps
<1>9. CASE pc = "prompt"
  <2> DEFINE n == Len(prompt) - Len(pending)
  <2>1. /\ n >= 0 /\ pending = SubSeq(prompt, n + 1, Len(prompt))
        /\ Shows(screen, 0, SubSeq(prompt, 1, n))
    BY <1>9 DEF IInv, PromptPrinted
  <2>2. /\ prompt \in Seq(Glyphs) /\ Len(prompt) \in Nat /\ Len(prompt) + 1 <= Room
        /\ Room \in Nat /\ n \in Nat /\ n <= Len(prompt)
    <3>1. /\ prompt \in Seq(Glyphs) /\ Len(prompt) \in Nat /\ Room \in Nat
          /\ LINE_MAX \in Nat /\ MAX_STRAYS \in Nat
          /\ Len(prompt) + LINE_MAX + MAX_STRAYS + 1 <= Room
      BY <1>2, LineFits, ScreenEnd
    <3>2. Len(pending) \in Nat
      BY <1>2
    <3> QED BY <2>1, <3>1, <3>2
  <2> HIDE DEF n
  <2>3. /\ n + 1 <= Len(prompt) /\ c = prompt[n + 1]
        /\ pending' = SubSeq(prompt, n + 2, Len(prompt))
        /\ Len(pending') = Len(prompt) - (n + 1)
    BY <1>1, <2>1, <2>2, RestOf DEF c
  <2> DEFINE m == n + 1
             shown == SubSeq(prompt, 1, n)
             more == SubSeq(prompt, 1, m)
  <2>4. m \in Nat /\ m = n + 1 /\ m <= Len(prompt) /\ m + 1 = n + 2 /\ prompt[m] \in Glyphs
    BY <2>2, <2>3
  <2> HIDE DEF m
  <2>5. /\ Len(shown) = n /\ Len(more) = m
        /\ \A k \in 1..n : shown[k] = prompt[k]
        /\ \A k \in 1..m : more[k] = prompt[k]
    BY <2>2, <2>4
  <2>6. Shows(screen, 0, shown)
    BY <2>1
  <2> HIDE DEF shown, more
  <2>7. /\ Len(shown) \in Nat /\ Len(more) = Len(shown) + 1 /\ Len(more) <= Room
        /\ \A k \in 1..Len(shown) : more[k] = shown[k]
        /\ more[Len(shown) + 1] = c /\ c \in Glyphs
    <3>1. Len(shown) \in Nat /\ Len(more) = Len(shown) + 1 /\ Len(more) <= Room
      BY <2>2, <2>4, <2>5
    <3>2. \A k \in 1..Len(shown) : more[k] = shown[k]
      BY <2>2, <2>4, <2>5
    <3>3. more[Len(shown) + 1] = c /\ c \in Glyphs
      <4>1. Len(shown) + 1 = m /\ m \in 1..m /\ c = prompt[m]
        BY <2>2, <2>3, <2>4, <2>5
      <4> QED BY <2>4, <2>5, <4>1
    <3> QED BY <3>1, <3>2, <3>3
  <2>8. Shows(screen', 0, more)
    BY <1>2, <1>5, <2>6, <2>7, ShowsAppend
  <2>9. PromptPrinted'
    <3>1. Len(prompt') - Len(pending') = m
      <4>1. Len(prompt') = Len(prompt) /\ Len(pending') = Len(prompt) - m
        BY <1>1, <2>3, <2>4
      <4> QED BY <2>2, <2>4, <4>1
    <3>2. pending' = SubSeq(prompt', m + 1, Len(prompt')) /\ m >= 0
      BY <1>1, <2>3, <2>4
    <3>3. Shows(screen', 0, SubSeq(prompt', 1, m))
      BY <1>1, <2>8 DEF more
    <3> DEFINE l == Len(prompt') - Len(pending')
    <3>4. l = m
      BY <3>1
    <3> HIDE DEF l
    <3>5. /\ l >= 0 /\ pending' = SubSeq(prompt', l + 1, Len(prompt'))
          /\ Shows(screen', 0, SubSeq(prompt', 1, l))
      BY <3>2, <3>3, <3>4
    <3> QED BY <3>5 DEF PromptPrinted, l
  <2>10. BlankAhead'
    BY <1>6 DEF Tidy, BlankAhead
  <2> QED BY <1>1, <1>7, <1>9, <2>9, <2>10 DEF IInv, PromptKept, EchoShowsLine
<1> QED BY <1>1, <1>8, <1>9

\* EnterKey: the mark goes, and the cursor to the next line.
LEMMA EnterStep ==
  ASSUME IInv, EnterKey
  PROVE  IInv'
<1> DEFINE s == Unmarked
<1>1. /\ s = Unmarked /\ pc = "poll" /\ pc' = "command" /\ screen' = vga_print(s, NL)
      /\ pending' = pending /\ line' = line /\ prompt' = prompt /\ strays' = strays
  BY DEF EnterKey
<1> HIDE DEF s
<1>2. Tidy(s)
  BY <1>1, UnmarkHolds DEF Holds
<1>3. screen' = vga_putchar(s, NL)
  BY <1>1 DEF vga_print, NL, BS
<1>4. Tidy(screen')
  BY <1>2, <1>3, TidyPrint
<1>5. TypeOK'
  BY <1>1, <1>4 DEF IInv, TypeOK, Tidy
<1> QED BY <1>1, <1>4, <1>5, OutputKeeps

\* process_command and clear: something is to be printed.
LEMMA CommandStep ==
  ASSUME IInv, process_command \/ clear
  PROVE  IInv'
<1>1. /\ pc' = "output" /\ line' = line /\ prompt' = prompt /\ strays' = strays
      /\ screen' \in {screen, vga_clear}
      /\ pending' \in Outputs \cup {line \o <<NL>>, <<>>}
  BY DEF process_command, clear
<1>2. line \in Seq(Chars) /\ Tidy(screen)
  BY DEF IInv, TypeOK, BlankAhead, Tidy
<1>3. pending' \in Texts
  BY <1>1, <1>2, TextTypes
<1>4. Tidy(screen')
  BY <1>1, <1>2, TidyClear
<1>5. TypeOK'
  BY <1>1, <1>3, <1>4 DEF IInv, TypeOK, Tidy
<1> QED BY <1>1, <1>4, <1>5, OutputKeeps

\* The screen that kernel_main starts with.
LEMMA InitInv == Init => IInv
<1> SUFFICES ASSUME Init PROVE IInv
  OBVIOUS
<1>1. /\ screen = vga_clear /\ pending \in Texts /\ line = <<>> /\ prompt \in Prompts
      /\ strays = 0 /\ pc = "output"
  BY TextTypes DEF Init
<1>2. Tidy(screen)
  BY <1>1, TidyClear
<1>3. TypeOK
  <2>1. line \in Seq(Chars) /\ Len(line) <= LINE_MAX /\ strays \in 0..MAX_STRAYS
    BY <1>1, LineFits
  <2> QED BY <1>1, <1>2, <2>1 DEF TypeOK, Tidy
<1> QED BY <1>1, <1>2, <1>3
        DEF IInv, Tidy, BlankAhead, PromptPrinted, PromptKept, EchoShowsLine

\* A step that changes nothing.
LEMMA StutterStep == IInv /\ UNCHANGED vars => IInv'
BY DEF vars, IInv, TypeOK, BlankAhead, PromptPrinted, PromptKept, EchoShowsLine

-------------------------------------------------------------------------------
\* The invariant holds throughout: whatever is typed, erased and printed, line
\* after line.
THEOREM InductiveInvariant == Spec => []IInv
<1>1. IInv /\ [Next]_vars => IInv'
  BY PrintStep, PromptStep, InputStep, TypeStep, BackspaceStep, TabStep, OtherStep,
     ModifierStep, EnterStep, CommandStep, StutterStep DEF Next
<1> QED BY <1>1, InitInv, PTL DEF Spec

\* The cursor stays on the screen and only glyphs get into its cells, for screens,
\* tab stops and texts of any size.
THEOREM TypeCorrect == Spec => []TypeOK
<1>1. IInv => TypeOK
  BY DEF IInv
<1> QED BY <1>1, InductiveInvariant, PTL

\* While no modifier key left a mark, the screen shows the line that the command
\* will get.
THEOREM EchoIsLine == Spec => []EchoShowsLine
<1>1. IInv => EchoShowsLine
  BY DEF IInv
<1> QED BY <1>1, InductiveInvariant, PTL

\* No sequence of keys takes a cell of the prompt.
THEOREM PromptStays == Spec => []PromptKept
<1>1. IInv => PromptKept
  BY DEF IInv
<1> QED BY <1>1, InductiveInvariant, PTL

\* Nothing is left behind the cursor by scrolling or erasing.
THEOREM NothingAhead == Spec => []BlankAhead
<1>1. IInv => BlankAhead
  BY DEF IInv
<1> QED BY <1>1, InductiveInvariant, PTL

================================================================================
