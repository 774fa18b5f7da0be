-------------------------------- MODULE Console --------------------------------
(***************************************************************************)
(* What the shell's user sees: the line that keyboard_get_input edits and  *)
(* its echo on the screen.  A step is one iteration of the polling loop    *)
(* that touches the screen, or of vga_print's loop while the prompt or a   *)
(* command's output is printed.  Which key comes next is decided by the    *)
(* keyboard (module Keyboard) and is left open here.  Between two lines,   *)
(* the command runs and prints what it likes.                              *)
(***************************************************************************)
EXTENDS Vga

CONSTANTS
  Glyphs,      \* characters that fill a cell: all but the control characters
  Chars,       \* those that can be typed, the blank and "_" among them
  Prompts,     \* the prompts of the shell and of keytest
  Outputs,     \* what a command may print
  LINE_MAX, TAB_LIMIT,     \* as in Keyboard
  MAX_STRAYS   \* bound on the modifier keys pressed in a line

\* What shows where the cursor is.
Mark == "_"

\* \b is printed by the echo only, and \r by nothing.
Texts == Seq(Glyphs \cup {NL, TAB})

ASSUME ConsoleAssumption ==
  /\ Chars \subseteq Glyphs /\ {Blank, Mark} \subseteq Chars
  /\ Glyphs \cap {NL, CR, TAB, BS} = {}
  /\ Prompts \subseteq Seq(Glyphs) /\ Outputs \subseteq Texts
  /\ LINE_MAX \in Nat /\ TAB_LIMIT \in 0..LINE_MAX /\ MAX_STRAYS \in Nat
  /\ \A p \in Prompts :                  \* a line fits on the screen
       Len(p) + LINE_MAX + MAX_STRAYS + 1 <= VGA_WIDTH * (VGA_HEIGHT - 1)

VARIABLES
  screen,
  pending,   \* what is still to be printed of a text
  line,      \* input_buffer[0 .. buffer_pos - 1]
  prompt,    \* history: the prompt before the line
  strays,    \* history: modifier keys pressed since then
  pc         \* "output", "prompt", "poll" or "command"

vars == <<screen, pending, line, prompt, strays, pc>>

TypeOK ==
  /\ screen \in Screens(Glyphs)
  /\ pending \in Texts
  /\ line \in Seq(Chars) /\ Len(line) <= LINE_MAX
  /\ prompt \in Prompts /\ strays \in 0..MAX_STRAYS
  /\ pc \in {"output", "prompt", "poll", "command"}

\* kernel_main clears the screen and prints.
Init ==
  /\ screen = vga_clear /\ pending \in Outputs
  /\ line = <<>> /\ prompt \in Prompts /\ strays = 0
  /\ pc = "output"

-------------------------------------------------------------------------------
\* An iteration of vga_print's loop, for all that is not an echo.
PrintCharacter ==
  /\ pc \in {"output", "prompt"} /\ pending # <<>>
  /\ screen' = vga_print(screen, Head(pending)) /\ pending' = Tail(pending)
  /\ UNCHANGED <<line, prompt, strays, pc>>

\* print_prompt, or keytest's.
print_prompt ==
  /\ pc = "output" /\ pending = <<>>
  /\ prompt' \in Prompts /\ pending' = prompt'
  /\ pc' = "prompt"
  /\ UNCHANGED <<screen, line, strays>>

\* The start of keyboard_get_input: the cursor's mark behind the prompt.
keyboard_get_input ==
  /\ pc = "prompt" /\ pending = <<>>
  /\ screen' = vga_putchar(screen, Mark)
  /\ line' = <<>> /\ strays' = 0
  /\ pc' = "poll"
  /\ UNCHANGED <<pending, prompt>>

\* A key that does something to the line: the cursor's mark goes, the key is
\* echoed, and the mark is back.
Unmarked     == vga_print(screen, BS)
Marked(s)    == vga_putchar(s, Mark)
Edit(echoed) == screen' = Marked(echoed) /\ UNCHANGED <<pending, prompt, strays, pc>>

\* A character that was pressed or repeats, while there is room.
TypeCharacter(c) ==
  /\ pc = "poll" /\ Len(line) < LINE_MAX
  /\ line' = Append(line, c)
  /\ Edit(vga_putchar(Unmarked, c))

\* How a character is erased: vga_print("\b "), vga_print("\b").
Erased(s) == vga_print(vga_print(vga_print(s, BS), Blank), BS)

\* Mutant: the echo erases whether or not the line does.
BackspaceKey_always ==
  /\ pc = "poll"
  /\ line' = IF line = <<>> THEN line ELSE SubSeq(line, 1, Len(line) - 1)
  /\ Edit(Erased(Unmarked))

\* Backspace, pressed or repeating.
BackspaceKey ==
  /\ pc = "poll"
  /\ \/ line # <<>> /\ line' = SubSeq(line, 1, Len(line) - 1) /\ Edit(Erased(Unmarked))
     \/ line = <<>> /\ line' = line /\ Edit(Unmarked)

\* n blanks, up to four.
Spaces(s, n) ==
  LET put(t) == vga_putchar(t, Blank)
  IN CASE n = 0 -> s
       [] n = 1 -> put(s)
       [] n = 2 -> put(put(s))
       [] n = 3 -> put(put(put(s)))
       [] n = 4 -> put(put(put(put(s))))

\* Tab: blanks up to its own limit.
TabKey ==
  LET n == IF Len(line) >= TAB_LIMIT THEN 0
           ELSE IF Len(line) + 4 <= TAB_LIMIT THEN 4 ELSE TAB_LIMIT - Len(line)
  IN /\ pc = "poll"
     /\ line' = line \o [i \in 1..n |-> Blank]
     /\ Edit(Spaces(Unmarked, n))

\* Unknown keys, a full line, Enter in its cooldown: only the cursor is redrawn.
OtherKey == pc = "poll" /\ Edit(Unmarked) /\ line' = line

\* Shift, Ctrl, Alt, Caps Lock: a mark is drawn and none was taken away.
ModifierKey ==
  /\ pc = "poll" /\ strays < MAX_STRAYS
  /\ screen' = Marked(screen)
  /\ strays' = strays + 1
  /\ UNCHANGED <<pending, line, prompt, pc>>

EnterKey ==
  /\ pc = "poll"
  /\ screen' = vga_print(Unmarked, NL)
  /\ pc' = "command"
  /\ UNCHANGED <<pending, line, prompt, strays>>

\* A command prints, keytest what was typed; the shell ignores an empty line.
process_command ==
  /\ pc = "command"
  /\ \/ pending' \in Outputs
     \/ pending' = line \o <<NL>>
     \/ line = <<>> /\ pending' = <<>>
  /\ pc' = "output"
  /\ UNCHANGED <<screen, line, prompt, strays>>

\* The command clear.
clear ==
  /\ pc = "command" /\ line # <<>>
  /\ screen' = vga_clear /\ pending' \in Outputs
  /\ pc' = "output"
  /\ UNCHANGED <<line, prompt, strays>>

Next ==
  \/ PrintCharacter \/ print_prompt \/ keyboard_get_input
  \/ \E c \in Chars : TypeCharacter(c)
  \/ BackspaceKey \/ TabKey \/ OtherKey \/ ModifierKey \/ EnterKey
  \/ process_command \/ clear

Spec == Init /\ [][Next]_vars

-------------------------------------------------------------------------------
(* What must hold.                                                         *)

\* The text ends j cells before the cursor.
Shows(s, j, text) ==
  /\ Position(s) >= j + Len(text)
  /\ \A k \in 1..Len(text) : s.cell[Position(s) - (j + Len(text) + 1 - k)] = text[k]

\* As long as no modifier key was pressed, what stands before the cursor's mark is
\* the line as the command will get it: also when typing, tabs and backspaces
\* cross the end of a row or scroll the screen.
EchoShowsLine == (pc = "poll" /\ strays = 0) => Shows(screen, 1, line)

\* Whatever is typed and erased, and however many marks modifier keys leave, the
\* prompt stands where the line begins and the mark where the cursor is: no
\* backspace takes a cell the line does not own.
PromptKept ==
  pc = "poll" =>
    Shows(screen, Len(line) + strays + 1, prompt) /\ Shows(screen, 0, <<Mark>>)

\* Nothing is ever shown from the cursor on: scrolling and erasing leave nothing
\* behind.
BlankAhead == \A i \in Cells : i >= Position(screen) => screen.cell[i] = Blank

-------------------------------------------------------------------------------
(* Why it holds: the inductive invariant (ConsoleProofs).                  *)

\* What was printed of the prompt stands before the cursor, and the rest is still
\* to come.
PromptPrinted ==
  pc = "prompt" =>
    LET n == Len(prompt) - Len(pending)
    IN /\ n >= 0 /\ pending = SubSeq(prompt, n + 1, Len(prompt))
       /\ Shows(screen, 0, SubSeq(prompt, 1, n))

IInv == TypeOK /\ BlankAhead /\ PromptPrinted /\ PromptKept /\ EchoShowsLine
================================================================================
