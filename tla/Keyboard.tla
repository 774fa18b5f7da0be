------------------------------- MODULE Keyboard -------------------------------
(***************************************************************************)
(* The line input of SimpleOS: keyboard_get_input (drivers/keyboard.c)     *)
(* polls the data port, without looking at the controller's status, and    *)
(* edits a line until Enter.  A step of the module is one iteration of the *)
(* polling loop, one read of keyboard_clear_buffer, or the shell's next    *)
(* call.                                                                   *)
(*                                                                         *)
(* A scancode is a record [key, up].  A port with nothing new reads as the *)
(* last byte again or as 0, whichever the controller does: the code has a  *)
(* branch for each.  The line is its length and the last edit made to it.  *)
(* Left out: key_hold_time, since both repeat rates that it chooses        *)
(* between are the same number (keyboard.h:41-42), the flags of Ctrl and   *)
(* Alt, which nothing reads, and keys with a two-byte scancode.  The echo  *)
(* is module Console.                                                      *)
(***************************************************************************)
EXTENDS Integers, FiniteSets

CONSTANTS
  Letters, Symbols,   \* keys that caps lock affects, and that it does not
  Shifts, Silent,     \* the Shift keys; Ctrl and Alt
  Unknown,            \* keys without a character
  LINE_MAX,         \* 255: a character is stored while buffer_pos is below
  TAB_LIMIT,        \* 252: a space of a tab is stored while buffer_pos is below
  ENTER_COOLDOWN,   \* ENTER_COOLDOWN_CYCLES
  INITIAL_DELAY,    \* KEY_REPEAT_INITIAL_DELAY
  REPEAT_RATE,      \* KEY_REPEAT_RATE and KEY_REPEAT_FAST_RATE
  MAX_DOWN          \* bound on the keys held down together

ASSUME KeyboardAssumption ==
  /\ {LINE_MAX, TAB_LIMIT, ENTER_COOLDOWN, INITIAL_DELAY, REPEAT_RATE} \subseteq Nat
  /\ TAB_LIMIT <= LINE_MAX /\ ENTER_COOLDOWN >= 2

NoKey  == "none"
Keys   == Letters \cup Symbols \cup Shifts \cup Silent \cup Unknown
            \cup {"enter", "backspace", "tab", "capslock"}
NoByte == [key |-> NoKey, up |-> FALSE]
Bytes  == [key : Keys, up : BOOLEAN] \cup {NoByte}

\* A key is of one kind only.
ASSUME KeysAssumption ==
  /\ NoKey \notin Keys
  /\ (Letters \cup Symbols \cup Unknown)
       \cap (Shifts \cup Silent \cup {"enter", "backspace", "tab", "capslock"}) = {}
  /\ (Shifts \cup Silent) \cap {"enter", "backspace", "tab", "capslock"} = {}
  /\ Unknown \cap (Letters \cup Symbols) = {}

\* A character is a key and whether it is shifted.
NoChar == <<NoKey, FALSE>>
BackspaceChar == <<"backspace", FALSE>>
Chars  == {NoChar, BackspaceChar} \cup ((Letters \cup Symbols) \X BOOLEAN)

VARIABLES
  down,          \* keys that are down, as far as bytes were delivered
  typematic,     \* the key the keyboard repeats: the last one pressed
  port,          \* the byte in the data port
  last_scancode, enter_cooldown, buffer_pos, held_key, repeat_delay, held_key_char,
  shift_pressed, caps_lock_on,
  pc,            \* "shell", "poll", or "clear" inside keyboard_clear_buffer
  reads,         \* reads that keyboard_clear_buffer still makes
  edit,          \* what the last iteration did to the line
  toggled        \* history: the Caps Lock key that is down has toggled

device == <<down, typematic, port>>
repeat == <<held_key, repeat_delay, held_key_char>>
vars   == <<device, repeat, last_scancode, enter_cooldown, buffer_pos,
            shift_pressed, caps_lock_on, pc, reads, edit, toggled>>

Edits == [op : {"none", "type", "erase", "tab", "submit"}, char : Chars]

TypeOK ==
  /\ down \subseteq Keys /\ typematic \in Keys \cup {NoKey} /\ port \in Bytes
  /\ last_scancode \in Keys \cup {NoKey} /\ held_key \in Keys \cup {NoKey}
  /\ enter_cooldown \in 0..ENTER_COOLDOWN
  /\ buffer_pos \in 0..LINE_MAX           \* input_buffer[256] has room for the NUL
  /\ repeat_delay \in 0..(IF INITIAL_DELAY > REPEAT_RATE THEN INITIAL_DELAY ELSE REPEAT_RATE)
  /\ held_key_char \in Chars
  /\ shift_pressed \in BOOLEAN /\ caps_lock_on \in BOOLEAN
  /\ pc \in {"shell", "poll", "clear"} /\ reads \in 0..3
  /\ edit \in Edits /\ toggled \in BOOLEAN

Edit(op, char) == edit' = [op |-> op, char |-> char]
NoEdit == Edit("none", NoChar) /\ buffer_pos' = buffer_pos

\* keyboard_init has run, the port was drained and the shell is about to read.
Init ==
  /\ down = {} /\ typematic = NoKey /\ port = NoByte
  /\ last_scancode = NoKey /\ enter_cooldown = 0 /\ buffer_pos = 0
  /\ held_key = NoKey /\ repeat_delay = 0 /\ held_key_char = NoChar
  /\ shift_pressed = FALSE /\ caps_lock_on = FALSE
  /\ pc = "shell" /\ reads = 0
  /\ edit = [op |-> "none", char |-> NoChar] /\ toggled = FALSE

-------------------------------------------------------------------------------
(* The controller and the keyboard (external): inb(KEYBOARD_DATA_PORT).    *)

KeyDown(k) ==
  /\ k \notin down /\ Cardinality(down) < MAX_DOWN
  /\ down' = down \cup {k} /\ typematic' = k
  /\ port' = [key |-> k, up |-> FALSE]

KeyUp(k) ==
  /\ k \in down
  /\ down' = down \ {k} /\ typematic' = IF k = typematic THEN NoKey ELSE typematic
  /\ port' = [key |-> k, up |-> TRUE]

AutoRepeat ==
  /\ typematic # NoKey
  /\ port' = [key |-> typematic, up |-> FALSE]
  /\ UNCHANGED <<down, typematic>>

NoNewByte == port' \in {port, NoByte} /\ UNCHANGED <<down, typematic>>

\* A read of the port: the next byte, if there is one.
inb ==
  \/ \E k \in Keys : KeyDown(k) \/ KeyUp(k)
  \/ AutoRepeat
  \/ NoNewByte

-------------------------------------------------------------------------------
(* One iteration of the loop, after scancode = port' was read.             *)

scancode_to_ascii(k) ==
  CASE k \in Letters -> <<k, caps_lock_on # shift_pressed>>
    [] k \in Symbols -> <<k, shift_pressed>>
    [] OTHER         -> NoChar

\* Mutant: a key's release does not make its scancode new again.
Released_keeps_last ==
  /\ port'.up
  /\ shift_pressed' = (shift_pressed /\ port'.key \notin Shifts)
  /\ IF port'.key = held_key
       THEN held_key' = NoKey /\ repeat_delay' = 0 /\ held_key_char' = NoChar
       ELSE UNCHANGED repeat
  /\ NoEdit
  /\ UNCHANGED <<last_scancode, caps_lock_on>>

\* Mutant: a release never ends the repetition.
Released_keeps_held ==
  /\ port'.up
  /\ shift_pressed' = (shift_pressed /\ port'.key \notin Shifts)
  /\ last_scancode' = NoKey
  /\ NoEdit
  /\ UNCHANGED <<repeat, caps_lock_on>>

\* A byte of a released key.
Released ==
  /\ port'.up
  /\ shift_pressed' = (shift_pressed /\ port'.key \notin Shifts)
  /\ IF port'.key = held_key
       THEN held_key' = NoKey /\ repeat_delay' = 0 /\ held_key_char' = NoChar
       ELSE UNCHANGED repeat
  /\ last_scancode' = NoKey
  /\ NoEdit
  /\ UNCHANGED <<caps_lock_on>>

\* The held key repeats: as a backspace, as its character, or not at all.
RepeatKey ==
  /\ repeat_delay' = REPEAT_RATE
  /\ \/ /\ held_key = "backspace" /\ buffer_pos > 0
        /\ buffer_pos' = buffer_pos - 1
        /\ Edit("erase", NoChar)
     \/ /\ held_key # "backspace" /\ held_key_char # BackspaceChar
        /\ buffer_pos < LINE_MAX
        /\ buffer_pos' = buffer_pos + 1
        /\ Edit("type", held_key_char)
     \/ /\ IF held_key = "backspace" THEN buffer_pos = 0
           ELSE held_key_char = BackspaceChar \/ buffer_pos = LINE_MAX
        /\ NoEdit

\* The held key's byte again: count down, then repeat it.
Held ==
  /\ port' = [key |-> held_key, up |-> FALSE]
  /\ held_key # NoKey
  /\ \/ /\ repeat_delay > 0
        /\ repeat_delay' = repeat_delay - 1
        /\ NoEdit
     \/ repeat_delay = 0 /\ held_key_char = NoChar /\ repeat_delay' = 0 /\ NoEdit
     \/ repeat_delay = 0 /\ held_key_char # NoChar /\ RepeatKey
  /\ UNCHANGED <<held_key, held_key_char, last_scancode, shift_pressed, caps_lock_on>>

\* A 0 while a key is held: the same, but only for a key that repeats.
HeldNoByte ==
  /\ port' = NoByte
  /\ held_key # NoKey /\ held_key_char # NoChar
  /\ \/ /\ repeat_delay > 0
        /\ repeat_delay' = repeat_delay - 1
        /\ NoEdit
     \/ repeat_delay = 0 /\ RepeatKey
  /\ UNCHANGED <<held_key, held_key_char, last_scancode, shift_pressed, caps_lock_on>>

\* A 0 with nothing to repeat, or the byte that was handled last.
NothingNew ==
  /\ \/ port' = NoByte /\ (held_key = NoKey \/ held_key_char = NoChar)
     \/ ~port'.up /\ port'.key # NoKey /\ port'.key = last_scancode /\ port'.key # held_key
  /\ NoEdit
  /\ UNCHANGED <<repeat, last_scancode, shift_pressed, caps_lock_on>>

NewKey ==
  /\ ~port'.up
  /\ port'.key \notin {NoKey, held_key, last_scancode}
  /\ last_scancode' = port'.key

\* Shift, Ctrl, Alt and Caps Lock are not held.
NewModifier ==
  /\ NewKey
  /\ port'.key \in Shifts \cup Silent \cup {"capslock"}
  /\ shift_pressed' = (shift_pressed \/ port'.key \in Shifts)
  /\ caps_lock_on' = IF port'.key = "capslock" THEN ~caps_lock_on ELSE caps_lock_on
  /\ NoEdit
  /\ UNCHANGED repeat

Hold == held_key' = port'.key /\ repeat_delay' = INITIAL_DELAY

NewBackspace ==
  /\ NewKey /\ port'.key = "backspace" /\ Hold
  /\ held_key_char' = BackspaceChar
  /\ IF buffer_pos > 0 THEN buffer_pos' = buffer_pos - 1 /\ Edit("erase", NoChar)
                       ELSE NoEdit
  /\ UNCHANGED <<shift_pressed, caps_lock_on>>

\* Up to four spaces.
NewTab ==
  /\ NewKey /\ port'.key = "tab" /\ Hold
  /\ held_key_char' = NoChar
  /\ buffer_pos' = IF buffer_pos >= TAB_LIMIT THEN buffer_pos
                   ELSE IF buffer_pos + 4 <= TAB_LIMIT THEN buffer_pos + 4 ELSE TAB_LIMIT
  /\ Edit("tab", NoChar)
  /\ UNCHANGED <<shift_pressed, caps_lock_on>>

\* Mutant: the limit is off by one.
Room_off_by_one == buffer_pos <= LINE_MAX

Room == buffer_pos < LINE_MAX

NewCharacter ==
  /\ NewKey /\ port'.key \in Letters \cup Symbols \cup Unknown /\ Hold
  /\ LET key == scancode_to_ascii(port'.key)
     IN \/ /\ key # NoChar /\ Room
           /\ buffer_pos' = buffer_pos + 1
           /\ held_key_char' = key
           /\ Edit("type", key)
        \/ /\ key = NoChar \/ ~Room
           /\ held_key_char' = NoChar
           /\ NoEdit
  /\ UNCHANGED <<shift_pressed, caps_lock_on>>

\* Mutant: an ignored Enter starts the cooldown again.
CooledDown_restarted ==
  IF port' = [key |-> "enter", up |-> FALSE] /\ enter_cooldown > 0
    THEN ENTER_COOLDOWN
    ELSE IF enter_cooldown > 0 THEN enter_cooldown - 1 ELSE 0

\* enter_cooldown once this iteration has counted it down.
CooledDown == IF enter_cooldown > 0 THEN enter_cooldown - 1 ELSE 0

EnterIgnored ==
  /\ NewKey /\ port'.key = "enter" /\ Hold
  /\ CooledDown > 0
  /\ NoEdit
  /\ UNCHANGED <<held_key_char, shift_pressed, caps_lock_on>>

CapsStillDown == "capslock" \in down'

\* One iteration that does not end the line.
Poll ==
  /\ pc = "poll"
  /\ inb
  /\ \/ Released \/ Held \/ HeldNoByte \/ NothingNew \/ NewModifier
     \/ NewBackspace \/ NewTab \/ NewCharacter \/ EnterIgnored
  /\ enter_cooldown' = CooledDown
  /\ toggled' = ((toggled \/ caps_lock_on' # caps_lock_on) /\ CapsStillDown)
  /\ UNCHANGED <<pc, reads>>

\* Mutant: Enter submits whether or not its cooldown is over.
CooldownOver_always == TRUE

CooldownOver == CooledDown = 0

\* Enter, cooldown over: the line is complete; keyboard_clear_buffer comes next.
Enter ==
  /\ pc = "poll"
  /\ inb
  /\ NewKey /\ port'.key = "enter" /\ Hold
  /\ CooldownOver
  /\ Edit("submit", NoChar)
  /\ pc' = "clear" /\ reads' = 3
  /\ enter_cooldown' = CooledDown
  /\ toggled' = (toggled /\ CapsStillDown)
  /\ UNCHANGED <<held_key_char, buffer_pos, shift_pressed, caps_lock_on>>

\* One read of keyboard_clear_buffer: whatever was read is lost.  After the last
\* one, keyboard_get_input returns.
keyboard_clear_buffer ==
  /\ pc = "clear"
  /\ inb
  /\ reads' = reads - 1
  /\ toggled' = (toggled /\ CapsStillDown)
  /\ IF reads = 1
       THEN /\ pc' = "shell"
            /\ enter_cooldown' = ENTER_COOLDOWN
            /\ last_scancode' = NoKey /\ held_key' = NoKey
       ELSE UNCHANGED <<pc, enter_cooldown, last_scancode, held_key>>
  /\ UNCHANGED <<repeat_delay, held_key_char, buffer_pos, shift_pressed, caps_lock_on,
                 edit>>

\* The shell has handled the line, printed its prompt and calls again.
keyboard_get_input ==
  /\ pc = "shell"
  /\ pc' = "poll" /\ buffer_pos' = 0
  /\ Edit("none", NoChar)
  /\ UNCHANGED <<device, repeat, last_scancode, enter_cooldown, shift_pressed,
                 caps_lock_on, reads, toggled>>

Next == Poll \/ Enter \/ keyboard_clear_buffer \/ keyboard_get_input

\* The loop never stops polling.
Spec == Init /\ [][Next]_vars /\ WF_vars(Next)

-------------------------------------------------------------------------------
(* What must hold.                                                         *)

Pressed(k) == k \in down' /\ k \notin down

\* The key that repeats is a key that is down: no repetition survives the release
\* of its key, whatever other keys, modifiers or lines come in between.
HeldKeyIsDown == (pc = "poll" /\ held_key # NoKey) => held_key \in down

\* Every press of a character key that the loop reads is typed, once and as that
\* key, unless the line is full: what the loop still remembers of earlier keys never
\* makes it miss one or take it for another.  Whether in the right case is another
\* question: the loop's Shift and Caps Lock flags may differ from the keyboard's.
PressIsTyped ==
  [][\A k \in Letters \cup Symbols :
       (pc = "poll" /\ Pressed(k) /\ buffer_pos < LINE_MAX) =>
          /\ edit'.op = "type" /\ edit'.char[1] = k
          /\ buffer_pos' = buffer_pos + 1]_vars

\* A line ends only on a byte that differs from the one read before it: an Enter
\* that is read again and again, because it is held or because nothing came after
\* it, ends no second line, although the loop forgot that it is down.
RepeatedEnterEndsNoLine == [][(pc = "poll" /\ pc' = "clear") => port' # port]_vars

\* Who presses Enter again and again ends line after line: the cooldown never
\* shuts Enter out for good.
EnterWorks ==
  []<><<pc = "poll" /\ Pressed("enter")>>_vars => []<>(pc = "clear")

-------------------------------------------------------------------------------
(* Why it holds: the inductive invariant (KeyboardProofs).                 *)

\* The keyboard sends make codes only of keys that are down.
DeviceInv ==
  /\ typematic # NoKey => typematic \in down
  /\ (~port.up /\ port.key # NoKey) => port.key \in down

\* The loop remembers only keys that are down, and nothing between two lines;
\* keyboard_clear_buffer has reads left.
MemoryInv ==
  /\ pc = "poll" => {held_key, last_scancode} \subseteq down \cup {NoKey}
  /\ pc = "shell" => held_key = NoKey /\ last_scancode = NoKey
  /\ pc = "clear" => reads >= 1

\* An Enter byte that was read is remembered, or its cooldown will outlast the
\* next iteration.
EnterInv ==
  (pc # "clear" /\ port = [key |-> "enter", up |-> FALSE]) =>
     "enter" \in {held_key, last_scancode} \/ enter_cooldown >= 2

IInv == TypeOK /\ DeviceInv /\ MemoryInv /\ EnterInv

-------------------------------------------------------------------------------
(* What the repository says and the code does not do (see README).         *)

\* "Enter is in cooldown, ignore" (keyboard.c:370): reading Enter types nothing.
EnterTypesNothing ==
  [][(pc = "poll" /\ port' = [key |-> "enter", up |-> FALSE]) => edit'.op # "type"]_vars

\* "Toggle caps lock on key press only" (keyboard.c:218): one press of Caps Lock
\* toggles it once.
CapsLockOncePerPress == [][caps_lock_on' # caps_lock_on => ~toggled]_vars
===============================================================================
