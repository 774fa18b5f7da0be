---------------------------- MODULE KeyboardProofs ----------------------------
(***************************************************************************)
(* The safety properties of Keyboard, for any keys, any number of them     *)
(* held together, any line length and any delays.                          *)
(***************************************************************************)
EXTENDS Keyboard, TLAPS

Make(k) == [key |-> k, up |-> FALSE]
Break(k) == [key |-> k, up |-> TRUE]

\* What a read of the port can give: a press, a release, a key that is down, or
\* what was there before.
LEMMA Read ==
  ASSUME TypeOK, DeviceInv, inb
  PROVE  /\ down' \subseteq Keys /\ typematic' \in Keys \cup {NoKey} /\ port' \in Bytes
         /\ DeviceInv'
         /\ \/ \E k \in Keys : k \notin down /\ down' = down \cup {k} /\ port' = Make(k)
            \/ \E k \in Keys : down' = down \ {k} /\ port' = Break(k)
            \/ down' = down
<1> USE KeysAssumption DEF TypeOK, DeviceInv, Bytes, NoByte, Make, Break
<1>1. CASE \E k \in Keys : KeyDown(k)
  <2>1. PICK k \in Keys : KeyDown(k)
    BY <1>1
  <2> QED BY <2>1 DEF KeyDown
<1>2. CASE \E k \in Keys : KeyUp(k)
  <2>1. PICK k \in Keys : KeyUp(k)
    BY <1>2
  <2> QED BY <2>1 DEF KeyUp
<1>3. CASE AutoRepeat
  BY <1>3 DEF AutoRepeat
<1>4. CASE NoNewByte
  BY <1>4 DEF NoNewByte
<1> QED BY <1>1, <1>2, <1>3, <1>4 DEF inb

\* The state after keyboard_init satisfies the invariant.
LEMMA InitInv == Init => IInv
<1> SUFFICES ASSUME Init PROVE IInv
  OBVIOUS
<1> USE DEF Init
<1>1. NoChar \in Chars /\ NoByte \in Bytes
  BY DEF Chars, Bytes
<1>2. edit \in Edits
  BY <1>1 DEF Edits
<1>3. TypeOK
  <2>1. /\ enter_cooldown \in 0..ENTER_COOLDOWN /\ buffer_pos \in 0..LINE_MAX
        /\ repeat_delay \in 0..(IF INITIAL_DELAY > REPEAT_RATE
                                  THEN INITIAL_DELAY ELSE REPEAT_RATE)
    BY KeyboardAssumption
  <2>2. shift_pressed \in BOOLEAN /\ caps_lock_on \in BOOLEAN /\ toggled \in BOOLEAN
    OBVIOUS
  <2>3. held_key_char \in Chars /\ port \in Bytes
    BY <1>1
  <2> QED BY <2>1, <2>2, <2>3, <1>2 DEF TypeOK
<1>4. DeviceInv /\ MemoryInv
  BY DEF DeviceInv, MemoryInv, NoByte
<1>5. EnterInv
  <2>1. NoByte.key # "enter"
    BY KeysAssumption DEF NoByte, Keys
  <2> QED BY <2>1 DEF EnterInv
<1> QED BY <1>3, <1>4, <1>5 DEF IInv

\* The character of a key is one that can be typed or none.
LEMMA AsciiType ==
  ASSUME TypeOK, NEW k \in Keys
  PROVE  scancode_to_ascii(k) \in Chars
BY DEF scancode_to_ascii, Chars, TypeOK

\* An iteration that does not end the line preserves the invariant.
LEMMA PollStep == ASSUME IInv, Poll PROVE IInv'
<1> USE DEF IInv
<1>1. /\ pc = "poll" /\ pc' = "poll" /\ inb /\ enter_cooldown' = CooledDown
      /\ reads' = reads /\ toggled' \in BOOLEAN
  BY DEF Poll
<1>2. /\ down' \subseteq Keys /\ typematic' \in Keys \cup {NoKey} /\ port' \in Bytes
      /\ DeviceInv'
      /\ \/ \E k \in Keys : k \notin down /\ down' = down \cup {k} /\ port' = Make(k)
         \/ \E k \in Keys : down' = down \ {k} /\ port' = Break(k)
         \/ down' = down
  BY <1>1, Read
<1>3. enter_cooldown' \in 0..ENTER_COOLDOWN /\ toggled' \in BOOLEAN /\ reads' \in 0..3
  BY <1>1, KeyboardAssumption DEF CooledDown, TypeOK
<1>4. ~port'.up /\ port'.key # NoKey => down \subseteq down' /\ port'.key \in down'
  BY <1>2 DEF DeviceInv, Make, Break
<1>5. port' = NoByte => down' = down
  <2>1. \A k \in Keys : Make(k).key # NoByte.key /\ Break(k).key # NoByte.key
    BY KeysAssumption DEF NoByte, Make, Break
  <2> QED BY <1>2, <2>1
<1>6. port'.up => \E k \in Keys : port'.key = k /\ down \ {k} \subseteq down'
  BY <1>2 DEF Make, Break, Bytes, NoByte
<1> DEFINE Typed == /\ buffer_pos' \in 0..LINE_MAX
                    /\ repeat_delay' \in 0..(IF INITIAL_DELAY > REPEAT_RATE
                                                THEN INITIAL_DELAY ELSE REPEAT_RATE)
                    /\ held_key_char' \in Chars /\ edit' \in Edits
                    /\ last_scancode' \in Keys \cup {NoKey}
                    /\ held_key' \in Keys \cup {NoKey}
                    /\ shift_pressed' \in BOOLEAN /\ caps_lock_on' \in BOOLEAN
           Goal == Typed /\ MemoryInv' /\ EnterInv'
<1> SUFFICES Goal
  BY <1>1, <1>2, <1>3 DEF TypeOK
<1> USE KeyboardAssumption, KeysAssumption
<1>7. CASE Released
  <2>1. Typed
    BY <1>7 DEF Released, NoEdit, Edit, TypeOK, Edits, Chars, repeat
  <2>2. MemoryInv'
    BY <1>1, <1>6, <1>7 DEF Released, MemoryInv, repeat, TypeOK
  <2>3. EnterInv'
    BY <1>7 DEF Released, EnterInv
  <2> QED BY <2>1, <2>2, <2>3
<1>8. CASE Held \/ HeldNoByte
  <2>1. Typed
    BY <1>8 DEF Held, HeldNoByte, RepeatKey, NoEdit, Edit, TypeOK, Edits, Chars
  <2>2. UNCHANGED <<held_key, last_scancode>> /\ held_key # NoKey
    BY <1>8 DEF Held, HeldNoByte
  <2>3. port' = Make(held_key) \/ port' = NoByte
    BY <1>8 DEF Held, HeldNoByte, Make
  <2>4. down \subseteq down'
    BY <2>2, <2>3, <1>4, <1>5 DEF Make
  <2>5. MemoryInv'
    BY <1>1, <2>2, <2>4 DEF MemoryInv
  <2>6. EnterInv'
    BY <2>2, <2>3 DEF EnterInv, Make, NoByte, Keys
  <2> QED BY <2>1, <2>5, <2>6
<1>9. CASE NothingNew
  <2>1. Typed
    BY <1>9 DEF NothingNew, NoEdit, Edit, TypeOK, Edits, Chars, repeat
  <2>2. down \subseteq down'
    BY <1>9, <1>4, <1>5 DEF NothingNew
  <2>3. MemoryInv'
    BY <1>1, <1>9, <2>2 DEF MemoryInv, NothingNew, repeat
  <2>4. EnterInv'
    BY <1>9 DEF EnterInv, NothingNew, repeat, NoByte, Keys
  <2> QED BY <2>1, <2>3, <2>4
<1>10. ASSUME NewKey, UNCHANGED held_key \/ held_key' = port'.key
       PROVE  MemoryInv' /\ EnterInv' /\ last_scancode' \in Keys /\ port'.key \in Keys
  <2>1. ~port'.up /\ port'.key # NoKey /\ last_scancode' = port'.key
    BY <1>10 DEF NewKey
  <2>2. port'.key \in Keys
    BY <2>1, <1>2 DEF Bytes, NoByte
  <2>3. MemoryInv'
    BY <1>1, <1>4, <1>10, <2>1 DEF MemoryInv
  <2>4. EnterInv'
    BY <2>1 DEF EnterInv
  <2> QED BY <2>1, <2>2, <2>3, <2>4
<1>11. CASE NewModifier
  <2>1. NewKey /\ UNCHANGED held_key
    BY <1>11 DEF NewModifier, repeat
  <2>2. Typed
    BY <1>10, <1>11, <2>1 DEF NewModifier, NoEdit, Edit, TypeOK, Edits, Chars, repeat
  <2> QED BY <1>10, <2>1, <2>2
<1>12. CASE NewBackspace \/ NewTab \/ NewCharacter \/ EnterIgnored
  <2>1. NewKey /\ Hold
    BY <1>12 DEF NewBackspace, NewTab, NewCharacter, EnterIgnored
  <2>2. held_key' = port'.key /\ repeat_delay' = INITIAL_DELAY
    BY <2>1 DEF Hold
  <2>3. MemoryInv' /\ EnterInv' /\ last_scancode' \in Keys /\ held_key' \in Keys
    BY <2>1, <2>2, <1>10
  <2>4. UNCHANGED <<shift_pressed, caps_lock_on>>
    BY <1>12 DEF NewBackspace, NewTab, NewCharacter, EnterIgnored
  <2>5. buffer_pos' \in 0..LINE_MAX /\ held_key_char' \in Chars /\ edit' \in Edits
    <3>1. CASE NewBackspace
      BY <3>1 DEF NewBackspace, NoEdit, Edit, TypeOK, Edits, Chars
    <3>2. CASE NewTab
      BY <3>2 DEF NewTab, Edit, TypeOK, Edits, Chars
    <3>3. CASE NewCharacter
      <4>1. scancode_to_ascii(port'.key) \in Chars
        BY <2>2, <2>3, AsciiType
      <4> QED BY <3>3, <4>1 DEF NewCharacter, Room, NoEdit, Edit, TypeOK, Edits, Chars
    <3>4. CASE EnterIgnored
      BY <3>4 DEF EnterIgnored, NoEdit, Edit, TypeOK, Edits, Chars
    <3> QED BY <1>12, <3>1, <3>2, <3>3, <3>4
  <2> QED BY <2>2, <2>3, <2>4, <2>5 DEF TypeOK
<1> QED BY <1>7, <1>8, <1>9, <1>11, <1>12 DEF Poll

\* The iteration that ends the line preserves the invariant.
LEMMA EnterStep == ASSUME IInv, Enter PROVE IInv'
<1> USE DEF IInv
<1>1. /\ pc = "poll" /\ pc' = "clear" /\ inb /\ reads' = 3 /\ toggled' \in BOOLEAN
      /\ last_scancode' = port'.key /\ held_key' = port'.key /\ port'.key = "enter"
      /\ repeat_delay' = INITIAL_DELAY /\ enter_cooldown' = CooledDown
      /\ UNCHANGED <<held_key_char, buffer_pos, shift_pressed, caps_lock_on>>
  BY DEF Enter, NewKey, Hold
<1>2. /\ down' \subseteq Keys /\ typematic' \in Keys \cup {NoKey} /\ port' \in Bytes
      /\ DeviceInv'
  BY <1>1, Read
<1>3. "enter" \in Keys
  BY DEF Keys
<1>4. edit' \in Edits
  BY DEF Enter, Edit, Edits, Chars
<1>5. /\ enter_cooldown' \in 0..ENTER_COOLDOWN
      /\ repeat_delay' \in 0..(IF INITIAL_DELAY > REPEAT_RATE
                                 THEN INITIAL_DELAY ELSE REPEAT_RATE)
  BY <1>1, KeyboardAssumption DEF CooledDown, TypeOK
<1>6. TypeOK'
  BY <1>1, <1>2, <1>3, <1>4, <1>5 DEF TypeOK
<1>7. MemoryInv' /\ EnterInv'
  BY <1>1 DEF MemoryInv, EnterInv
<1> QED BY <1>2, <1>6, <1>7

\* A read of keyboard_clear_buffer preserves the invariant: the last one sets the
\* cooldown that EnterInv needs when the loop has forgotten the Enter key.
LEMMA ClearStep == ASSUME IInv, keyboard_clear_buffer PROVE IInv'
<1> USE DEF IInv
<1>1. /\ pc = "clear" /\ inb /\ reads' = reads - 1
      /\ toggled' \in BOOLEAN
      /\ UNCHANGED <<repeat_delay, held_key_char, buffer_pos, shift_pressed,
                     caps_lock_on, edit>>
  BY DEF keyboard_clear_buffer
<1>2. /\ down' \subseteq Keys /\ typematic' \in Keys \cup {NoKey} /\ port' \in Bytes
      /\ DeviceInv'
  BY <1>1, Read
<1>3. reads \in 1..3 /\ reads' \in 0..3 /\ (reads # 1 => reads' >= 1)
  BY <1>1 DEF MemoryInv, TypeOK
<1>4. toggled' \in BOOLEAN
  BY <1>1
<1>5. CASE reads = 1
  <2>1. /\ pc' = "shell" /\ enter_cooldown' = ENTER_COOLDOWN
        /\ last_scancode' = NoKey /\ held_key' = NoKey
    BY <1>5 DEF keyboard_clear_buffer
  <2>2. TypeOK'
    BY <1>1, <1>2, <1>3, <1>4, <2>1, KeyboardAssumption DEF TypeOK
  <2>3. MemoryInv' /\ EnterInv'
    BY <2>1, KeyboardAssumption DEF MemoryInv, EnterInv
  <2> QED BY <1>2, <2>2, <2>3
<1>6. CASE reads # 1
  <2>1. UNCHANGED <<pc, enter_cooldown, last_scancode, held_key>>
    BY <1>6 DEF keyboard_clear_buffer
  <2>2. TypeOK'
    BY <1>1, <1>2, <1>3, <1>4, <2>1 DEF TypeOK
  <2>3. MemoryInv' /\ EnterInv'
    BY <1>1, <1>3, <1>6, <2>1 DEF MemoryInv, EnterInv
  <2> QED BY <1>2, <2>2, <2>3
<1> QED BY <1>5, <1>6

\* The next call of the shell preserves the invariant.
LEMMA InputStep == ASSUME IInv, keyboard_get_input PROVE IInv'
<1> USE DEF IInv
<1>1. /\ pc = "shell" /\ pc' = "poll" /\ buffer_pos' = 0
      /\ UNCHANGED <<device, repeat, last_scancode, enter_cooldown, shift_pressed,
                     caps_lock_on, reads, toggled>>
  BY DEF keyboard_get_input
<1>2. edit' \in Edits /\ 0 \in 0..LINE_MAX
  BY KeyboardAssumption DEF keyboard_get_input, Edit, Edits, Chars
<1>3. TypeOK' /\ DeviceInv'
  BY <1>1, <1>2 DEF TypeOK, DeviceInv, device, repeat
<1>4. MemoryInv' /\ EnterInv'
  BY <1>1 DEF MemoryInv, EnterInv, device, repeat
<1> QED BY <1>3, <1>4

\* A stuttering step preserves the invariant.
LEMMA StutterStep == ASSUME IInv, UNCHANGED vars PROVE IInv'
BY DEF IInv, TypeOK, DeviceInv, MemoryInv, EnterInv, vars, device, repeat

\* The invariant is inductive, hence holds in every reachable state.
THEOREM InductiveInvariant == Spec => []IInv
<1>1. IInv /\ [Next]_vars => IInv'
  BY PollStep, EnterStep, ClearStep, InputStep, StutterStep DEF Next
<1> QED BY InitInv, <1>1, PTL DEF Spec

\* Every variable keeps its type: in particular the line never outgrows its
\* buffer, whatever the loop types, repeats, expands or erases.
THEOREM TypeCorrect == Spec => []TypeOK
<1>1. IInv => TypeOK
  BY DEF IInv
<1> QED BY <1>1, InductiveInvariant, PTL

\* The key that the loop repeats is a key that is down.
THEOREM HeldKeyDown == Spec => []HeldKeyIsDown
<1>1. IInv => HeldKeyIsDown
  BY DEF IInv, MemoryInv, HeldKeyIsDown
<1> QED BY <1>1, InductiveInvariant, PTL

\* Only a key that was up is pressed, and its byte is a new one: MemoryInv says
\* that the loop remembers no key that is up.
LEMMA PressIsNew ==
  ASSUME IInv, pc = "poll", inb, NEW k \in Keys, Pressed(k)
  PROVE  port' = Make(k) /\ k \notin {NoKey, held_key, last_scancode}
<1>1. down' # down /\ k \in down' /\ k \notin down
  BY DEF Pressed
<1>2. PICK j \in Keys : j \notin down /\ down' = down \cup {j} /\ port' = Make(j)
  BY <1>1, Read DEF IInv
<1>3. j = k
  BY <1>1, <1>2
<1> QED BY <1>1, <1>2, <1>3, KeysAssumption DEF IInv, MemoryInv

\* Every press of a character key that the loop reads is typed, once and as that
\* key, as long as the line has room.
THEOREM PressTyped == Spec => PressIsTyped
<1> DEFINE Typed(k) == /\ edit'.op = "type" /\ edit'.char[1] = k
                       /\ buffer_pos' = buffer_pos + 1
<1>1. ASSUME IInv, Next, NEW k \in Letters \cup Symbols, pc = "poll", Pressed(k),
             buffer_pos < LINE_MAX
      PROVE  Typed(k)
  <2>1. k \in Keys
    BY DEF Keys
  <2>2. Poll \/ Enter
    BY <1>1 DEF Next, keyboard_clear_buffer, keyboard_get_input
  <2>3. inb
    BY <2>2 DEF Poll, Enter
  <2>4. port' = Make(k) /\ k \notin {NoKey, held_key, last_scancode}
    BY <1>1, <2>1, <2>3, PressIsNew
  <2>5. ~port'.up /\ port'.key = k
    BY <2>4 DEF Make
  <2>6. port' # NoByte
    BY <2>4, <2>5 DEF NoByte
  <2>7. /\ k \notin Shifts \cup Silent \cup {"enter", "backspace", "tab", "capslock"}
        /\ scancode_to_ascii(k) # NoChar /\ scancode_to_ascii(k)[1] = k
    BY <2>1, KeysAssumption DEF scancode_to_ascii, NoChar
  <2>8. ~Enter
    BY <2>5, <2>7 DEF Enter
  <2>9. NewCharacter
    BY <2>2, <2>4, <2>5, <2>6, <2>7, <2>8
       DEF Poll, Released, Held, HeldNoByte, NothingNew, NewModifier, NewBackspace,
           NewTab, EnterIgnored
  <2> QED BY <1>1, <2>5, <2>7, <2>9 DEF NewCharacter, Room, Edit
<1>2. IInv /\ [Next]_vars =>
        [\A k \in Letters \cup Symbols :
           (pc = "poll" /\ Pressed(k) /\ buffer_pos < LINE_MAX) => Typed(k)]_vars
  BY <1>1
<1> QED BY <1>2, InductiveInvariant, PTL DEF Spec, PressIsTyped

\* A line ends only on a byte that differs from the one read before it.
THEOREM RepeatedEnter == Spec => RepeatedEnterEndsNoLine
<1>1. ASSUME IInv, Next, pc = "poll", pc' = "clear"
      PROVE  port' # port
  <2>1. Enter
    BY <1>1 DEF Next, Poll, keyboard_clear_buffer, keyboard_get_input
  <2>2. NewKey /\ port'.key = "enter" /\ CooledDown = 0
    BY <2>1 DEF Enter, CooldownOver
  <2>3. enter_cooldown < 2
    BY <1>1, <2>2 DEF CooledDown, IInv, TypeOK
  <2>4. "enter" \notin {held_key, last_scancode} /\ ~port'.up
    BY <2>2 DEF NewKey
  <2>5. port # [key |-> "enter", up |-> FALSE]
    BY <1>1, <2>3, <2>4, KeyboardAssumption DEF IInv, EnterInv, TypeOK
  <2>6. inb
    BY <2>1 DEF Enter
  <2>7. port' = [key |-> "enter", up |-> FALSE]
    BY <1>1, <2>2, <2>4, <2>6, Read DEF IInv, Bytes, NoByte
  <2> QED BY <2>5, <2>7
<1>2. IInv /\ [Next]_vars => [(pc = "poll" /\ pc' = "clear") => port' # port]_vars
  BY <1>1
<1> QED BY <1>2, InductiveInvariant, PTL DEF Spec, RepeatedEnterEndsNoLine
===============================================================================
