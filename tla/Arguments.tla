------------------------------- MODULE Arguments -------------------------------
(***************************************************************************)
(* How the shell takes a line apart (kernel.c): parse_arguments, one step  *)
(* per turn of its loops, then the loop of pkill and pstatus that reads    *)
(* the first argument as a pid, against string_to_uint32, which pch uses.  *)
(*                                                                         *)
(* A buffer is its characters; what was never written is Garbage.  A write *)
(* behind the end of a buffer may do anything, and the model stops there   *)
(* with pc = "overrun".                                                    *)
(***************************************************************************)
EXTENDS Integers, Sequences

CONSTANTS
  Letters,      \* characters that are neither blanks nor digits
  Digits,       \* the digits used, as the numbers they stand for
  MAX_LINE,     \* longest line, 255 in the code
  BUFFER,       \* length of cmd, arg1 and arg2, 64 in the code
  WORD          \* number of values of a uint32_t, 2^32 in the code

Space   == <<"space">>
NUL     == <<"nul">>
Garbage == <<"garbage">>
Digit   == {<<"digit", d>> : d \in Digits}
Letter  == {<<"letter", c>> : c \in Letters}
Chars   == {Space} \cup Digit \cup Letter

ASSUME ArgumentsAssumption ==
  /\ Digits \subseteq 0..9
  /\ MAX_LINE \in Nat /\ BUFFER \in Nat \ {0} /\ WORD \in Nat \ {0}

VARIABLES
  command,   \* the line, without its NUL
  i,         \* index of the next character, from 0 as in C
  j,         \* index in the buffer being filled
  buf,       \* cmd, arg1 and arg2
  w,         \* which of the three is being looked for
  argc,      \* what parse_arguments returns
  pid,       \* the number read so far from arg1
  pc         \* "skip", "copy", "pid", "invalid", "valid", "usage", "overrun"

vars == <<command, i, j, buf, w, argc, pid, pc>>

Buffers == [0..(BUFFER - 1) -> Chars \cup {NUL, Garbage}]

TypeOK ==
  /\ command \in Seq(Chars) /\ Len(command) <= MAX_LINE
  /\ i \in 0..Len(command)            \* no character behind the NUL is read
  /\ j \in 0..BUFFER
  /\ buf \in [1..3 -> Buffers]
  /\ w \in 1..3 /\ argc \in 0..3
  /\ pid \in 0..(WORD - 1)
  /\ pc \in {"skip", "copy", "pid", "invalid", "valid", "usage", "overrun"}

\* The three buffers start as empty strings.
Init ==
  /\ \E n \in 0..MAX_LINE : command \in [1..n -> Chars]
  /\ i = 0 /\ j = 0 /\ w = 1 /\ argc = 0 /\ pid = 0
  /\ buf = [k \in 1..3 |-> [n \in 0..(BUFFER - 1) |-> IF n = 0 THEN NUL ELSE Garbage]]
  /\ pc = "skip"

-------------------------------------------------------------------------------
(* parse_arguments                                                         *)

Here == IF i = Len(command) THEN NUL ELSE command[i + 1]

\* Mutant: the index stays.
SkipSpace_stuck ==
  /\ pc = "skip" /\ Here = Space
  /\ UNCHANGED vars

\* while (command[i] == ' ') i++
SkipSpace ==
  /\ pc = "skip" /\ Here = Space
  /\ i' = i + 1
  /\ UNCHANGED <<command, j, buf, w, argc, pid, pc>>

\* The shell goes on with the arguments: those with a pid want two words,
\* pstatus three, and all of them read the pid the same way.
Return(n) ==
  /\ argc' = n
  /\ pc' = IF n < 2 THEN "usage" ELSE "pid"
  /\ j' = 0

\* Mutant: j is not set back.
StartIndex_kept == j

\* Where the next word goes in its buffer.
StartIndex == 0

\* Behind the spaces: the next word, or the end of the line, at which the command
\* is stored as an empty string and an argument is not looked for.
BeginWord ==
  /\ pc = "skip" /\ Here # Space
  /\ \/ /\ Here # NUL \/ w = 1
        /\ j' = StartIndex /\ pc' = "copy"
        /\ UNCHANGED argc
     \/ /\ Here = NUL /\ w > 1
        /\ Return(argc)
  /\ UNCHANGED <<command, i, buf, w, pid>>

\* The buffer has a place j, and c goes there.
Store(c) == j < BUFFER /\ buf' = [buf EXCEPT ![w][j] = c]

Overrun ==
  /\ pc = "copy" /\ j = BUFFER
  /\ pc' = "overrun"
  /\ UNCHANGED <<command, i, j, buf, w, argc, pid>>

\* Mutant: only a space ends a word.
CopyCharacter_past_end ==
  /\ pc = "copy" /\ Here # Space
  /\ Store(Here)
  /\ i' = i + 1 /\ j' = j + 1
  /\ UNCHANGED <<command, w, argc, pid, pc>>

\* Mutant: the character is copied and stays the next one.
CopyCharacter_again ==
  /\ pc = "copy" /\ Here \notin {NUL, Space}
  /\ Store(Here)
  /\ j' = j + 1
  /\ UNCHANGED <<command, i, w, argc, pid, pc>>

CopyCharacter ==
  /\ pc = "copy" /\ Here \notin {NUL, Space}
  /\ Store(Here)
  /\ i' = i + 1 /\ j' = j + 1
  /\ UNCHANGED <<command, w, argc, pid, pc>>

\* The word's NUL, and its place in the count.
EndWord ==
  /\ pc = "copy" /\ Here \in {NUL, Space}
  /\ Store(NUL)
  /\ \/ /\ buf'[w][0] = NUL                     \* no command found
        /\ Return(0) /\ UNCHANGED w
     \/ /\ buf'[w][0] # NUL /\ w = 3
        /\ Return(3) /\ UNCHANGED w
     \/ /\ buf'[w][0] # NUL /\ w < 3
        /\ argc' = w /\ w' = w + 1
        /\ pc' = "skip" /\ UNCHANGED j
  /\ UNCHANGED <<command, i, pid>>

-------------------------------------------------------------------------------
(* The pid in arg1: the loops of pkill and pstatus.                        *)

arg1 == buf[2]

\* One more digit, in both loops: n * 10 + (c - '0') in a uint32_t.
AddDigit(n, c) == (n * 10 + c[2]) % WORD

PidDigit ==
  /\ pc = "pid" /\ arg1[j] \in Digit
  /\ pid' = AddDigit(pid, arg1[j])
  /\ j' = j + 1
  /\ UNCHANGED <<command, i, buf, w, argc, pc>>

\* Mutant: what follows the digits is not looked at.
PidEnd_prefix ==
  /\ pc = "pid" /\ arg1[j] \notin Digit
  /\ pc' = IF pid = 0 THEN "invalid" ELSE "valid"
  /\ UNCHANGED <<command, i, j, buf, w, argc, pid>>

PidEnd ==
  /\ pc = "pid" /\ arg1[j] \notin Digit
  /\ pc' = IF pid = 0 \/ arg1[j] # NUL THEN "invalid" ELSE "valid"
  /\ UNCHANGED <<command, i, j, buf, w, argc, pid>>

Next ==
  \/ SkipSpace \/ BeginWord \/ Overrun \/ CopyCharacter \/ EndWord
  \/ PidDigit \/ PidEnd

\* The loops run on, and nothing else does.
Spec == Init /\ [][Next]_vars /\ WF_vars(Next)

\* The length of the string in a buffer.
Length(b) ==
  CHOOSE n \in 0..(BUFFER - 1) : b[n] = NUL /\ \A k \in 0..(n - 1) : b[k] # NUL

\* The result of string_to_uint32's loop after k characters.
Results(b) ==
  LET result[k \in 0..Length(b)] ==
        IF k = 0 THEN 0 ELSE AddDigit(result[k - 1], b[k - 1])
  IN result

AllDigits(b) == \A k \in 0..(Length(b) - 1) : b[k] \in Digit

\* string_to_uint32(str, out), for pch: the number in the buffer, or nothing.
string_to_uint32(b) ==
  IF Length(b) = 0 \/ ~AllDigits(b)
    THEN [ok |-> FALSE, out |-> 0]
    ELSE [ok |-> TRUE, out |-> Results(b)[Length(b)]]

-------------------------------------------------------------------------------
(* What the words of a line are.                                           *)

\* The positions at which a word of the line starts.
Starts ==
  {k \in 1..Len(command) : command[k] # Space /\ (k = 1 \/ command[k - 1] = Space)}

\* The first n words of the line start at starts[1], ..., starts[n].
FirstWords(n, starts) ==
  /\ \A k, l \in 1..n : k < l => starts[k] < starts[l]
  /\ \A k \in 1..n, p \in Starts : p < starts[k] => \E l \in 1..n : p = starts[l]

\* Buffer b holds the whole word that starts at position a, and its NUL.
HoldsWord(b, a) ==
  \E n \in 1..(BUFFER - 1) :
    /\ a + n - 1 <= Len(command)
    /\ \A m \in 0..(n - 1) : command[a + m] # Space /\ b[m] = command[a + m]
    /\ a + n > Len(command) \/ command[a + n] = Space
    /\ b[n] = NUL

Parsed == pc \in {"pid", "invalid", "valid", "usage"}

-------------------------------------------------------------------------------
(* What must hold.                                                         *)

\* parse_arguments finds the first three words of the line, however many spaces
\* stand before, between and behind them, counts them, and leaves the buffers of
\* the missing ones empty.
ParsesFirstWords ==
  Parsed =>
    \E starts \in [1..argc -> Starts] :
      /\ FirstWords(argc, starts)
      /\ argc < 3 => \A p \in Starts : \E k \in 1..argc : p = starts[k]
      /\ \A k \in 1..3 : IF k <= argc THEN HoldsWord(buf[k], starts[k]) ELSE buf[k][0] = NUL

\* A buffer is overrun only by a word that does not fit in it with its NUL: never
\* because of what was parsed before.
OverrunByLongWord ==
  pc = "overrun" =>
    \E starts \in [1..w -> Starts] :
      /\ FirstWords(w, starts)
      /\ \A m \in 0..(BUFFER - 1) : /\ starts[w] + m <= Len(command)
                                    /\ command[starts[w] + m] # Space

\* Of a word, pkill and pstatus take what string_to_uint32 takes, except 0, and read
\* the same number.  pch hands string_to_uint32 the rest of its line instead of a
\* word (kernel.c:662), so it refuses "pch 5 " although "pkill 5 " is taken.
PidParsersAgree ==
  LET other == string_to_uint32(arg1)
  IN /\ pc = "valid"   => other = [ok |-> TRUE, out |-> pid] /\ pid # 0
     /\ pc = "invalid" => ~other.ok \/ other.out = 0

\* What is left to do: characters to read, words to look for, a pid to read.
Left ==
  CASE pc = "skip" -> BUFFER + Len(command) - i + 2 * (3 - w) + 2
    [] pc = "copy" -> BUFFER + Len(command) - i + 2 * (3 - w) + 1
    [] pc = "pid"  -> BUFFER - j
    [] OTHER       -> 0

\* Every turn of every loop leaves less to do: none of them can go round without
\* coming nearer to the end of the line, of the words or of the buffer.
LoopsProgress == [][Left' < Left /\ {Left, Left'} \subseteq Nat]_vars

\* Whatever the line is, taking it apart ends.
Terminates == <>(pc \in {"invalid", "valid", "usage", "overrun"})

-------------------------------------------------------------------------------
(* Why it holds: the inductive invariant (ArgumentsProofs).                *)

\* Between words: those begun before i are stored, and i is not inside one.
SkipInv ==
  pc = "skip" =>
    /\ argc = w - 1
    /\ i = 0 \/ command[i] = Space \/ Here \in {NUL, Space}
    /\ \A k \in w..3 : buf[k][0] = NUL
    /\ \E starts \in [1..argc -> Starts] :
         /\ FirstWords(argc, starts)
         /\ \A k \in 1..argc : starts[k] <= i /\ HoldsWord(buf[k], starts[k])
         /\ \A p \in Starts : p <= i => \E k \in 1..argc : p = starts[k]

\* In a word: its first j characters are in the buffer, unless the line has no
\* word at all.
CopyInv ==
  pc = "copy" =>
    /\ argc = w - 1
    /\ \A k \in (w + 1)..3 : buf[k][0] = NUL
    /\ \/ w = 1 /\ j = 0 /\ Here = NUL /\ Starts = {}
       \/ \E starts \in [1..w -> Starts] :
            /\ FirstWords(w, starts)
            /\ \A k \in 1..(w - 1) : HoldsWord(buf[k], starts[k])
            /\ starts[w] + j = i + 1
            /\ \A m \in 0..(j - 1) : /\ command[starts[w] + m] # Space
                                     /\ buf[w][m] = command[starts[w] + m]

\* In the pid: arg1 is a string, its first j characters are digits, and pid is
\* what string_to_uint32 has after them.
PidInv ==
  /\ pc \in {"skip", "copy"} => pid = 0
  /\ pc \in {"pid", "valid", "invalid"} =>
       /\ argc >= 2
       /\ j <= Length(arg1)
       /\ \A k \in 0..(j - 1) : arg1[k] \in Digit
       /\ AllDigits(arg1) => pid = Results(arg1)[j]
  /\ pc = "valid" => pid # 0 /\ arg1[j] = NUL
  /\ pc = "invalid" => arg1[j] \notin Digit /\ (pid = 0 \/ arg1[j] # NUL)

IInv ==
  /\ TypeOK
  /\ SkipInv
  /\ CopyInv
  /\ ParsesFirstWords
  /\ OverrunByLongWord
  /\ PidInv
================================================================================
