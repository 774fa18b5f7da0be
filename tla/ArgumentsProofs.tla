---------------------------- MODULE ArgumentsProofs ----------------------------
(***************************************************************************)
(* The safety properties of Arguments, for lines and buffers of any length *)
(* and every word size.  IInv is inductive; the argument has one lemma per *)
(* step of the loops.                                                      *)
(***************************************************************************)
EXTENDS Arguments, WellFoundedInduction, TLAPS

-------------------------------------------------------------------------------
(* Characters and buffers.                                                 *)

\* A blank, a NUL and a digit are told apart, and a line holds no NUL.
LEMMA CharactersDiffer ==
  /\ NUL \notin Chars /\ NUL # Space /\ NUL \notin Digit /\ Space \notin Digit
BY DEF NUL, Chars, Space, Digit, Letter

\* A digit stands for a natural number.
LEMMA DigitValue == \A c \in Digit : c[2] \in Nat
BY ArgumentsAssumption DEF Digit

\* The order of the natural numbers as the relation that WFMin is about.
LEMMA LessThanIn == \A x, y \in Nat : x < y => <<x, y>> \in OpToRel(<, Nat)
BY DEF OpToRel

\* A nonempty set of natural numbers has a least element.
LEMMA LeastNumber ==
  ASSUME NEW T \in SUBSET Nat, T # {}
  PROVE  \E x \in T : \A y \in T : x <= y
<1>1. PICK x \in T : \A y \in T : ~(<<y, x>> \in OpToRel(<, Nat))
  BY NatLessThanWellFounded, WFMin
<1>2. \A y \in T : ~(y < x)
  BY <1>1, LessThanIn
<1> QED BY <1>2

\* A buffer with a NUL holds a string, which ends at its first NUL.
LEMMA LengthIs ==
  ASSUME NEW b, NEW m \in 0..(BUFFER - 1), b[m] = NUL
  PROVE  /\ Length(b) \in 0..(BUFFER - 1)
         /\ b[Length(b)] = NUL
         /\ \A k \in 0..(Length(b) - 1) : b[k] # NUL
<1> DEFINE T == {k \in 0..(BUFFER - 1) : b[k] = NUL}
<1>1. T \in SUBSET Nat /\ m \in T
  BY ArgumentsAssumption
<1>2. PICK n \in T : \A y \in T : n <= y
  <2> HIDE DEF T
  <2> QED BY <1>1, LeastNumber
<1>3. n \in 0..(BUFFER - 1) /\ b[n] = NUL
  BY <1>2
<1>4. \A k \in 0..(n - 1) : b[k] # NUL
  BY <1>2, <1>3, ArgumentsAssumption
<1> QED BY <1>3, <1>4 DEF Length

\* A number of 32 bits stays one.
LEMMA AddDigitType ==
  ASSUME NEW n \in Nat, NEW c \in Digit PROVE AddDigit(n, c) \in 0..(WORD - 1)
<1>1. n * 10 + c[2] \in Nat
  BY DigitValue
<1> QED BY <1>1, ArgumentsAssumption DEF AddDigit

\* The loop of string_to_uint32 over a string of digits: it starts at 0, and
\* each turn adds a digit.
LEMMA ResultsIs ==
  ASSUME NEW b, Length(b) \in Nat, AllDigits(b)
  PROVE  /\ Results(b)[0] = 0
         /\ \A k \in 0..(Length(b) - 1) :
              Results(b)[k + 1] = AddDigit(Results(b)[k], b[k])
<1> DEFINE n == Length(b)
           Value == 0..(WORD - 1)
           Runs(f, m) == \A k \in 0..m : f[k] = IF k = 0 THEN 0
                                                ELSE AddDigit(f[k - 1], b[k - 1])
           T == {m \in 0..n : ~\E f \in [0..m -> Value] : Runs(f, m)}
           Step(f) == [k \in 0..n |-> IF k = 0 THEN 0 ELSE AddDigit(f[k - 1], b[k - 1])]
<1>1. \A k \in 0..(n - 1) : b[k] \in Digit
  BY DEF AllDigits
<1>2. n \in Nat /\ 0 \in Value /\ \A v \in Value : v \in Nat
  BY ArgumentsAssumption
<1>3. Results(b) = CHOOSE f : f = Step(f)
  BY DEF Results
<1> HIDE DEF n
<1>4. T = {}
  <2> SUFFICES ASSUME T # {} PROVE FALSE
    OBVIOUS
  <2>1. T \in SUBSET Nat
    BY <1>2
  <2>2. PICK m \in T : \A y \in T : m <= y
    <3> HIDE DEF T
    <3> QED BY <2>1, LeastNumber
  <2>3. m \in 0..n /\ ~\E f \in [0..m -> Value] : Runs(f, m)
    BY <2>2
  <2>4. CASE m = 0
    <3> DEFINE f == [k \in 0..m |-> 0]
    <3>1. f \in [0..m -> Value] /\ Runs(f, m)
      BY <1>2, <2>4
    <3> QED BY <3>1, <2>3
  <2>5. CASE m # 0
    <3>1. m - 1 \in 0..n /\ m - 1 \in 0..(n - 1) /\ ~(m <= m - 1)
      BY <1>2, <2>3, <2>5
    <3>1a. m - 1 \notin T
      <4> HIDE DEF T
      <4> QED BY <2>2, <3>1
    <3>2. PICK f \in [0..(m - 1) -> Value] : Runs(f, m - 1)
      BY <3>1, <3>1a
    <3> DEFINE v == AddDigit(f[m - 1], b[m - 1])
               g == [k \in 0..m |-> IF k = m THEN v ELSE f[k]]
    <3>3. v \in Value
      BY <1>1, <1>2, <3>1, <3>2, AddDigitType
    <3> HIDE DEF v
    <3>4. g \in [0..m -> Value]
      BY <2>3, <3>1, <3>3
    <3>5. \A k \in 0..(m - 1) : g[k] = f[k]
      BY <2>3
    <3>6. ASSUME NEW k \in 0..m
          PROVE  g[k] = IF k = 0 THEN 0 ELSE AddDigit(g[k - 1], b[k - 1])
      <4>1. CASE k = m
        <5>1. g[k - 1] = f[m - 1] /\ g[k] = v
          BY <4>1, <3>1, <3>5, <1>2
        <5> QED BY <5>1, <4>1, <2>5 DEF v
      <4>2. CASE k # m
        <5>1. k \in 0..(m - 1) /\ (k # 0 => k - 1 \in 0..(m - 1))
          BY <4>2, <2>3
        <5> QED BY <5>1, <3>2, <3>5
      <4> QED BY <4>1, <4>2
    <3> HIDE DEF g
    <3> QED BY <3>4, <3>6, <2>3
  <2> QED BY <2>4, <2>5
<1>5. PICK f \in [0..n -> Value] : Runs(f, n)
  <2>1. n \in 0..n
    BY <1>2
  <2> QED BY <2>1, <1>4
<1>6. f = Step(f)
  <2>1. f = [k \in 0..n |-> f[k]]
    OBVIOUS
  <2> QED BY <2>1, <1>5
<1>7. Results(b) = Step(Results(b))
  <2> HIDE DEF Step
  <2> QED BY <1>3, <1>6
<1> DEFINE R == Results(b)
<1> HIDE DEF R
<1>8. R[0] = 0
  BY <1>2, <1>7 DEF R
<1>9. \A k \in 0..(n - 1) : R[k + 1] = AddDigit(R[k], b[k])
  <2> TAKE k \in 0..(n - 1)
  <2>1. k + 1 \in 0..n /\ k + 1 # 0 /\ (k + 1) - 1 = k
    BY <1>2
  <2>2. R = Step(R)
    BY <1>7 DEF R
  <2>3. R[k + 1] = Step(R)[k + 1]
    BY <2>2
  <2> QED BY <2>1, <2>3
<1> QED BY <1>8, <1>9 DEF R, n

-------------------------------------------------------------------------------
(* The invariant, step by step.                                            *)

\* The character at the index.
LEMMA HereIs ==
  ASSUME TypeOK
  PROVE  /\ Len(command) \in Nat /\ i \in Nat /\ i <= Len(command) /\ BUFFER \in Nat \ {0}
         /\ \A k \in 1..Len(command) : command[k] \in Chars /\ command[k] # NUL
         /\ Here = NUL <=> i = Len(command)
         /\ Here # NUL => i + 1 \in 1..Len(command) /\ Here = command[i + 1]
<1>1. Len(command) \in Nat /\ i \in 0..Len(command)
  BY DEF TypeOK
<1>2. \A k \in 1..Len(command) : command[k] \in Chars
  BY DEF TypeOK
<1>3. i # Len(command) => i + 1 \in 1..Len(command)
  BY <1>1
<1> QED BY <1>1, <1>2, <1>3, CharactersDiffer, ArgumentsAssumption DEF Here

\* The shell starts with the whole line to read and empty buffers.
LEMMA InitInv == Init => IInv
<1> SUFFICES ASSUME Init PROVE IInv
  OBVIOUS
<1>1. PICK n \in 0..MAX_LINE : command \in [1..n -> Chars]
  BY DEF Init
<1>2. n \in Nat /\ n <= MAX_LINE
  BY <1>1, ArgumentsAssumption
<1>3. command \in Seq(Chars) /\ Len(command) = n
  BY <1>1, <1>2
<1>4. 0 \in 0..(BUFFER - 1)
  BY ArgumentsAssumption
<1>5. TypeOK
  <2>1. buf \in [1..3 -> Buffers]
    BY DEF Init, Buffers
  <2>2. pid \in 0..(WORD - 1) /\ j \in 0..BUFFER
    BY ArgumentsAssumption DEF Init
  <2> QED BY <1>2, <1>3, <2>1, <2>2 DEF Init, TypeOK
<1>6. SkipInv
  <2>1. argc = 0 /\ w = 1 /\ i = 0
    BY DEF Init
  <2>2. \A k \in w..3 : buf[k][0] = NUL
    BY <1>4 DEF Init
  <2> DEFINE starts == [k \in 1..0 |-> 0]
  <2>3. starts \in [1..argc -> Starts]
    BY <2>1
  <2>4. FirstWords(argc, starts)
    BY <2>1 DEF FirstWords
  <2>5. \A k \in 1..argc : starts[k] <= i /\ HoldsWord(buf[k], starts[k])
    BY <2>1
  <2>6. \A p \in Starts : p <= i => \E k \in 1..argc : p = starts[k]
    BY <2>1, <1>3 DEF Starts
  <2> HIDE DEF starts
  <2>7. \E f \in [1..argc -> Starts] :
          /\ FirstWords(argc, f)
          /\ \A k \in 1..argc : f[k] <= i /\ HoldsWord(buf[k], f[k])
          /\ \A p \in Starts : p <= i => \E k \in 1..argc : p = f[k]
    BY <2>3, <2>4, <2>5, <2>6
  <2>8. argc = w - 1
    BY <2>1
  <2> QED BY <2>1, <2>2, <2>7, <2>8 DEF SkipInv
<1>7. CopyInv /\ ParsesFirstWords /\ OverrunByLongWord /\ PidInv
  BY DEF Init, CopyInv, Parsed, ParsesFirstWords, OverrunByLongWord, PidInv
<1> QED BY <1>5, <1>6, <1>7 DEF IInv

\* A step over a space between words.
LEMMA SkipSpaceStep == ASSUME IInv, SkipSpace PROVE IInv'
<1>1. /\ pc = "skip" /\ Here = Space /\ i' = i + 1 /\ pc' = "skip"
      /\ UNCHANGED <<command, j, buf, w, argc, pid>>
  BY DEF SkipSpace
<1>2. TypeOK
  BY DEF IInv
<1>3. i + 1 \in 1..Len(command) /\ command[i + 1] = Space /\ i \in Nat
  BY <1>1, <1>2, HereIs, CharactersDiffer
<1>4. TypeOK'
  BY <1>1, <1>2, <1>3 DEF TypeOK
<1>5. Starts' = Starts /\ i + 1 \notin Starts
  BY <1>1, <1>3 DEF Starts
<1>6. SkipInv'
  <2>1. /\ argc = w - 1
        /\ \A k \in w..3 : buf[k][0] = NUL
    BY <1>1 DEF IInv, SkipInv
  <2>2. PICK starts \in [1..argc -> Starts] :
          /\ FirstWords(argc, starts)
          /\ \A k \in 1..argc : starts[k] <= i /\ HoldsWord(buf[k], starts[k])
          /\ \A p \in Starts : p <= i => \E k \in 1..argc : p = starts[k]
    BY <1>1 DEF IInv, SkipInv
  <2>3. \A k \in 1..argc : starts[k] \in Nat
    BY <2>2 DEF Starts
  <2>4. \A k \in 1..argc : starts[k] <= i' /\ HoldsWord(buf[k], starts[k])'
    BY <1>1, <1>3, <2>2, <2>3 DEF HoldsWord
  <2>5. FirstWords(argc, starts)'
    BY <1>1, <1>5, <2>2 DEF FirstWords
  <2>6. \A p \in Starts' : p <= i' => \E k \in 1..argc' : p = starts[k]
    <3>1. \A p \in Starts : p \in Nat
      BY DEF Starts
    <3> QED BY <1>1, <1>3, <1>5, <2>2, <3>1
  <2>7. command'[i'] = Space
    BY <1>1, <1>3
  <2> QED BY <1>1, <1>5, <2>1, <2>2, <2>4, <2>5, <2>6, <2>7 DEF SkipInv
<1>7. CopyInv' /\ ParsesFirstWords' /\ OverrunByLongWord' /\ PidInv'
  BY <1>1 DEF IInv, CopyInv, Parsed, ParsesFirstWords, OverrunByLongWord, PidInv
<1> QED BY <1>4, <1>6, <1>7 DEF IInv

\* The end of the line between two words: every word is in its buffer.
LEMMA ReturnStep ==
  ASSUME IInv, pc = "skip", Here = NUL, w > 1, Return(argc),
         UNCHANGED <<command, i, buf, w, pid>>
  PROVE  IInv'
<1>1. argc' = argc /\ j' = 0 /\ pc' \in {"usage", "pid"} /\ (pc' = "pid" => ~(argc < 2))
  BY DEF Return
<1>2. TypeOK
  BY DEF IInv
<1>3. i = Len(command) /\ Len(command) \in Nat /\ BUFFER \in Nat /\ BUFFER > 0
  BY <1>2, HereIs
<1>4. w \in 1..3 /\ argc \in 0..3 /\ pid = 0
  BY <1>2 DEF IInv, TypeOK, PidInv
<1>5. argc = w - 1 /\ \A k \in w..3 : buf[k][0] = NUL
  BY DEF IInv, SkipInv
<1>6. TypeOK'
  BY <1>1, <1>2, <1>3 DEF TypeOK
<1>7. PICK starts \in [1..argc -> Starts] :
        /\ FirstWords(argc, starts)
        /\ \A k \in 1..argc : starts[k] <= i /\ HoldsWord(buf[k], starts[k])
        /\ \A p \in Starts : p <= i => \E k \in 1..argc : p = starts[k]
  BY DEF IInv, SkipInv
<1>8. ParsesFirstWords'
  <2>1. Starts' = Starts
    BY DEF Starts
  <2>2. FirstWords(argc, starts)'
    BY <2>1, <1>1, <1>7 DEF FirstWords
  <2>3. \A p \in Starts : \E k \in 1..argc : p = starts[k]
    BY <1>3, <1>7 DEF Starts
  <2>4. ASSUME NEW k \in 1..3
        PROVE  IF k <= argc THEN HoldsWord(buf[k], starts[k])' ELSE buf'[k][0] = NUL
    <3>1. CASE k <= argc
      <4>1. HoldsWord(buf[k], starts[k])
        BY <3>1, <1>4, <1>7
      <4>2. HoldsWord(buf[k], starts[k])'
        BY <4>1 DEF HoldsWord
      <4> QED BY <3>1, <4>2
    <3>2. CASE ~(k <= argc)
      BY <3>2, <1>4, <1>5
    <3> QED BY <3>1, <3>2
  <2> QED BY <1>1, <1>7, <2>1, <2>2, <2>3, <2>4 DEF ParsesFirstWords
<1>9. PidInv'
  <2>1. CASE pc' = "usage"
    BY <2>1 DEF PidInv
  <2>2. CASE pc' = "pid"
    <3>1. argc >= 2
      BY <2>2, <1>1, <1>4
    <3>2. HoldsWord(buf[2], starts[2])
      BY <3>1, <1>4, <1>7
    <3>3. \E m \in 0..(BUFFER - 1) : arg1[m] = NUL
      BY <3>2, <1>3 DEF HoldsWord, arg1
    <3>4. Length(arg1) \in Nat
      BY <3>3, <1>3, LengthIs
    <3>5. AllDigits(arg1) => Results(arg1)[0] = 0
      BY <3>4, ResultsIs
    <3>6. arg1' = arg1
      BY DEF arg1
    <3>7. Length(arg1)' = Length(arg1) /\ AllDigits(arg1)' = AllDigits(arg1)
          /\ Results(arg1)' = Results(arg1)
      BY <3>6 DEF Length, AllDigits, Results
    <3> QED BY <2>2, <3>1, <3>4, <3>5, <3>7, <1>1, <1>4 DEF PidInv
  <2> QED BY <1>1, <2>1, <2>2
<1>10. SkipInv' /\ CopyInv' /\ OverrunByLongWord'
  BY <1>1 DEF SkipInv, CopyInv, OverrunByLongWord
<1> QED BY <1>6, <1>8, <1>9, <1>10 DEF IInv

\* The first character of the next word, or no command at all.
LEMMA BeginWordStep == ASSUME IInv, BeginWord PROVE IInv'
<1>1. /\ pc = "skip" /\ Here # Space
      /\ UNCHANGED <<command, i, buf, w, pid>>
  BY DEF BeginWord
<1>2. CASE Here = NUL /\ w > 1 /\ Return(argc)
  BY <1>1, <1>2, ReturnStep
<1>3. CASE (Here # NUL \/ w = 1) /\ j' = StartIndex /\ pc' = "copy" /\ argc' = argc
  <2>1. TypeOK
    BY DEF IInv
  <2>2. j' = 0 /\ w \in 1..3 /\ i \in Nat /\ Len(command) \in Nat
    BY <1>3, <2>1, HereIs DEF StartIndex, TypeOK
  <2>3. TypeOK'
    BY <1>1, <1>3, <2>1, <2>2, ArgumentsAssumption DEF TypeOK
  <2>4. argc = w - 1 /\ \A k \in w..3 : buf[k][0] = NUL
    BY <1>1 DEF IInv, SkipInv
  <2>5. PICK starts \in [1..argc -> Starts] :
          /\ FirstWords(argc, starts)
          /\ \A k \in 1..argc : starts[k] <= i /\ HoldsWord(buf[k], starts[k])
          /\ \A p \in Starts : p <= i => \E k \in 1..argc : p = starts[k]
    BY <1>1 DEF IInv, SkipInv
  <2>6. Starts' = Starts /\ Here' = Here
    BY <1>1 DEF Starts, Here
  <2>7. CopyInv'
    <3>1. argc' = w' - 1 /\ \A k \in (w' + 1)..3 : buf'[k][0] = NUL
      BY <1>1, <1>3, <2>2, <2>4
    <3>2. CASE Here = NUL
      <4>1. w = 1 /\ argc = 0 /\ i = Len(command)
        BY <1>3, <3>2, <2>1, <2>4, HereIs
      <4>2. Starts = {}
        BY <4>1, <2>5, <2>2 DEF Starts
      <4> QED BY <1>1, <2>2, <2>6, <3>1, <3>2, <4>1, <4>2 DEF CopyInv
    <3>3. CASE Here # NUL
      <4>1. i + 1 \in 1..Len(command) /\ command[i + 1] # Space
        BY <1>1, <2>1, <3>3, HereIs
      <4>2. i = 0 \/ command[i] = Space
        BY <1>1, <3>3 DEF IInv, SkipInv
      <4>3. i + 1 \in Starts
        BY <4>1, <4>2, <2>2 DEF Starts
      <4> DEFINE s == i + 1
      <4>4. s \in Starts /\ \A k \in 1..argc : starts[k] \in Starts /\ starts[k] < s
        BY <4>3, <2>2, <2>5 DEF Starts
      <4>5. \A p \in Starts : p < s => \E k \in 1..argc : p = starts[k]
        BY <2>2, <2>5 DEF Starts
      <4> HIDE DEF s
      <4>6. PICK t \in [1..w -> Starts] :
              t[w] = s /\ \A k \in 1..argc : t[k] = starts[k] /\ k # w
        <5> DEFINE u == [k \in 1..w |-> IF k < w THEN starts[k] ELSE s]
        <5>1. u \in [1..w -> Starts] /\ u[w] = s /\ \A k \in 1..argc : u[k] = starts[k] /\ k # w
          BY <4>4, <2>2, <2>4
        <5> QED BY <5>1
      <4>7. FirstWords(w, t)'
        <5>1. \A k, l \in 1..w : k < l => t[k] < t[l]
          BY <4>4, <4>6, <2>2, <2>4, <2>5 DEF FirstWords
        <5>2. \A k \in 1..w, p \in Starts : p < t[k] => \E l \in 1..w : p = t[l]
          <6> SUFFICES ASSUME NEW k \in 1..w, NEW p \in Starts, p < t[k]
                       PROVE  \E l \in 1..argc : p = starts[l]
            BY <4>6, <2>2, <2>4
          <6>1. CASE k = w
            BY <6>1, <4>5, <4>6
          <6>2. CASE k # w
            BY <6>2, <4>6, <2>2, <2>4, <2>5 DEF FirstWords
          <6> QED BY <6>1, <6>2
        <5> QED BY <5>1, <5>2, <2>6, <1>1 DEF FirstWords
      <4>8. \A k \in 1..(w - 1) : HoldsWord(buf[k], t[k])'
        <5>1. \A k \in 1..(w - 1) : HoldsWord(buf[k], t[k])
          BY <4>6, <2>4, <2>5
        <5> QED BY <5>1, <1>1 DEF HoldsWord
      <4>9. t[w] + 0 = i + 1
        BY <4>6, <2>2 DEF s
      <4> QED BY <1>1, <2>2, <2>6, <3>1, <4>6, <4>7, <4>8, <4>9 DEF CopyInv
    <3> QED BY <3>2, <3>3
  <2>8. SkipInv' /\ ParsesFirstWords' /\ OverrunByLongWord' /\ PidInv'
    BY <1>1, <1>3 DEF IInv, SkipInv, Parsed, ParsesFirstWords, OverrunByLongWord, PidInv
  <2> QED BY <2>3, <2>7, <2>8 DEF IInv
<1> QED BY <1>2, <1>3 DEF BeginWord

\* A word that is being copied, when there is one: it starts j characters before
\* the index, and the buffer has its first j characters.
LEMMA WordCopied ==
  ASSUME IInv, pc = "copy", j # 0 \/ Here # NUL
  PROVE  \E starts \in [1..w -> Starts] :
           /\ FirstWords(w, starts)
           /\ \A k \in 1..(w - 1) : HoldsWord(buf[k], starts[k])
           /\ starts[w] + j = i + 1
           /\ \A m \in 0..(j - 1) : /\ command[starts[w] + m] # Space
                                    /\ buf[w][m] = command[starts[w] + m]
BY DEF IInv, CopyInv

\* A write behind the end of a buffer: the word has filled all of it.
LEMMA OverrunStep == ASSUME IInv, Overrun PROVE IInv'
<1>1. /\ pc = "copy" /\ j = BUFFER /\ pc' = "overrun"
      /\ UNCHANGED <<command, i, j, buf, w, argc, pid>>
  BY DEF Overrun
<1>2. TypeOK
  BY DEF IInv
<1>3. TypeOK'
  BY <1>1, <1>2 DEF TypeOK
<1>4. Len(command) \in Nat /\ i \in Nat /\ i <= Len(command) /\ BUFFER \in Nat \ {0} /\ w \in 1..3
  BY <1>2, HereIs DEF TypeOK
<1>5. PICK starts \in [1..w -> Starts] :
        /\ FirstWords(w, starts)
        /\ starts[w] + j = i + 1
        /\ \A m \in 0..(j - 1) : command[starts[w] + m] # Space
  BY <1>1, <1>4, WordCopied
<1>6. Starts' = Starts
  BY <1>1 DEF Starts
<1>7. FirstWords(w, starts)'
  BY <1>1, <1>5, <1>6 DEF FirstWords
<1>8. starts[w] \in Nat
  BY <1>4, <1>5 DEF Starts
<1>9. \A m \in 0..(BUFFER - 1) : /\ starts[w] + m <= Len(command)
                                 /\ command[starts[w] + m] # Space
  BY <1>1, <1>4, <1>5, <1>8
<1>10. OverrunByLongWord'
  BY <1>1, <1>5, <1>6, <1>7, <1>9 DEF OverrunByLongWord
<1>11. SkipInv' /\ CopyInv' /\ ParsesFirstWords' /\ PidInv'
  BY <1>1 DEF SkipInv, CopyInv, Parsed, ParsesFirstWords, PidInv
<1> QED BY <1>3, <1>10, <1>11 DEF IInv

\* One character of a word.
LEMMA CopyCharacterStep == ASSUME IInv, CopyCharacter PROVE IInv'
<1>1. /\ pc = "copy" /\ Here # NUL /\ Here # Space /\ j < BUFFER
      /\ buf' = [buf EXCEPT ![w][j] = Here]
      /\ i' = i + 1 /\ j' = j + 1
      /\ UNCHANGED <<command, w, argc, pid, pc>>
  BY DEF CopyCharacter, Store
<1>2. TypeOK
  BY DEF IInv
<1>3. /\ i + 1 \in 1..Len(command) /\ Here = command[i + 1] /\ Here \in Chars
      /\ Len(command) \in Nat /\ i \in Nat /\ BUFFER \in Nat \ {0}
  BY <1>1, <1>2, HereIs
<1>4. w \in 1..3 /\ j \in Nat /\ j \in 0..(BUFFER - 1) /\ buf \in [1..3 -> Buffers]
  BY <1>1, <1>2, <1>3 DEF TypeOK
<1>5. /\ buf' \in [1..3 -> Buffers]
      /\ \A k \in 1..3 : k # w => buf'[k] = buf[k]
      /\ buf'[w][j] = Here
      /\ \A m \in 0..(BUFFER - 1) : m # j => buf'[w][m] = buf[w][m]
  BY <1>1, <1>3, <1>4 DEF Buffers
<1>6. TypeOK'
  BY <1>1, <1>2, <1>3, <1>4, <1>5 DEF TypeOK
<1>7. PICK starts \in [1..w -> Starts] :
        /\ FirstWords(w, starts)
        /\ \A k \in 1..(w - 1) : HoldsWord(buf[k], starts[k])
        /\ starts[w] + j = i + 1
        /\ \A m \in 0..(j - 1) : /\ command[starts[w] + m] # Space
                                 /\ buf[w][m] = command[starts[w] + m]
  BY <1>1, WordCopied
<1>8. CopyInv'
  <2>1. Starts' = Starts
    BY <1>1 DEF Starts
  <2>2. FirstWords(w, starts)'
    BY <1>1, <1>7, <2>1 DEF FirstWords
  <2>3. argc = w - 1 /\ \A k \in (w + 1)..3 : buf[k][0] = NUL
    BY <1>1 DEF IInv, CopyInv
  <2>4. argc' = w' - 1 /\ \A k \in (w' + 1)..3 : buf'[k][0] = NUL
    BY <1>1, <1>4, <1>5, <2>3
  <2>5. ASSUME NEW k \in 1..(w - 1) PROVE HoldsWord(buf[k], starts[k])'
    <3>1. buf'[k] = buf[k] /\ HoldsWord(buf[k], starts[k])
      BY <1>4, <1>5, <1>7
    <3> QED BY <3>1, <1>1 DEF HoldsWord
  <2>6. starts[w] \in Nat
    BY <1>4, <1>7 DEF Starts
  <2>7. starts[w'] + j' = i' + 1
    BY <1>1, <1>3, <1>4, <1>7, <2>6
  <2>8. ASSUME NEW m \in 0..(j' - 1)
        PROVE  command[starts[w] + m] # Space /\ buf'[w][m] = command[starts[w] + m]
    <3>1. CASE m = j
      BY <3>1, <1>1, <1>3, <1>5, <1>7
    <3>2. CASE m # j
      <4>1. m \in 0..(j - 1) /\ m \in 0..(BUFFER - 1)
        BY <3>2, <1>1, <1>3, <1>4
      <4> QED BY <3>2, <4>1, <1>5, <1>7
    <3> QED BY <3>1, <3>2
  <2>9. \E f \in [1..w' -> Starts'] :
          /\ FirstWords(w, f)'
          /\ \A k \in 1..(w' - 1) : HoldsWord(buf[k], f[k])'
          /\ f[w'] + j' = i' + 1
          /\ \A m \in 0..(j' - 1) : /\ command'[f[w'] + m] # Space
                                    /\ buf'[w'][m] = command'[f[w'] + m]
    <3>1. w' = w /\ command' = command
      BY <1>1
    <3>2. starts \in [1..w' -> Starts']
      BY <3>1, <2>1, <1>7
    <3> QED BY <3>1, <3>2, <2>2, <2>5, <2>7, <2>8
  <2> QED BY <2>4, <2>9 DEF CopyInv
<1>9. SkipInv' /\ ParsesFirstWords' /\ OverrunByLongWord' /\ PidInv'
  BY <1>1 DEF IInv, SkipInv, Parsed, ParsesFirstWords, OverrunByLongWord, PidInv
<1> QED BY <1>6, <1>8, <1>9 DEF IInv

\* Nothing can start a word inside one: behind its first character, the start of
\* another word needs a space before it.
LEMMA NoStartInside ==
  ASSUME NEW a \in Nat \ {0}, NEW n \in Nat,
         \A m \in 0..(n - 1) : command[a + m] # Space,
         NEW p \in Starts, a < p, p <= a + n - 1
  PROVE  FALSE
<1>1. p \in Nat /\ (p = 1 \/ command[p - 1] = Space)
  BY DEF Starts
<1>2. p # 1
  BY <1>1
<1>3. p - 1 - a \in 0..(n - 1) /\ a + (p - 1 - a) = p - 1
  BY <1>1
<1>4. command[p - 1] # Space
  BY <1>3
<1> QED BY <1>1, <1>2, <1>4

\* The NUL behind a word: the command's or an argument's buffer is complete.
LEMMA EndWordStep == ASSUME IInv, EndWord PROVE IInv'
<1>1. /\ pc = "copy" /\ Here \in {NUL, Space} /\ j < BUFFER
      /\ buf' = [buf EXCEPT ![w][j] = NUL]
      /\ UNCHANGED <<command, i, pid>>
  BY DEF EndWord, Store
<1>2. TypeOK
  BY DEF IInv
<1>3. /\ Len(command) \in Nat /\ i \in Nat /\ i <= Len(command) /\ BUFFER \in Nat \ {0}
      /\ \A k \in 1..Len(command) : command[k] # NUL
  BY <1>2, HereIs
<1>4. w \in 1..3 /\ j \in Nat /\ j \in 0..(BUFFER - 1) /\ buf \in [1..3 -> Buffers] /\ pid = 0
  BY <1>1, <1>2, <1>3 DEF TypeOK, IInv, PidInv
<1>5. /\ buf' \in [1..3 -> Buffers]
      /\ \A k \in 1..3 : k # w => buf'[k] = buf[k]
      /\ buf'[w][j] = NUL
      /\ \A m \in 0..(BUFFER - 1) : m # j => buf'[w][m] = buf[w][m]
  BY <1>1, <1>3, <1>4 DEF Buffers
<1>6. argc = w - 1 /\ \A k \in (w + 1)..3 : buf[k][0] = NUL
  BY <1>1 DEF IInv, CopyInv
<1>7. \A k \in (w + 1)..3 : buf'[k][0] = NUL
  BY <1>4, <1>5, <1>6
<1>8. Starts' = Starts /\ command' = command /\ i' = i /\ Here' = Here
  BY <1>1 DEF Starts, Here
<1>9. TypeOK'
  <2>1. j' \in 0..BUFFER /\ w' \in 1..3 /\ argc' \in 0..3
        /\ pc' \in {"skip", "usage", "pid"}
    BY <1>2, <1>3, <1>4, <1>6 DEF EndWord, Return, TypeOK
  <2> QED BY <1>1, <1>2, <1>5, <2>1 DEF TypeOK
<1>10. CASE j = 0 /\ Here = NUL
  <2>1. buf'[w][0] = NUL
    BY <1>5, <1>10
  <2>2. argc' = 0 /\ pc' = "usage" /\ w' = w
    BY <2>1 DEF EndWord, Return
  <2>3. w = 1 /\ Starts = {}
    <3>1. i = Len(command)
      BY <1>2, <1>10, HereIs
    <3>2. \A f \in [1..w -> Starts] : f[w] <= Len(command) /\ f[w] \in Nat
      BY <1>3, <1>4 DEF Starts
    <3>3. \A f \in [1..w -> Starts] : f[w] + j # i + 1
      BY <3>1, <3>2, <1>3, <1>10
    <3>4. \/ w = 1 /\ Starts = {}
          \/ \E f \in [1..w -> Starts] : f[w] + j = i + 1
      BY <1>1 DEF IInv, CopyInv
    <3> QED BY <3>3, <3>4
  <2>4. \A k \in 1..3 : buf'[k][0] = NUL
    BY <2>1, <2>3, <1>7
  <2>5. \E f \in [1..argc' -> Starts'] :
          /\ FirstWords(argc, f)'
          /\ argc' < 3 => \A p \in Starts' : \E k \in 1..argc' : p = f[k]
          /\ \A k \in 1..3 : IF k <= argc' THEN HoldsWord(buf[k], f[k])' ELSE buf'[k][0] = NUL
    <3> DEFINE f == [k \in 1..0 |-> 0]
    <3>1. f \in [1..argc' -> Starts']
      BY <2>2
    <3>2. FirstWords(argc, f)'
      BY <2>2 DEF FirstWords
    <3>3. \A k \in 1..3 : ~(k <= argc')
      BY <2>2
    <3> HIDE DEF f
    <3> QED BY <3>1, <3>2, <3>3, <1>8, <2>3, <2>4
  <2>6. ParsesFirstWords'
    BY <2>5 DEF ParsesFirstWords
  <2>7. SkipInv' /\ CopyInv' /\ OverrunByLongWord' /\ PidInv'
    BY <2>2 DEF SkipInv, CopyInv, OverrunByLongWord, PidInv
  <2> QED BY <1>9, <2>6, <2>7 DEF IInv
<1>11. CASE j # 0 \/ Here # NUL
  <2>0. PICK v \in 1..3 : v = w
    BY <1>4
  <2>1. PICK starts \in [1..v -> Starts] :
          /\ FirstWords(v, starts)
          /\ \A k \in 1..(v - 1) : HoldsWord(buf[k], starts[k])
          /\ starts[v] + j = i + 1
          /\ \A m \in 0..(j - 1) : /\ command[starts[v] + m] # Space
                                   /\ buf[v][m] = command[starts[v] + m]
    BY <1>1, <1>11, <2>0, WordCopied
  <2> DEFINE a == starts[v]
  <2>2. a \in Starts /\ a \in 1..Len(command) /\ command[a] # Space /\ a + j = i + 1
    BY <2>1 DEF Starts
  <2>3. \A m \in 0..(j - 1) : command[a + m] # Space /\ buf'[v][m] = command[a + m]
    <3> TAKE m \in 0..(j - 1)
    <3>1. m \in 0..(BUFFER - 1) /\ m # j
      BY <1>3, <1>4
    <3>2. buf'[v][m] = buf[v][m]
      BY <3>1, <1>5, <2>0
    <3> QED BY <3>2, <2>1
  <2>4. \A k \in 1..v : starts[k] \in Nat /\ starts[k] <= a
    <3>1. \A k \in 1..v : starts[k] \in Nat
      BY <2>1 DEF Starts
    <3>2. \A k, l \in 1..v : k < l => starts[k] < starts[l]
      BY <2>1 DEF FirstWords
    <3> QED BY <3>1, <3>2
  <2>5. FirstWords(v, starts)'
    BY <1>8, <2>1 DEF FirstWords
  <2>6. \A p \in Starts : p < a => \E l \in 1..v : p = starts[l]
    BY <2>1 DEF FirstWords
  <2>7. \A k \in 1..(v - 1) : HoldsWord(buf[k], starts[k])'
    <3> TAKE k \in 1..(v - 1)
    <3>1. buf'[k] = buf[k] /\ HoldsWord(buf[k], starts[k])
      BY <1>5, <2>0, <2>1
    <3> QED BY <3>1, <1>1 DEF HoldsWord
  <2> HIDE DEF a
  <2>8. j # 0
    <3>1. Here = NUL \/ Here = Space
      BY <1>1
    <3>2. j = 0 => a = i + 1
      BY <2>2, <1>3
    <3>3. Here = NUL => i = Len(command)
      BY <1>2, HereIs
    <3>4. Here = Space => Here = command[i + 1]
      BY <1>2, HereIs, CharactersDiffer
    <3> QED BY <3>1, <3>2, <3>3, <3>4, <2>2, <1>3
  <2>9. HoldsWord(buf[v], a)'
    <3>1. j \in 1..(BUFFER - 1) /\ a + j - 1 <= Len(command)
      BY <1>3, <1>4, <2>2, <2>8
    <3>2. a + j > Len(command) \/ command[a + j] = Space
      <4>1. Here = NUL => i = Len(command)
        BY <1>2, HereIs
      <4>2. Here # NUL => Here = command[i + 1]
        BY <1>2, HereIs
      <4> QED BY <4>1, <4>2, <1>1, <1>3, <2>2
    <3>3. buf'[v][j] = NUL
      BY <1>5, <2>0
    <3>4. \E n \in 1..(BUFFER - 1) :
            /\ a + n - 1 <= Len(command)
            /\ \A m \in 0..(n - 1) : command[a + m] # Space /\ buf'[v][m] = command[a + m]
            /\ a + n > Len(command) \/ command[a + n] = Space
            /\ buf'[v][n] = NUL
      BY <3>1, <3>2, <3>3, <2>3
    <3> QED BY <3>4, <1>8 DEF HoldsWord
  <2>10. \A p \in Starts : p <= i => \E k \in 1..v : p = starts[k]
    <3> SUFFICES ASSUME NEW p \in Starts, p <= i PROVE \E k \in 1..v : p = starts[k]
      OBVIOUS
    <3>1. p \in Nat
      BY DEF Starts
    <3>2. CASE p < a
      BY <3>2, <2>6
    <3>3. CASE p = a
      BY <3>3 DEF a
    <3>4. CASE a < p
      <4>1. a \in Nat \ {0} /\ p <= a + j - 1
        BY <2>2, <1>3, <1>4
      <4>2. \A m \in 0..(j - 1) : command[a + m] # Space
        BY <2>3
      <4>3. FALSE
        <5> HIDE DEF a
        <5> QED BY <3>4, <4>1, <4>2, <1>4, NoStartInside
      <4> QED BY <4>3
    <3> QED BY <3>1, <2>2, <3>2, <3>3, <3>4
  <2>11. buf'[v][0] # NUL
    <3>1. 0 \in 0..(j - 1)
      BY <1>4, <2>8
    <3>2. buf'[v][0] = command[a]
      BY <3>1, <2>2, <2>3
    <3> QED BY <3>2, <1>3, <2>2
  <2>12. CASE v < 3
    <3>1. argc' = v /\ w' = v + 1 /\ pc' = "skip"
      BY <2>0, <2>11, <2>12 DEF EndWord
    <3>2. \A k \in 1..v : starts[k] <= i' /\ HoldsWord(buf[k], starts[k])'
      <4> TAKE k \in 1..v
      <4>1. starts[k] <= i
        BY <2>2, <2>4, <2>8, <1>3, <1>4
      <4>2. CASE k = v
        BY <4>1, <4>2, <2>9, <1>8 DEF a
      <4>3. CASE k # v
        BY <4>1, <4>3, <2>7, <1>8, <1>4
      <4> QED BY <4>2, <4>3
    <3>3. argc' = w' - 1 /\ \A k \in w'..3 : buf'[k][0] = NUL
      BY <3>1, <1>7, <2>0
    <3>4. starts \in [1..argc' -> Starts']
      BY <3>1, <2>1, <1>8
    <3>5. \E f \in [1..argc' -> Starts'] :
            /\ FirstWords(argc, f)'
            /\ \A k \in 1..argc' : f[k] <= i' /\ HoldsWord(buf[k], f[k])'
            /\ \A p \in Starts' : p <= i' => \E k \in 1..argc' : p = f[k]
      <4>1. FirstWords(argc, starts)'
        BY <2>5, <3>1 DEF FirstWords
      <4>2. \A p \in Starts' : p <= i' => \E k \in 1..argc' : p = starts[k]
        BY <2>10, <3>1, <1>8
      <4> QED BY <3>1, <3>2, <3>4, <4>1, <4>2
    <3>6. SkipInv'
      BY <1>1, <1>8, <3>3, <3>5 DEF SkipInv
    <3>7. CopyInv' /\ ParsesFirstWords' /\ OverrunByLongWord' /\ PidInv'
      BY <1>1, <1>4, <3>1 DEF CopyInv, Parsed, ParsesFirstWords, OverrunByLongWord, PidInv
    <3> QED BY <1>9, <3>6, <3>7 DEF IInv
  <2>13. CASE v = 3
    <3>1. argc' = 3 /\ pc' = "pid" /\ j' = 0
      BY <2>0, <2>11, <2>13 DEF EndWord, Return
    <3>2. \A k \in 1..3 : HoldsWord(buf[k], starts[k])'
      <4> TAKE k \in 1..3
      <4>1. CASE k = v
        BY <4>1, <2>9 DEF a
      <4>2. CASE k # v
        BY <4>2, <2>7, <2>13
      <4> QED BY <4>1, <4>2
    <3>3. ParsesFirstWords'
      <4>1. starts \in [1..argc' -> Starts']
        BY <3>1, <2>1, <2>13, <1>8
      <4>2. FirstWords(argc, starts)'
        BY <2>5, <2>13, <3>1 DEF FirstWords
      <4>3. \A k \in 1..3 : IF k <= argc' THEN HoldsWord(buf[k], starts[k])' ELSE buf'[k][0] = NUL
        BY <3>1, <3>2
      <4>4. ~(argc' < 3)
        BY <3>1
      <4> QED BY <4>1, <4>2, <4>3, <4>4 DEF ParsesFirstWords
    <3>4. PidInv'
      <4>1. HoldsWord(buf[2], starts[2])'
        BY <3>2
      <4>2. \E m \in 0..(BUFFER - 1) : arg1'[m] = NUL
        BY <4>1, <1>3 DEF HoldsWord, arg1
      <4> DEFINE b == arg1'
      <4>3. Length(b) \in Nat
        <5> HIDE DEF b
        <5> QED BY <4>2, <1>3, LengthIs DEF b
      <4>4. AllDigits(b) => Results(b)[0] = 0
        <5> HIDE DEF b
        <5> QED BY <4>3, ResultsIs
      <4> QED BY <3>1, <4>3, <4>4, <1>1, <1>4 DEF PidInv
    <3>5. SkipInv' /\ CopyInv' /\ OverrunByLongWord'
      BY <3>1 DEF SkipInv, CopyInv, OverrunByLongWord
    <3> QED BY <1>9, <3>3, <3>4, <3>5 DEF IInv
  <2> QED BY <2>12, <2>13
<1> QED BY <1>10, <1>11

\* arg1 is a string once parse_arguments has returned at least 2.
LEMMA Arg1Length ==
  ASSUME IInv, pc \in {"pid", "valid", "invalid"}
  PROVE  /\ Length(arg1) \in 0..(BUFFER - 1) /\ BUFFER \in Nat
         /\ arg1[Length(arg1)] = NUL
         /\ \A k \in 0..(Length(arg1) - 1) : arg1[k] # NUL
<1>1. BUFFER \in Nat \ {0} /\ argc \in 0..3 /\ argc >= 2
  BY ArgumentsAssumption DEF IInv, TypeOK, PidInv
<1>2. PICK starts \in [1..argc -> Starts] :
        \A k \in 1..3 : IF k <= argc THEN HoldsWord(buf[k], starts[k]) ELSE buf[k][0] = NUL
  BY DEF IInv, Parsed, ParsesFirstWords
<1>3. HoldsWord(buf[2], starts[2])
  BY <1>1, <1>2
<1>4. \E m \in 0..(BUFFER - 1) : arg1[m] = NUL
  BY <1>1, <1>3 DEF HoldsWord, arg1
<1> QED BY <1>1, <1>4, LengthIs

\* What was parsed stays parsed while arg1 is read as a pid.
LEMMA ParsedStays ==
  ASSUME IInv, pc = "pid", pc' \in {"pid", "valid", "invalid"},
         UNCHANGED <<command, i, buf, w, argc>>
  PROVE  /\ SkipInv' /\ CopyInv' /\ ParsesFirstWords' /\ OverrunByLongWord'
         /\ arg1' = arg1 /\ Length(arg1)' = Length(arg1)
         /\ AllDigits(arg1)' = AllDigits(arg1) /\ Results(arg1)' = Results(arg1)
<1>1. Starts' = Starts
  BY DEF Starts
<1>2. PICK starts \in [1..argc -> Starts] :
        /\ FirstWords(argc, starts)
        /\ argc < 3 => \A p \in Starts : \E k \in 1..argc : p = starts[k]
        /\ \A k \in 1..3 : IF k <= argc THEN HoldsWord(buf[k], starts[k]) ELSE buf[k][0] = NUL
  BY DEF IInv, Parsed, ParsesFirstWords
<1>3. FirstWords(argc, starts)'
  BY <1>1, <1>2 DEF FirstWords
<1>4. ASSUME NEW k \in 1..3
      PROVE  IF k <= argc' THEN HoldsWord(buf[k], starts[k])' ELSE buf'[k][0] = NUL
  <2>1. CASE k <= argc
    <3>1. HoldsWord(buf[k], starts[k])
      BY <2>1, <1>2
    <3>2. HoldsWord(buf[k], starts[k])'
      BY <3>1 DEF HoldsWord
    <3> QED BY <3>2, <2>1
  <2>2. CASE ~(k <= argc)
    BY <2>2, <1>2
  <2> QED BY <2>1, <2>2
<1>5. ParsesFirstWords'
  BY <1>1, <1>2, <1>3, <1>4 DEF ParsesFirstWords
<1>6. SkipInv' /\ CopyInv' /\ OverrunByLongWord'
  BY DEF SkipInv, CopyInv, OverrunByLongWord
<1>7. arg1' = arg1
  BY DEF arg1
<1>8. Length(arg1)' = Length(arg1) /\ AllDigits(arg1)' = AllDigits(arg1)
      /\ Results(arg1)' = Results(arg1)
  BY <1>7 DEF Length, AllDigits, Results
<1> QED BY <1>5, <1>6, <1>7, <1>8

\* One digit of the pid: string_to_uint32 would have read the same.
LEMMA PidDigitStep == ASSUME IInv, PidDigit PROVE IInv'
<1>1. /\ pc = "pid" /\ arg1[j] \in Digit /\ pid' = AddDigit(pid, arg1[j]) /\ j' = j + 1
      /\ UNCHANGED <<command, i, buf, w, argc, pc>>
  BY DEF PidDigit
<1>2. /\ SkipInv' /\ CopyInv' /\ ParsesFirstWords' /\ OverrunByLongWord'
      /\ arg1' = arg1 /\ Length(arg1)' = Length(arg1)
      /\ AllDigits(arg1)' = AllDigits(arg1) /\ Results(arg1)' = Results(arg1)
  BY <1>1, ParsedStays
<1> DEFINE n == Length(arg1)
<1>3. n \in 0..(BUFFER - 1) /\ BUFFER \in Nat /\ arg1[n] = NUL
  BY <1>1, Arg1Length
<1>4. /\ argc >= 2 /\ j <= n
      /\ \A k \in 0..(j - 1) : arg1[k] \in Digit
      /\ AllDigits(arg1) => pid = Results(arg1)[j]
  BY <1>1 DEF IInv, PidInv
<1>5. j \in Nat /\ pid \in Nat
  BY ArgumentsAssumption DEF IInv, TypeOK
<1> HIDE DEF n
<1>6. j \in 0..(n - 1)
  BY <1>1, <1>3, <1>4, <1>5, CharactersDiffer
<1>7. TypeOK'
  <2>1. pid' \in 0..(WORD - 1)
    BY <1>1, <1>5, AddDigitType
  <2>2. j' \in 0..BUFFER
    BY <1>1, <1>3, <1>6
  <2> QED BY <2>1, <2>2, <1>1 DEF IInv, TypeOK
<1>8. AllDigits(arg1) => pid' = Results(arg1)[j']
  <2> SUFFICES ASSUME AllDigits(arg1) PROVE pid' = Results(arg1)[j']
    OBVIOUS
  <2>1. Results(arg1)[j + 1] = AddDigit(Results(arg1)[j], arg1[j])
    <3>1. Length(arg1) \in Nat /\ j \in 0..(Length(arg1) - 1)
      BY <1>3, <1>6 DEF n
    <3> QED BY <3>1, ResultsIs
  <2> QED BY <2>1, <1>1, <1>4
<1>9. j' <= n
  BY <1>1, <1>3, <1>6
<1>10. \A k \in 0..(j' - 1) : arg1[k] \in Digit
  <2> TAKE k \in 0..(j' - 1)
  <2>1. k = j \/ k \in 0..(j - 1)
    BY <1>1, <1>5
  <2> QED BY <2>1, <1>1, <1>4
<1>11. PidInv'
  BY <1>1, <1>2, <1>4, <1>8, <1>9, <1>10 DEF PidInv, n
<1> QED BY <1>2, <1>7, <1>11 DEF IInv

\* The end of the digits.
LEMMA PidEndStep == ASSUME IInv, PidEnd PROVE IInv'
<1>1. /\ pc = "pid" /\ arg1[j] \notin Digit
      /\ pc' = IF pid = 0 \/ arg1[j] # NUL THEN "invalid" ELSE "valid"
      /\ UNCHANGED <<command, i, j, buf, w, argc, pid>>
  BY DEF PidEnd
<1>2. /\ SkipInv' /\ CopyInv' /\ ParsesFirstWords' /\ OverrunByLongWord'
      /\ arg1' = arg1 /\ Length(arg1)' = Length(arg1)
      /\ AllDigits(arg1)' = AllDigits(arg1) /\ Results(arg1)' = Results(arg1)
  BY <1>1, ParsedStays
<1>3. TypeOK'
  BY <1>1 DEF IInv, TypeOK
<1>4. PidInv'
  BY <1>1, <1>2 DEF IInv, PidInv
<1> QED BY <1>2, <1>3, <1>4 DEF IInv

\* The invariant is inductive.
LEMMA NextInv == IInv /\ [Next]_vars => IInv'
<1> SUFFICES ASSUME IInv, [Next]_vars PROVE IInv'
  OBVIOUS
<1>1. CASE UNCHANGED vars
  <2>1. UNCHANGED <<command, i, j, buf, w, argc, pid, pc>>
    BY <1>1 DEF vars
  <2>2. Starts' = Starts /\ Here' = Here /\ arg1' = arg1 /\ Parsed' = Parsed
    BY <2>1 DEF Starts, Here, arg1, Parsed
  <2>3. TypeOK'
    BY <2>1 DEF IInv, TypeOK
  <2>4. SkipInv'
    BY <2>1, <2>2 DEF IInv, SkipInv, FirstWords, HoldsWord
  <2>5. CopyInv'
    BY <2>1, <2>2 DEF IInv, CopyInv, FirstWords, HoldsWord
  <2>6. ParsesFirstWords' /\ OverrunByLongWord'
    BY <2>1, <2>2 DEF IInv, ParsesFirstWords, OverrunByLongWord, FirstWords, HoldsWord
  <2>7. PidInv'
    BY <2>1, <2>2 DEF IInv, PidInv, Length, AllDigits, Results
  <2> QED BY <2>3, <2>4, <2>5, <2>6, <2>7 DEF IInv
<1> QED BY <1>1, SkipSpaceStep, BeginWordStep, OverrunStep, CopyCharacterStep,
           EndWordStep, PidDigitStep, PidEndStep DEF Next

\* The invariant holds at every step of the loops.
THEOREM InductiveInvariant == Spec => []IInv
<1> QED BY InitInv, NextInv, PTL DEF Spec

\* The index never passes the line's NUL, the count never passes 3, and the pid
\* stays a uint32_t.
THEOREM TypeCorrect == Spec => []TypeOK
<1>1. IInv => TypeOK
  BY DEF IInv
<1> QED BY <1>1, InductiveInvariant, PTL

\* parse_arguments returns the first three words of any line, and their number.
THEOREM WordsParsed == Spec => []ParsesFirstWords
<1>1. IInv => ParsesFirstWords
  BY DEF IInv
<1> QED BY <1>1, InductiveInvariant, PTL

\* Only a word of at least BUFFER characters makes parse_arguments write behind
\* the end of a buffer.
THEOREM OnlyLongWordsOverrun == Spec => []OverrunByLongWord
<1>1. IInv => OverrunByLongWord
  BY DEF IInv
<1> QED BY <1>1, InductiveInvariant, PTL

\* The pid loop of pkill and pstatus and string_to_uint32 of pch accept the same
\* arguments, except 0, and read the same number from them.
THEOREM PidsAgree == Spec => []PidParsersAgree
<1>1. ASSUME IInv PROVE PidParsersAgree
  <2> SUFFICES ASSUME pc \in {"valid", "invalid"}
               PROVE  /\ pc = "valid" => string_to_uint32(arg1) = [ok |-> TRUE, out |-> pid] /\ pid # 0
                      /\ pc = "invalid" => ~string_to_uint32(arg1).ok \/ string_to_uint32(arg1).out = 0
    BY DEF PidParsersAgree
  <2> DEFINE n == Length(arg1)
             R == Results(arg1)
  <2>1. n \in 0..(BUFFER - 1) /\ BUFFER \in Nat /\ arg1[n] = NUL
        /\ \A k \in 0..(n - 1) : arg1[k] # NUL
    BY <1>1, Arg1Length
  <2>2. /\ j <= n
        /\ \A k \in 0..(j - 1) : arg1[k] \in Digit
        /\ AllDigits(arg1) => pid = R[j]
    BY <1>1 DEF IInv, PidInv
  <2>3. j \in Nat
    BY <1>1, ArgumentsAssumption DEF IInv, TypeOK
  <2>4. AllDigits(arg1) <=> \A k \in 0..(n - 1) : arg1[k] \in Digit
    BY DEF AllDigits
  <2>5. AllDigits(arg1) => R[0] = 0
    BY <2>1, ResultsIs
  <2>6. string_to_uint32(arg1) = IF n = 0 \/ ~AllDigits(arg1) THEN [ok |-> FALSE, out |-> 0]
                                 ELSE [ok |-> TRUE, out |-> R[n]]
    BY DEF string_to_uint32
  <2> HIDE DEF n, R
  <2>7. arg1[j] = NUL => j = n
    BY <2>1, <2>2, <2>3
  <2>8. j = n => AllDigits(arg1)
    BY <2>2, <2>4
  <2>9. CASE pc = "valid"
    <3>1. pid # 0 /\ arg1[j] = NUL
      BY <1>1, <2>9 DEF IInv, PidInv
    <3>2. j = n /\ AllDigits(arg1) /\ n # 0 /\ pid = R[n]
      BY <3>1, <2>2, <2>5, <2>7, <2>8
    <3> QED BY <2>9, <3>1, <3>2, <2>6
  <2>10. CASE pc = "invalid"
    <3>1. arg1[j] \notin Digit /\ (pid = 0 \/ arg1[j] # NUL)
      BY <1>1, <2>10 DEF IInv, PidInv
    <3>2. CASE arg1[j] = NUL
      <4>1. j = n /\ AllDigits(arg1) /\ R[n] = 0
        BY <3>1, <3>2, <2>2, <2>7, <2>8
      <4> QED BY <2>10, <4>1, <2>6
    <3>3. CASE arg1[j] # NUL
      <4>1. j \in 0..(n - 1)
        BY <3>3, <2>1, <2>2, <2>3
      <4>2. ~AllDigits(arg1)
        BY <4>1, <3>1, <2>4
      <4> QED BY <2>10, <4>2, <2>6
    <3> QED BY <3>2, <3>3
  <2> QED BY <2>9, <2>10
<1> QED BY <1>1, InductiveInvariant, PTL

\* Every step of the loops comes nearer to their end: the reason why Terminates
\* holds, a step being possible until then.
THEOREM LoopsShrink == Spec => LoopsProgress
<1> DEFINE Less == Left' < Left /\ {Left, Left'} \subseteq Nat
           line == BUFFER + Len(command) - i + 2 * (3 - w)
<1>1. ASSUME IInv, IInv', Next PROVE Less
  <2>1. /\ Len(command) \in Nat /\ i \in Nat /\ i <= Len(command) /\ w \in 1..3
        /\ j \in Nat /\ j <= BUFFER /\ BUFFER \in Nat \ {0}
    BY <1>1, ArgumentsAssumption DEF IInv, TypeOK
  <2>2. pc = "pid" => j < BUFFER
    <3>1. pc = "pid" => Length(arg1) \in 0..(BUFFER - 1) /\ j <= Length(arg1)
      BY <1>1, Arg1Length DEF IInv, PidInv
    <3> QED BY <3>1, <2>1
  <2>3. /\ pc = "skip" => Left = line + 2
        /\ pc = "copy" => Left = line + 1
        /\ pc = "pid" => Left = BUFFER - j
        /\ pc \in {"invalid", "valid", "usage", "overrun"} => Left = 0
    BY DEF Left
  <2>4. /\ pc' = "skip" => Left' = line' + 2
        /\ pc' = "copy" => Left' = line' + 1
        /\ pc' = "pid" => Left' = BUFFER - j'
        /\ pc' \in {"invalid", "valid", "usage", "overrun"} => Left' = 0
    BY DEF Left
  <2>5. line \in Nat /\ line >= BUFFER
    BY <2>1
  <2>6. pc' \in {"usage", "pid"} /\ j' = 0 => Left' \in Nat /\ Left' <= BUFFER
    BY <2>1, <2>4
  <2>7. CASE SkipSpace \/ CopyCharacter
    <3>1. pc' = pc /\ pc \in {"skip", "copy"} /\ i' = i + 1 /\ UNCHANGED <<command, w>>
      BY <2>7 DEF SkipSpace, CopyCharacter
    <3>2. i' <= Len(command)
      BY <1>1, <3>1 DEF IInv, TypeOK
    <3>3. line' = line - 1 /\ line' \in Nat
      BY <3>1, <3>2, <2>1
    <3> HIDE DEF line
    <3> QED BY <3>1, <3>3, <2>3, <2>4, <2>5
  <2>8. CASE BeginWord
    <3>1. pc = "skip" /\ UNCHANGED <<command, i, w>>
          /\ (pc' = "copy" \/ (pc' \in {"usage", "pid"} /\ j' = 0))
      BY <2>8 DEF BeginWord, Return
    <3>2. line' = line
      BY <3>1
    <3> HIDE DEF line
    <3> QED BY <3>1, <3>2, <2>1, <2>3, <2>4, <2>5, <2>6
  <2>9. CASE EndWord
    <3>1. pc = "copy" /\ UNCHANGED <<command, i>>
          /\ ((pc' = "skip" /\ w' = w + 1 /\ w < 3) \/ (pc' \in {"usage", "pid"} /\ j' = 0))
      BY <2>9 DEF EndWord, Return
    <3>2. pc' = "skip" => line' = line - 2 /\ line' \in Nat
      BY <3>1, <2>1
    <3> HIDE DEF line
    <3> QED BY <3>1, <3>2, <2>1, <2>3, <2>4, <2>5, <2>6
  <2>10. CASE Overrun
    <3>1. pc = "copy" /\ pc' = "overrun"
      BY <2>10 DEF Overrun
    <3> HIDE DEF line
    <3> QED BY <3>1, <2>3, <2>4, <2>5
  <2>11. CASE PidDigit
    <3>1. pc = "pid" /\ pc' = "pid" /\ j' = j + 1
      BY <2>11 DEF PidDigit
    <3> QED BY <3>1, <2>1, <2>2, <2>3, <2>4
  <2>12. CASE PidEnd
    <3>1. pc = "pid" /\ pc' \in {"invalid", "valid"}
      BY <2>12 DEF PidEnd
    <3> QED BY <3>1, <2>1, <2>2, <2>3, <2>4
  <2> QED BY <1>1, <2>7, <2>8, <2>9, <2>10, <2>11, <2>12 DEF Next
<1>2. IInv /\ IInv' /\ [Next]_vars => [Less]_vars
  BY <1>1
<1> HIDE DEF Less
<1>3. Spec => [][Less]_vars
  BY <1>2, InductiveInvariant, PTL DEF Spec
<1> QED BY <1>3 DEF Less, LoopsProgress
===============================================================================
