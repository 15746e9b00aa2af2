-------------------------- MODULE CommandTextProofs --------------------------
(***************************************************************************)
(* Proofs about CommandText, for texts of any length.  What its recursive  *)
(* functions compute is found by induction, stated of sets; that they are  *)
(* defined at all, that is, that a function satisfies their equation, is   *)
(* shown first.                                                            *)
(***************************************************************************)
EXTENDS CommandText, SequenceLemmas, FiniteSetTheorems

-----------------------------------------------------------------------------
\* The state machine only makes texts: all of them, of each kind.

TypeOK == kind \in DOMAIN Alphabet /\ text \in Seq(Alphabet[kind])

\* Every text is one of the kind's alphabet.
LEMMA TextInvariant == Spec => []TypeOK
<1>1. Init => TypeOK
  BY DEF Init, TypeOK
<1>2. TypeOK /\ [Next]_vars => TypeOK'
  <2>. SUFFICES ASSUME TypeOK, [Next]_vars
                PROVE  TypeOK'
    OBVIOUS
  <2>1. CASE Next
    BY <2>1 DEF Next, TypeOK
  <2>2. CASE UNCHANGED vars
    BY <2>2 DEF vars, TypeOK
  <2>. QED  BY <2>1, <2>2
<1>. QED  BY <1>1, <1>2, PTL DEF Spec

-----------------------------------------------------------------------------
(***************************************************************************)
(* Numbers.                                                                *)
(***************************************************************************)

\* A digit stands for a number below ten.
LEMMA DigitIsSmall ==
  ASSUME NEW x, IsDigit(x)
  PROVE  DigitValue(x) \in 0..9
<1>. DEFINE I == {i \in 1..Len(Digits) : Digits[i] = x}
<1>1. Len(Digits) = 10 /\ DOMAIN Digits = 1..10
  BY DEF Digits
<1>2. I \subseteq 1..10 /\ I # {}
  BY <1>1 DEF IsDigit, ToSet
<1>3. DigitValue(x) = Min(I) - 1
  BY <1>2 DEF DigitValue, SelectInSeq
<1>4. Min(I) \in I
  BY <1>2, MinIsLeast
<1>. QED  BY <1>2, <1>3, <1>4

\* The equations of Number.
LEMMA NumberUnfolds ==
  ASSUME NEW S, NEW s \in Seq(S), AllDigits(s)
  PROVE  \E value \in [0..Len(s) -> Nat] :
           /\ value[0] = 0
           /\ \A i \in 1..Len(s) : value[i] = 10 * value[i - 1] + DigitValue(s[i])
           /\ Number(s) = value[Len(s)]
<1>. DEFINE step == [i \in 1..Len(s) |-> [x \in Nat |-> 10 * x + DigitValue(s[i])]]
            IsNumber(f) ==
              f = [i \in 0..Len(s) |->
                     IF i = 0 THEN 0 ELSE 10 * f[i - 1] + DigitValue(s[i])]
<1>1. Len(s) \in Nat /\ DOMAIN s = 1..Len(s)
  OBVIOUS
<1>2. \A i \in 1..Len(s) : DigitValue(s[i]) \in Nat
  BY <1>1, DigitIsSmall DEF AllDigits
<1>3. step \in [1..Len(s) -> [Nat -> Nat]]
  BY <1>2
<1>4. PICK f : IsRecursive(f, Len(s), 0, step)
  <2>. HIDE DEF step
  <2>. QED  BY <1>1, RecursionExists
<1>5. \E g : IsNumber(g)
  <2>1. StepsWithin(step, Len(s), Nat)
    BY <1>3 DEF StepsWithin
  <2>2. \A i \in 0..Len(s) : f[i] \in Nat
    <3>. HIDE DEF step
    <3>. QED  BY <1>1, <1>4, <2>1, RecursionTyped
  <2>3. \A i \in 1..Len(s) : f[i] = 10 * f[i - 1] + DigitValue(s[i])
    <3>. TAKE i \in 1..Len(s)
    <3>1. f[i - 1] \in Nat
      BY <1>1, <2>2
    <3>. QED  BY <1>4, <3>1 DEF IsRecursive
  <2>4. f = [i \in 0..Len(s) |-> f[i]]
    <3>. HIDE DEF step
    <3>. QED  BY <1>4, Zenon DEF IsRecursive
  <2>5. f[0] = 0
    <3>. HIDE DEF step
    <3>. QED  BY <1>4, Zenon DEF IsRecursive
  <2>6. \A i \in 0..Len(s) :
          f[i] = IF i = 0 THEN 0 ELSE 10 * f[i - 1] + DigitValue(s[i])
    BY <1>1, <2>3, <2>5
  <2>7. IsNumber(f)
    BY <2>4, <2>6
  <2>. HIDE DEF IsNumber
  <2>. QED  BY <2>7
<1>6. PICK g : IsNumber(g) /\ Number(s) = g[Len(s)]
  BY <1>5 DEF Number
<1>7. /\ DOMAIN g = 0..Len(s)
      /\ g[0] = 0
      /\ \A i \in 1..Len(s) : g[i] = 10 * g[i - 1] + DigitValue(s[i])
  BY <1>1, <1>6
<1>8. \A i \in 0..Len(s) : g[i] \in Nat
  <2>. DEFINE Typed == {i \in Nat : g[i] \in Nat}
  <2>1. 0 \in Typed
    BY <1>7
  <2>2. ASSUME NEW i \in 1..Len(s), i - 1 \in Typed
        PROVE  i \in Typed
    BY <1>1, <1>2, <1>7, <2>2
  <2>. HIDE DEF Typed
  <2>3. \A i \in 0..Len(s) : i \in Typed
    BY <1>1, <2>1, <2>2, InductionUpTo
  <2>. QED  BY <2>3 DEF Typed
<1>9. g \in [0..Len(s) -> Nat]
  <2>. HIDE DEF IsNumber
  <2>1. g = [i \in 0..Len(s) |-> g[i]]
    BY <1>6 DEF IsNumber
  <2>. QED  BY <1>8, <2>1
<1>. QED  BY <1>6, <1>7, <1>9

\* What digits write is a number.
LEMMA NumberIsNat ==
  ASSUME NEW S, NEW s \in Seq(S), AllDigits(s)
  PROVE  Number(s) \in Nat
<1>1. Len(s) \in Nat
  OBVIOUS
<1>. QED  BY <1>1, NumberUnfolds

\* Three digits write at most 999.
LEMMA ShortNumberIsSmall ==
  ASSUME NEW S, NEW s \in Seq(S), AllDigits(s), Len(s) <= 3
  PROVE  Number(s) <= 999
<1>1. PICK value \in [0..Len(s) -> Nat] :
        /\ value[0] = 0
        /\ \A i \in 1..Len(s) : value[i] = 10 * value[i - 1] + DigitValue(s[i])
        /\ Number(s) = value[Len(s)]
  BY NumberUnfolds
<1>2. \A i \in 1..Len(s) : DigitValue(s[i]) \in 0..9
  BY DigitIsSmall DEF AllDigits
<1>3. Len(s) \in 0..3
  OBVIOUS
<1>4. ASSUME NEW i \in 1..Len(s)
      PROVE  /\ value[i - 1] \in Nat
             /\ value[i] <= 10 * value[i - 1] + 9
  <2>. DEFINE d == DigitValue(s[i])
  <2>1. i - 1 \in 0..Len(s)
    BY <1>3
  <2>2. value[i - 1] \in Nat
    BY <2>1
  <2>3. d \in 0..9 /\ value[i] = 10 * value[i - 1] + d
    BY <1>1, <1>2
  <2>. HIDE DEF d
  <2>. QED  BY <2>2, <2>3
<1>5. Len(s) >= 1 => value[1] <= 9
  BY <1>1, <1>3, <1>4
<1>6. Len(s) >= 2 => value[2] <= 99
  <2>1. Len(s) >= 2 => value[2 - 1] \in Nat /\ value[2] <= 10 * value[2 - 1] + 9
    BY <1>3, <1>4
  <2>. QED  BY <1>3, <1>5, <2>1
<1>7. Len(s) = 3 => value[3] <= 999
  <2>1. Len(s) = 3 => value[3 - 1] \in Nat /\ value[3] <= 10 * value[3 - 1] + 9
    BY <1>3, <1>4
  <2>. QED  BY <1>3, <1>6, <2>1
<1>8. Number(s) \in Nat
  BY NumberIsNat
<1>9. CASE Len(s) = 0
  BY <1>1, <1>9
<1>10. CASE Len(s) = 1
  BY <1>1, <1>5, <1>8, <1>10
<1>11. CASE Len(s) = 2
  BY <1>1, <1>6, <1>8, <1>11
<1>12. CASE Len(s) = 3
  BY <1>1, <1>7, <1>12
<1>. QED  BY <1>3, <1>9, <1>10, <1>11, <1>12

\* An int holds the numbers up to its greatest as they are.
LEMMA ToIntKeeps ==
  ASSUME NEW n \in Nat, n <= IntMax
  PROVE  ToInt(n) = n
<1>. DEFINE m == 2 * (IntMax + 1)
<1>1. IntMax \in Nat
  BY TextAssumption
<1>2. m \in Nat /\ n < m
  BY <1>1
<1>3. n % m = n
  <2>. HIDE DEF m
  <2>. QED  BY <1>2
<1>. QED  BY <1>1, <1>3 DEF ToInt

\* Without its sign a text of digits is no longer.
LEMMA UnsignedIsShorter ==
  ASSUME NEW S, NEW s \in Seq(S)
  PROVE  Unsigned(s) \in Seq(S) /\ Len(Unsigned(s)) <= Len(s)
BY DEF Unsigned

\* mode_Plus_L never sets a limit other than the one written.
THEOREM LimitsAreAsWritten == Spec => []LimitIsWhatIsWritten
<1>1. TypeOK => LimitIsWhatIsWritten
  <2>. SUFFICES ASSUME TypeOK, kind = "number"
                PROVE  LimitIsWhatIsWritten
    BY DEF LimitIsWhatIsWritten
  <2>. DEFINE s == Unsigned(text)
              written == Number(s)
  <2>1. text \in Seq(NumberChar)
    BY DEF TypeOK, Alphabet
  <2>2. s \in Seq(NumberChar) /\ Len(s) <= Len(text)
    BY <2>1, UnsignedIsShorter
  <2>3. CASE AllDigits(s) /\ Len(text) <= 3
    <3>1. Len(s) <= 3
      BY <2>1, <2>2, <2>3
    <3>2. written \in Nat /\ written <= 999
      BY <2>2, <2>3, <3>1, NumberIsNat, ShortNumberIsSmall
    <3>3. Atoi(text) = written
      BY <3>2, ToIntKeeps, TextAssumption DEF Atoi
    <3>4. LimitOf(text) = IF written > MaxClients THEN Refused ELSE written
      BY <2>3, <3>3 DEF LimitOf, TooLong
    <3>. QED  BY <2>3, <3>2, <3>4, TextAssumption DEF LimitIsWhatIsWritten
  <2>4. CASE ~AllDigits(s) \/ ~(Len(text) <= 3)
    <3>1. Len(text) \in Nat
      BY <2>1
    <3>2. LimitOf(text) = Refused
      BY <2>4, <3>1 DEF LimitOf, TooLong
    <3>. QED  BY <2>4, <3>2 DEF LimitIsWhatIsWritten
  <2>. QED  BY <2>3, <2>4
<1>. QED  BY <1>1, TextInvariant, PTL

\* checkPortisValid never takes a number for a port other than the one written.
THEOREM PortsAreAsWritten == Spec => []PortIsWhatIsWritten
<1>1. TypeOK => PortIsWhatIsWritten
  <2>. SUFFICES ASSUME TypeOK, kind = "number"
                PROVE  PortIsWhatIsWritten
    BY DEF PortIsWhatIsWritten
  <2>1. text \in Seq(NumberChar)
    BY DEF TypeOK, Alphabet
  <2>2. CASE AllDigits(text) /\ text # <<>> /\ Head(text) # "0"
    <3>1. Number(text) \in Nat
      BY <2>1, <2>2, NumberIsNat
    <3>2. CASE FitsInt(Number(text))
      <4>1. ToInt(Number(text)) = Number(text)
        BY <3>1, <3>2, ToIntKeeps DEF FitsInt
      <4>. QED  BY <2>2, <3>1, <3>2, <4>1, TextAssumption
                DEF PortIsWhatIsWritten, PortOf, FitsInt
    <3>3. CASE ~FitsInt(Number(text))
      <4>1. Number(text) \notin MinPort..MaxPort
        BY <3>1, <3>3, TextAssumption DEF FitsInt
      <4>. QED  BY <3>3, <4>1 DEF PortIsWhatIsWritten, PortOf
    <3>. QED  BY <3>2, <3>3
  <2>3. CASE ~(AllDigits(text) /\ text # <<>> /\ Head(text) # "0")
    BY <2>3 DEF PortIsWhatIsWritten, PortOf
  <2>. QED  BY <2>2, <2>3
<1>. QED  BY <1>1, TextInvariant, PTL

-----------------------------------------------------------------------------
(***************************************************************************)
(* Counting positions in a text.                                           *)
(***************************************************************************)

IsPositions(A) == \A j \in A : j \in Nat /\ j >= 1

\* The positions of A up to i.
UpTo(A, i) == {j \in A : j <= i}

Rank(A, i) == Cardinality(UpTo(A, i))

\* The number of positions of A up to i + 1, from that up to i.
LEMMA RankStep ==
  ASSUME NEW A, IsPositions(A), NEW i \in Nat
  PROVE  /\ Rank(A, 0) = 0
         /\ Rank(A, i) \in Nat
         /\ i + 1 \in A => Rank(A, i + 1) = Rank(A, i) + 1
         /\ i + 1 \notin A => Rank(A, i + 1) = Rank(A, i)
<1>0. \A j \in A : j \in Nat /\ j >= 1
  BY DEF IsPositions
<1>1. UpTo(A, 0) = {}
  BY <1>0 DEF UpTo
<1>2. IsFiniteSet(UpTo(A, i))
  <2>1. IsFiniteSet(1..i)
    BY FS_Interval
  <2>2. UpTo(A, i) \subseteq 1..i
    BY <1>0 DEF UpTo
  <2>. QED  BY <2>1, <2>2, FS_Subset
<1>3. i + 1 \in A => UpTo(A, i + 1) = UpTo(A, i) \cup {i + 1}
  <2>. SUFFICES ASSUME i + 1 \in A
                PROVE  \A j : j \in UpTo(A, i + 1) <=> j \in UpTo(A, i) \cup {i + 1}
    OBVIOUS
  <2>. QED  BY <1>0 DEF UpTo
<1>4. i + 1 \notin A => UpTo(A, i + 1) = UpTo(A, i)
  <2>. SUFFICES ASSUME i + 1 \notin A
                PROVE  \A j : j \in UpTo(A, i + 1) <=> j \in UpTo(A, i)
    OBVIOUS
  <2>. QED  BY <1>0 DEF UpTo
<1>5. i + 1 \notin UpTo(A, i)
  BY DEF UpTo
<1>6. Cardinality(UpTo(A, i)) \in Nat
  BY <1>2, FS_CardinalityType
<1>7. i + 1 \in A => Cardinality(UpTo(A, i + 1)) = Cardinality(UpTo(A, i)) + 1
  BY <1>2, <1>3, <1>5, FS_AddElement
<1>. QED  BY <1>1, <1>4, <1>6, <1>7, FS_EmptySet DEF Rank

\* A position of A has a rank of its own among those up to i.
LEMMA RankGrows ==
  ASSUME NEW A, IsPositions(A), NEW j \in A, NEW i \in Nat, j <= i
  PROVE  Rank(A, j) \in 1..Rank(A, i)
<1>. DEFINE S == {k \in Nat : k < j \/ Rank(A, j) <= Rank(A, k)}
<1>1. j \in Nat /\ j - 1 \in Nat
  BY DEF IsPositions
<1>2. Rank(A, j - 1) \in Nat /\ Rank(A, j) = Rank(A, j - 1) + 1
  <2>1. (j - 1) + 1 = j
    BY <1>1
  <2>. QED  BY <1>1, <2>1, RankStep
<1>3. \A k \in Nat : Rank(A, k) \in Nat
  BY RankStep
<1>4. 0 \in S
  BY <1>1
<1>5. ASSUME NEW k \in Nat, k \in S
      PROVE  k + 1 \in S
  <2>1. Rank(A, k + 1) >= Rank(A, k)
    <3>1. Rank(A, k + 1) = Rank(A, k) + 1 \/ Rank(A, k + 1) = Rank(A, k)
      BY RankStep
    <3>. QED  BY <1>3, <3>1
  <2>2. k + 1 < j \/ k + 1 = j \/ Rank(A, j) <= Rank(A, k)
    BY <1>1, <1>5
  <2>. QED  BY <1>1, <1>3, <2>1, <2>2
<1>. HIDE DEF S
<1>6. i \in S
  BY <1>4, <1>5, SetInduction
<1>. QED  BY <1>1, <1>2, <1>3, <1>6 DEF S

\* A position in front of others.
LEMMA RankBehind ==
  ASSUME NEW A, IsPositions(A), NEW k \in Nat, k >= 1, \A j \in A : j > k,
         NEW i \in Nat, i >= k
  PROVE  /\ Rank(A, k) = 0
         /\ Rank({k} \cup A, i) = Rank(A, i) + 1
<1>1. \A j \in A : j \in Nat /\ j >= 1
  BY DEF IsPositions
<1>2. UpTo(A, k) = {}
  BY <1>1 DEF UpTo
<1>3. IsFiniteSet(UpTo(A, i))
  <2>1. IsFiniteSet(1..i)
    BY FS_Interval
  <2>2. UpTo(A, i) \subseteq 1..i
    BY <1>1 DEF UpTo
  <2>. QED  BY <2>1, <2>2, FS_Subset
<1>4. UpTo({k} \cup A, i) = UpTo(A, i) \cup {k}
  <2>. SUFFICES \A j : j \in UpTo({k} \cup A, i) <=> j \in UpTo(A, i) \cup {k}
    OBVIOUS
  <2>. QED  BY <1>1 DEF UpTo
<1>5. k \notin UpTo(A, i)
  BY <1>1 DEF UpTo
<1>6. Cardinality(UpTo(A, i) \cup {k}) = Cardinality(UpTo(A, i)) + 1
  BY <1>3, <1>5, FS_AddElement
<1>. QED  BY <1>2, <1>4, <1>6, FS_EmptySet DEF Rank

\* No position, no rank.
LEMMA RankOfNone ==
  ASSUME NEW i
  PROVE  Rank({}, i) = 0
<1>1. UpTo({}, i) = {}
  BY DEF UpTo
<1>. QED  BY <1>1, FS_EmptySet DEF Rank

-----------------------------------------------------------------------------
(***************************************************************************)
(* The letters of MODE.                                                    *)
(***************************************************************************)

Sign == {"+", "-"}

Letter == {"o", "k", "l", "i", "t"}

\* What the loop of executeModes can hold, for letters of S.
LoopState(S) ==
  [prefix : Sign \cup {":"}, params : Seq(Nat),
   applied : Seq([letter : S, sign : Sign \cup {":"}, param : Nat])]

\* The sign in force changes at signs only.
LEMMA SignStep ==
  ASSUME NEW s, NEW i \in Nat \ {0}
  PROVE  /\ s[i] \in Sign => SignAt(s, i) = s[i]
         /\ s[i] \notin Sign => SignAt(s, i) = SignAt(s, i - 1)
<1>. DEFINE signs(m) == {j \in 1..m : s[j] \in Sign}
<1>1. ASSUME s[i] \in Sign
      PROVE  SignAt(s, i) = s[i]
  <2>1. i \in signs(i) /\ \A k \in signs(i) : k <= i
    BY <1>1
  <2>2. \A j \in signs(i) : (\A k \in signs(i) : k <= j) => j = i
    BY <2>1
  <2>3. (CHOOSE j \in signs(i) : \A k \in signs(i) : k <= j) = i
    <3>. HIDE DEF signs
    <3>. QED  BY <2>1, <2>2
  <2>. QED  BY <2>3 DEF SignAt, Sign
<1>2. ASSUME s[i] \notin Sign
      PROVE  SignAt(s, i) = SignAt(s, i - 1)
  <2>1. signs(i) = signs(i - 1)
    BY <1>2
  <2>. QED  BY <2>1 DEF SignAt, Sign
<1>. QED  BY <1>1, <1>2

\* One iteration, case by case.
LEMMA StepOfSign ==
  ASSUME NEW S, NEW loop \in LoopState(S), NEW x \in S, x \in Sign
  PROVE  /\ ModeStep(loop, x) \in LoopState(S)
         /\ ModeStep(loop, x).prefix = x
         /\ ModeStep(loop, x).params = loop.params
         /\ ModeStep(loop, x).applied = loop.applied
<1>1. x \in {"+", "-"} /\ ~TakesParam(x, loop.prefix)
  BY DEF Sign, TakesParam
<1>2. ModeStep(loop, x) = [loop EXCEPT !.prefix = x]
  BY <1>1 DEF ModeStep
<1>. QED  BY <1>2 DEF LoopState

\* Other characters, and letters that find no parameter left, do nothing.
LEMMA StepOfOther ==
  ASSUME NEW S, NEW loop \in LoopState(S), NEW x \in S, x \notin Sign,
         x \notin Letter \/ (TakesParam(x, loop.prefix) /\ loop.params = <<>>)
  PROVE  ModeStep(loop, x) = loop
BY DEF ModeStep, LoopState, Sign, Letter, TakesParam

\* A letter that takes a parameter takes the first that is left.
LEMMA StepWithParam ==
  ASSUME NEW S, NEW loop \in LoopState(S), NEW x \in S, x \in Letter,
         TakesParam(x, loop.prefix), loop.params # <<>>
  PROVE  /\ ModeStep(loop, x) \in LoopState(S)
         /\ ModeStep(loop, x).prefix = loop.prefix
         /\ ModeStep(loop, x).params = Tail(loop.params)
         /\ ModeStep(loop, x).applied =
              Append(loop.applied, [letter |-> x, sign |-> loop.prefix,
                                    param |-> Head(loop.params)])
<1>. DEFINE call == [letter |-> x, sign |-> loop.prefix, param |-> Head(loop.params)]
<1>1. x \notin {"+", "-"}
  BY DEF Letter
<1>2. ModeStep(loop, x) = [loop EXCEPT !.params = Tail(@),
                                       !.applied = Append(@, call)]
  BY <1>1 DEF ModeStep
<1>3. call \in [letter : S, sign : Sign \cup {":"}, param : Nat]
  BY DEF LoopState
<1>. HIDE DEF call
<1>4. Append(loop.applied, call) \in
        Seq([letter : S, sign : Sign \cup {":"}, param : Nat])
  BY <1>3 DEF LoopState
<1>5. Tail(loop.params) \in Seq(Nat)
  BY DEF LoopState
<1>6. /\ ModeStep(loop, x).prefix = loop.prefix
      /\ ModeStep(loop, x).params = Tail(loop.params)
      /\ ModeStep(loop, x).applied = Append(loop.applied, call)
      /\ ModeStep(loop, x) \in LoopState(S)
  BY <1>2, <1>4, <1>5 DEF LoopState
<1>. QED  BY <1>6 DEF call

\* A letter that takes none is applied without.
LEMMA StepWithoutParam ==
  ASSUME NEW S, NEW loop \in LoopState(S), NEW x \in S, x \in Letter,
         ~TakesParam(x, loop.prefix)
  PROVE  /\ ModeStep(loop, x) \in LoopState(S)
         /\ ModeStep(loop, x).prefix = loop.prefix
         /\ ModeStep(loop, x).params = loop.params
         /\ ModeStep(loop, x).applied =
              Append(loop.applied, [letter |-> x, sign |-> loop.prefix,
                                    param |-> 0])
<1>. DEFINE call == [letter |-> x, sign |-> loop.prefix, param |-> 0]
<1>1. x \notin {"+", "-"} /\ x \in {"i", "t", "k", "l"}
  BY DEF Letter, TakesParam
<1>2. ModeStep(loop, x) = [loop EXCEPT !.applied = Append(@, call)]
  BY <1>1 DEF ModeStep
<1>3. call \in [letter : S, sign : Sign \cup {":"}, param : Nat]
  BY DEF LoopState
<1>. HIDE DEF call
<1>4. Append(loop.applied, call) \in
        Seq([letter : S, sign : Sign \cup {":"}, param : Nat])
  BY <1>3 DEF LoopState
<1>5. /\ ModeStep(loop, x).prefix = loop.prefix
      /\ ModeStep(loop, x).params = loop.params
      /\ ModeStep(loop, x).applied = Append(loop.applied, call)
      /\ ModeStep(loop, x) \in LoopState(S)
  BY <1>2, <1>4 DEF LoopState
<1>. QED  BY <1>5 DEF call

\* The equations of ExecuteModes.
LEMMA LoopUnfolds ==
  ASSUME NEW S, NEW s \in Seq(S), Len(s) >= 2, s[1] \in Sign,
         NEW params \in Seq(Nat)
  PROVE  \E loop :
           /\ loop[0] = [prefix |-> ":", params |-> params, applied |-> <<>>]
           /\ \A i \in 0..Len(s) : loop[i] \in LoopState(S)
           /\ \A i \in 1..Len(s) : loop[i] = ModeStep(loop[i - 1], s[i])
           /\ ExecuteModes(s, params) = loop[Len(s)].applied
<1>. DEFINE start == [prefix |-> ":", params |-> params, applied |-> <<>>]
            step == [i \in 1..Len(s) |-> [l \in LoopState(S) |-> ModeStep(l, s[i])]]
            IsLoop(f) == f = [i \in 0..Len(s) |->
                                IF i = 0 THEN start ELSE ModeStep(f[i - 1], s[i])]
<1>1. Len(s) \in Nat /\ \A i \in 1..Len(s) : s[i] \in S
  OBVIOUS
<1>2. start \in LoopState(S)
  BY DEF LoopState
<1>3. ASSUME NEW l \in LoopState(S), NEW i \in 1..Len(s)
      PROVE  ModeStep(l, s[i]) \in LoopState(S)
  <2>1. s[i] \in S
    BY <1>1
  <2>2. CASE s[i] \in Sign
    BY <2>1, <2>2, StepOfSign
  <2>3. CASE s[i] \notin Sign /\ s[i] \notin Letter
    BY <2>1, <2>3, StepOfOther
  <2>4. CASE s[i] \in Letter /\ ~TakesParam(s[i], l.prefix)
    BY <2>1, <2>4, StepWithoutParam
  <2>5. CASE s[i] \in Letter /\ TakesParam(s[i], l.prefix) /\ l.params # <<>>
    BY <2>1, <2>5, StepWithParam
  <2>6. CASE /\ s[i] \in Letter /\ s[i] \notin Sign
             /\ TakesParam(s[i], l.prefix) /\ l.params = <<>>
    BY <2>1, <2>6, StepOfOther
  <2>. QED  BY <2>2, <2>3, <2>4, <2>5, <2>6
<1>. HIDE DEF start
<1>4. PICK f : IsRecursive(f, Len(s), start, step)
  <2>. HIDE DEF step
  <2>. QED  BY <1>1, RecursionExists
<1>5. IsLoop(f)
  <2>1. StepsWithin(step, Len(s), LoopState(S))
    BY <1>3 DEF StepsWithin
  <2>2. \A i \in 0..Len(s) : f[i] \in LoopState(S)
    <3>. HIDE DEF step
    <3>. QED  BY <1>1, <1>2, <1>4, <2>1, RecursionTyped
  <2>3. \A i \in 1..Len(s) : f[i] = ModeStep(f[i - 1], s[i])
    <3>. TAKE i \in 1..Len(s)
    <3>1. f[i - 1] \in LoopState(S)
      BY <1>1, <2>2
    <3>. QED  BY <1>4, <3>1 DEF IsRecursive
  <2>4. f = [i \in 0..Len(s) |-> f[i]]
    <3>. HIDE DEF step
    <3>. QED  BY <1>4, Zenon DEF IsRecursive
  <2>5. f[0] = start
    <3>. HIDE DEF step
    <3>. QED  BY <1>4, Zenon DEF IsRecursive
  <2>6. \A i \in 0..Len(s) :
          f[i] = IF i = 0 THEN start ELSE ModeStep(f[i - 1], s[i])
    BY <1>1, <2>3, <2>5
  <2>. QED  BY <2>4, <2>6
<1>6. PICK g : IsLoop(g) /\ ExecuteModes(s, params) = g[Len(s)].applied
  <2>1. \E g : IsLoop(g)
    BY <1>5
  <2>2. ~(Len(s) < 2 \/ s[1] \notin {"+", "-"})
    BY <1>1 DEF Sign
  <2>. QED  BY <2>1, <2>2 DEF ExecuteModes, start
<1>7. g[0] = start /\ \A i \in 1..Len(s) : g[i] = ModeStep(g[i - 1], s[i])
  BY <1>1, <1>6
<1>8. \A i \in 0..Len(s) : g[i] \in LoopState(S)
  <2>. DEFINE Typed == {i \in Nat : g[i] \in LoopState(S)}
  <2>1. 0 \in Typed
    BY <1>2, <1>7
  <2>2. ASSUME NEW i \in 1..Len(s), i - 1 \in Typed
        PROVE  i \in Typed
    BY <1>1, <1>3, <1>7, <2>2
  <2>. HIDE DEF Typed
  <2>3. \A i \in 0..Len(s) : i \in Typed
    BY <1>1, <2>1, <2>2, InductionUpTo
  <2>. QED  BY <2>3 DEF Typed
<1>. QED  BY <1>6, <1>7, <1>8 DEF start

\* The letters of s that need a parameter, those that lead to a call when n
\* parameters are given, and the call.
Need(s) == {j \in 1..Len(s) : NeedsParam(s, j)}

Called(s, n) ==
  {j \in 1..Len(s) : s[j] \in Letter /\ (NeedsParam(s, j) => Rank(Need(s), j) <= n)}

CallAt(s, j) ==
  [letter |-> s[j], sign |-> SignAt(s, j),
   param |-> IF NeedsParam(s, j) THEN Rank(Need(s), j) ELSE 0]

\* What the loop has done after i characters of s.
LoopInv(loop, S, s, n, i) ==
  /\ loop \in LoopState(S)
  /\ i > 0 => loop.prefix = SignAt(s, i)
  /\ Len(loop.params) = IF Rank(Need(s), i) < n THEN n - Rank(Need(s), i) ELSE 0
  /\ \A k \in 1..Len(loop.params) : loop.params[k] = Rank(Need(s), i) + k
  /\ Len(loop.applied) = Rank(Called(s, n), i)
  /\ \A j \in Called(s, n) :
       j <= i => loop.applied[Rank(Called(s, n), j)] = CallAt(s, j)

\* One more character keeps that true.
LEMMA LoopStep ==
  ASSUME NEW S, NEW s \in Seq(S), s[1] \in Sign, NEW n \in Nat,
         NEW i \in Nat, i + 1 <= Len(s),
         NEW loop, LoopInv(loop, S, s, n, i)
  PROVE  LoopInv(ModeStep(loop, s[i + 1]), S, s, n, i + 1)
<1>. DEFINE m == i + 1
            x == s[m]
            next == ModeStep(loop, x)
            N == Need(s)
            C == Called(s, n)
<1>1. Len(s) \in Nat /\ m \in 1..Len(s) /\ m - 1 = i /\ x \in S
  OBVIOUS
<1>2. IsPositions(N) /\ IsPositions(C)
  BY DEF IsPositions, Need, Called
<1>3. Rank(N, i) \in Nat /\ Rank(C, i) \in Nat
  BY <1>2, RankStep
<1>4. m \in N <=> NeedsParam(s, m)
  BY <1>1 DEF Need
<1>5. m \in C <=> x \in Letter /\ (NeedsParam(s, m) => Rank(N, m) <= n)
  BY <1>1 DEF Called
<1>6. /\ m \in N => Rank(N, m) = Rank(N, i) + 1
      /\ m \notin N => Rank(N, m) = Rank(N, i)
      /\ m \in C => Rank(C, m) = Rank(C, i) + 1
      /\ m \notin C => Rank(C, m) = Rank(C, i)
  BY <1>2, RankStep
<1>7. /\ x \in Sign => SignAt(s, m) = x
      /\ x \notin Sign => SignAt(s, m) = SignAt(s, i) /\ i > 0
  <2>1. m \in Nat \ {0}
    OBVIOUS
  <2>2. x \notin Sign => i > 0
    BY <1>1
  <2>. QED  BY <1>1, <2>1, <2>2, SignStep
<1>8. x \in Letter => x \notin Sign
  BY DEF Letter, Sign
<1>9. /\ x \in Letter => (NeedsParam(s, m) <=> TakesParam(x, loop.prefix))
      /\ x \notin Letter => ~NeedsParam(s, m)
  BY <1>7, <1>8 DEF LoopInv, NeedsParam, TakesParam, Letter
<1>10. ASSUME NEW j \in C, j <= i
       PROVE  Rank(C, j) \in 1..Len(loop.applied)
  BY <1>2, <1>10, RankGrows DEF LoopInv
<1>11. \A j \in C : j <= m => j <= i \/ j = m
  BY <1>2 DEF IsPositions
<1>. HIDE DEF m, x, next, N, C
<1>12. ASSUME m \in C, NEW a, a = Append(loop.applied, CallAt(s, m))
       PROVE  /\ Len(a) = Rank(C, m)
              /\ \A j \in C : j <= m => a[Rank(C, j)] = CallAt(s, j)
  <2>. DEFINE l == loop.applied
              call == CallAt(s, m)
  <2>1. l \in Seq([letter : S, sign : Sign \cup {":"}, param : Nat])
    BY DEF LoopInv, LoopState
  <2>2. Len(l) = Rank(C, i) /\ \A j \in C : j <= i => l[Rank(C, j)] = CallAt(s, j)
    BY DEF LoopInv, C
  <2>. HIDE DEF l, call
  <2>3. /\ Len(a) = Len(l) + 1
        /\ a[Len(l) + 1] = call
        /\ \A k \in 1..Len(l) : a[k] = l[k]
    BY <1>12, <2>1 DEF l, call
  <2>4. Len(a) = Rank(C, m)
    BY <1>6, <1>12, <2>2, <2>3
  <2>5. \A j \in C : j <= i => a[Rank(C, j)] = CallAt(s, j)
    BY <1>10, <2>2, <2>3 DEF l
  <2>6. a[Rank(C, m)] = CallAt(s, m)
    BY <2>3, <2>4 DEF call
  <2>. QED  BY <1>11, <2>4, <2>5, <2>6
<1>13. CASE x \in Sign
  <2>1. m \notin N /\ m \notin C
    BY <1>4, <1>5, <1>8, <1>9, <1>13
  <2>2. /\ next \in LoopState(S) /\ next.prefix = x
        /\ next.params = loop.params /\ next.applied = loop.applied
    BY <1>1, <1>13, StepOfSign DEF LoopInv, next
  <2>. QED  BY <1>6, <1>7, <1>11, <1>13, <2>1, <2>2
            DEF LoopInv, m, x, next, N, C
<1>14. CASE x \notin Sign /\ x \notin Letter
  <2>1. m \notin N /\ m \notin C
    BY <1>4, <1>5, <1>9, <1>14
  <2>2. next = loop
    BY <1>1, <1>14, StepOfOther DEF LoopInv, next
  <2>. QED  BY <1>6, <1>7, <1>11, <1>14, <2>1, <2>2
            DEF LoopInv, m, x, next, N, C
<1>15. CASE x \in Letter /\ ~TakesParam(x, loop.prefix)
  <2>. DEFINE call == [letter |-> x, sign |-> loop.prefix, param |-> 0]
  <2>1. m \notin N /\ m \in C
    BY <1>4, <1>5, <1>9, <1>15
  <2>2. /\ next \in LoopState(S) /\ next.prefix = loop.prefix
        /\ next.params = loop.params /\ next.applied = Append(loop.applied, call)
    BY <1>1, <1>15, StepWithoutParam DEF LoopInv, next
  <2>3. call = CallAt(s, m)
    BY <1>4, <1>7, <1>8, <1>15, <2>1 DEF LoopInv, CallAt, x
  <2>. HIDE DEF call
  <2>4. /\ Len(next.applied) = Rank(C, m)
        /\ \A j \in C : j <= m => next.applied[Rank(C, j)] = CallAt(s, j)
    BY <1>12, <2>1, <2>2, <2>3
  <2>. QED  BY <1>6, <1>7, <1>8, <1>15, <2>1, <2>2, <2>4
            DEF LoopInv, m, x, next, N, C
<1>16. CASE /\ x \in Letter /\ TakesParam(x, loop.prefix)
            /\ loop.params # <<>>
  <2>. DEFINE p == loop.params
              call == [letter |-> x, sign |-> loop.prefix, param |-> Head(p)]
  <2>1. m \in N
    BY <1>4, <1>9, <1>16
  <2>2. p \in Seq(Nat) /\ p # <<>>
    BY <1>16 DEF LoopInv, LoopState
  <2>3. /\ Len(p) = IF Rank(N, i) < n THEN n - Rank(N, i) ELSE 0
        /\ \A k \in 1..Len(p) : p[k] = Rank(N, i) + k
    BY DEF LoopInv, N
  <2>4. /\ next \in LoopState(S) /\ next.prefix = loop.prefix
        /\ next.params = Tail(p) /\ next.applied = Append(loop.applied, call)
    BY <1>1, <1>16, StepWithParam DEF LoopInv, next
  <2>. HIDE DEF p
  <2>5. /\ Len(p) \in Nat \ {0}
        /\ Head(p) = p[1]
        /\ Tail(p) \in Seq(Nat) /\ Len(Tail(p)) = Len(p) - 1
        /\ \A k \in 1..Len(Tail(p)) : Tail(p)[k] = p[k + 1]
    BY <2>2
  <2>6. Head(p) = Rank(N, m) /\ Rank(N, m) <= n
    <3>1. p[1] = Rank(N, i) + 1
      BY <2>3, <2>5
    <3>2. Rank(N, i) < n
      BY <2>3, <2>5
    <3>. QED  BY <1>3, <1>6, <2>1, <2>5, <3>1, <3>2
  <2>7. m \in C
    BY <1>5, <1>16, <2>6
  <2>8. call = CallAt(s, m)
    BY <1>4, <1>7, <1>8, <1>16, <2>1, <2>6 DEF LoopInv, CallAt, x, N
  <2>. HIDE DEF call
  <2>9. /\ Len(next.applied) = Rank(C, m)
        /\ \A j \in C : j <= m => next.applied[Rank(C, j)] = CallAt(s, j)
    BY <1>12, <2>4, <2>7, <2>8
  <2>10. /\ Len(next.params) = IF Rank(N, m) < n THEN n - Rank(N, m) ELSE 0
         /\ \A k \in 1..Len(next.params) : next.params[k] = Rank(N, m) + k
    <3>1. Len(p) = n - Rank(N, i) /\ Rank(N, m) = Rank(N, i) + 1
      BY <1>3, <1>6, <2>1, <2>3, <2>5
    <3>2. Len(next.params) = n - Rank(N, m)
      BY <1>3, <2>4, <2>5, <3>1
    <3>3. ASSUME NEW k \in 1..Len(next.params)
          PROVE  next.params[k] = Rank(N, m) + k
      <4>1. k + 1 \in 1..Len(p)
        BY <2>4, <2>5
      <4>2. p[k + 1] = Rank(N, i) + (k + 1)
        BY <2>3, <4>1
      <4>. QED  BY <1>3, <2>4, <2>5, <3>1, <4>2
    <3>. QED  BY <1>3, <2>6, <3>1, <3>2, <3>3
  <2>. QED  BY <1>6, <1>7, <1>8, <1>16, <2>1, <2>4, <2>9, <2>10
            DEF LoopInv, m, x, next, N, C
<1>17. CASE /\ x \in Letter /\ TakesParam(x, loop.prefix)
            /\ loop.params = <<>>
  <2>1. m \in N
    BY <1>4, <1>9, <1>17
  <2>2. n <= Rank(N, i)
    <3>1. Len(loop.params) = 0
      BY <1>17
    <3>2. Len(loop.params) = IF Rank(N, i) < n THEN n - Rank(N, i) ELSE 0
      BY DEF LoopInv, N
    <3>. QED  BY <1>3, <3>1, <3>2
  <2>3. m \notin C /\ ~(Rank(N, m) < n)
    BY <1>3, <1>4, <1>5, <1>6, <2>1, <2>2
  <2>4. next = loop
    BY <1>1, <1>8, <1>17, StepOfOther DEF LoopInv, next
  <2>5. Len(next.params) = 0
    BY <1>17, <2>4
  <2>6. /\ next \in LoopState(S)
        /\ next.prefix = SignAt(s, m)
        /\ Len(next.applied) = Rank(C, m)
        /\ \A j \in C : j <= m => next.applied[Rank(C, j)] = CallAt(s, j)
    BY <1>6, <1>7, <1>8, <1>11, <1>17, <2>3, <2>4 DEF LoopInv, C
  <2>. QED  BY <2>3, <2>5, <2>6 DEF LoopInv, m, x, next, N, C
<1>. QED  BY <1>13, <1>14, <1>15, <1>16, <1>17 DEF m, x, next

\* executeModes gives every letter of MODE the parameter that is meant for it,
\* for mode strings of any length and any number of parameters.
THEOREM ParametersGoInOrder == Spec => []ParametersInOrder
<1>1. TypeOK => ParametersInOrder
  <2>. SUFFICES ASSUME TypeOK, kind = "modes", Len(text) >= 2, Head(text) \in Sign,
                       NEW n \in 0..MaxParams
                PROVE  LET place(i) == Cardinality({j \in 1..i : NeedsParam(text, j)})
                           called == {i \in DOMAIN text :
                                        /\ text[i] \in Letter
                                        /\ NeedsParam(text, i) => place(i) <= n}
                           calls == ExecuteModes(text, [j \in 1..n |-> j])
                       IN  /\ Len(calls) = Cardinality(called)
                           /\ \A i \in called :
                                calls[Cardinality({j \in called : j <= i})] =
                                  [letter |-> text[i],
                                   sign |-> SignAt(text, i),
                                   param |-> IF NeedsParam(text, i)
                                             THEN place(i) ELSE 0]
    BY DEF ParametersInOrder, Sign, Letter
  <2>. DEFINE params == [j \in 1..n |-> j]
              N == Need(text)
              C == Called(text, n)
              calls == ExecuteModes(text, params)
  <2>1. text \in Seq(ModeChar) /\ text[1] \in Sign
    BY DEF TypeOK, Alphabet
  <2>2. Len(text) \in Nat /\ n \in Nat /\ DOMAIN text = 1..Len(text)
    BY <2>1, TextAssumption
  <2>3. params \in Seq(Nat) /\ Len(params) = n /\ \A k \in 1..n : params[k] = k
    BY <2>2
  <2>. HIDE DEF params
  <2>4. PICK loop :
          /\ loop[0] = [prefix |-> ":", params |-> params, applied |-> <<>>]
          /\ \A i \in 0..Len(text) : loop[i] \in LoopState(ModeChar)
          /\ \A i \in 1..Len(text) : loop[i] = ModeStep(loop[i - 1], text[i])
          /\ calls = loop[Len(text)].applied
    BY <2>1, <2>3, LoopUnfolds, ZenonT(60)
  <2>5. IsPositions(N) /\ IsPositions(C)
    BY DEF IsPositions, Need, Called
  <2>6. LoopInv(loop[0], ModeChar, text, n, 0)
    <3>1. Rank(N, 0) = 0 /\ Rank(C, 0) = 0
      BY <2>5, RankStep
    <3>2. \A j \in C : ~(j <= 0)
      BY <2>5 DEF IsPositions
    <3>3. loop[0] \in LoopState(ModeChar)
      BY <2>2, <2>4
    <3>. QED  BY <2>2, <2>3, <2>4, <3>1, <3>2, <3>3 DEF LoopInv
  <2>7. LoopInv(loop[Len(text)], ModeChar, text, n, Len(text))
    <3>. DEFINE Done == {i \in Nat : LoopInv(loop[i], ModeChar, text, n, i)}
    <3>1. 0 \in Done
      BY <2>6
    <3>2. ASSUME NEW i \in 1..Len(text), i - 1 \in Done
          PROVE  i \in Done
      <4>1. i - 1 \in Nat /\ (i - 1) + 1 = i /\ i <= Len(text)
        BY <2>2
      <4>2. loop[i] = ModeStep(loop[i - 1], text[(i - 1) + 1])
        BY <2>4, <4>1
      <4>3. LoopInv(loop[i], ModeChar, text, n, (i - 1) + 1)
        BY <2>1, <2>2, <3>2, <4>1, <4>2, LoopStep
      <4>. QED  BY <4>1, <4>3
    <3>. HIDE DEF Done
    <3>3. \A i \in 0..Len(text) : i \in Done
      BY <2>2, <3>1, <3>2, InductionUpTo
    <3>. QED  BY <2>2, <3>3 DEF Done
  <2>. HIDE DEF N, C, calls
  <2>8. Len(calls) = Rank(C, Len(text))
        /\ \A j \in C : calls[Rank(C, j)] = CallAt(text, j)
    <3>1. \A j \in C : j <= Len(text)
      BY DEF C, Called
    <3>. QED  BY <2>4, <2>7, <3>1 DEF LoopInv, C
  <2>9. \A i \in 1..Len(text) :
          Cardinality({j \in 1..i : NeedsParam(text, j)}) = Rank(N, i)
    <3>. TAKE i \in 1..Len(text)
    <3>1. {j \in 1..i : NeedsParam(text, j)} = UpTo(N, i)
      BY <2>2 DEF UpTo, N, Need
    <3>. QED  BY <3>1 DEF Rank
  <2>10. C = {i \in DOMAIN text :
                /\ text[i] \in Letter
                /\ NeedsParam(text, i) =>
                     Cardinality({j \in 1..i : NeedsParam(text, j)}) <= n}
    BY <2>2, <2>9 DEF C, Called, N
  <2>11. Cardinality(C) = Rank(C, Len(text))
    <3>1. C = UpTo(C, Len(text))
      BY <2>2 DEF UpTo, C, Called
    <3>. QED  BY <3>1 DEF Rank
  <2>12. \A i \in C : Cardinality({j \in C : j <= i}) = Rank(C, i)
    BY DEF Rank, UpTo
  <2>13. \A i \in C :
           calls[Cardinality({j \in C : j <= i})] =
             [letter |-> text[i], sign |-> SignAt(text, i),
              param |-> IF NeedsParam(text, i)
                        THEN Cardinality({j \in 1..i : NeedsParam(text, j)})
                        ELSE 0]
    <3>. TAKE i \in C
    <3>1. i \in 1..Len(text)
      BY DEF C, Called
    <3>. QED  BY <2>8, <2>9, <2>12, <3>1 DEF CallAt, N
  <2>. QED  BY <2>8, <2>10, <2>11, <2>13 DEF calls, params
<1>. QED  BY <1>1, TextInvariant, PTL

-----------------------------------------------------------------------------
(***************************************************************************)
(* Lines.                                                                  *)
(***************************************************************************)

\* The text from p on.
From(s, p) == SubSeq(s, p, Len(s))

\* k is the first place from p on with a character of T, or the end.
IsStop(s, T, p, k) ==
  /\ k \in p..(Len(s) + 1)
  /\ \A j \in p..(k - 1) : s[j] \notin T
  /\ k <= Len(s) => s[k] \in T

NonBlank == {x \in Char : x \notin Blank}

\* There is such a place for every set T.
LEMMA StopExists ==
  ASSUME NEW S, NEW s \in Seq(S), NEW T, NEW p \in 1..(Len(s) + 1)
  PROVE  \E k : IsStop(s, T, p, k)
<1>. DEFINE I == {j \in p..Len(s) : s[j] \in T}
<1>1. Len(s) \in Nat
  OBVIOUS
<1>2. CASE I = {}
  <2>1. IsStop(s, T, p, Len(s) + 1)
    BY <1>1, <1>2 DEF IsStop
  <2>. QED  BY <2>1
<1>3. CASE I # {}
  <2>1. I \subseteq Nat
    BY <1>1
  <2>2. Min(I) \in I /\ \A j \in I : Min(I) <= j
    BY <1>3, <2>1, MinIsLeast
  <2>. DEFINE k == Min(I)
  <2>3. k \in p..Len(s) /\ s[k] \in T
    BY <2>2
  <2>4. \A j \in p..(k - 1) : s[j] \notin T
    <3>. SUFFICES ASSUME NEW j \in p..(k - 1), s[j] \in T
                  PROVE  FALSE
      OBVIOUS
    <3>1. j \in I
      BY <1>1, <2>3
    <3>. HIDE DEF I
    <3>2. k <= j
      BY <2>2, <3>1
    <3>. QED  BY <1>1, <2>3, <3>2
  <2>. HIDE DEF k
  <2>5. IsStop(s, T, p, k)
    BY <1>1, <2>3, <2>4 DEF IsStop
  <2>. QED  BY <2>5
<1>. QED  BY <1>2, <1>3

\* The text from p on, place by place.
LEMMA FromProperties ==
  ASSUME NEW S, NEW s \in Seq(S), NEW p \in 1..(Len(s) + 1)
  PROVE  /\ From(s, p) \in Seq(S)
         /\ Len(From(s, p)) = Len(s) + 1 - p
         /\ \A i \in 1..(Len(s) + 1 - p) : From(s, p)[i] = s[p + i - 1]
<1>1. \A i \in p..Len(s) : s[i] \in S
  OBVIOUS
<1>2. p \in Int /\ Len(s) \in Int
  OBVIOUS
<1>. QED  BY <1>1, <1>2, SubSeqProperties DEF From

\* A part of it is a part of the text.
LEMMA PartOfFrom ==
  ASSUME NEW S, NEW s \in Seq(S), NEW p \in 1..(Len(s) + 1),
         NEW a \in 1..(Len(s) + 2 - p), NEW b \in 0..(Len(s) + 1 - p)
  PROVE  SubSeq(From(s, p), a, b) = SubSeq(s, p + a - 1, p + b - 1)
<1>. DEFINE t == From(s, p)
            u == SubSeq(t, a, b)
            v == SubSeq(s, p + a - 1, p + b - 1)
<1>1. /\ t \in Seq(S) /\ Len(t) = Len(s) + 1 - p
      /\ \A i \in 1..(Len(s) + 1 - p) : t[i] = s[p + i - 1]
  BY FromProperties
<1>2. Len(s) \in Nat
  OBVIOUS
<1>. HIDE DEF t
<1>3. \A i \in a..b : t[i] \in S
  BY <1>1, <1>2
<1>4. \A i \in (p + a - 1)..(p + b - 1) : s[i] \in S
  BY <1>2
<1>5. /\ u \in Seq(S) /\ Len(u) = IF a <= b THEN b - a + 1 ELSE 0
      /\ \A i \in 1..(b - a + 1) : u[i] = t[a + i - 1]
  BY <1>2, <1>3, SubSeqProperties
<1>6. /\ v \in Seq(S) /\ Len(v) = IF a <= b THEN b - a + 1 ELSE 0
      /\ \A i \in 1..(b - a + 1) : v[i] = s[p + a - 1 + i - 1]
  <2>. DEFINE m == p + a - 1
              n == p + b - 1
  <2>1. m \in Int /\ n \in Int /\ n - m + 1 = b - a + 1 /\ (m <= n <=> a <= b)
    BY <1>2
  <2>. HIDE DEF m, n
  <2>2. /\ SubSeq(s, m, n) \in Seq(S)
        /\ Len(SubSeq(s, m, n)) = IF m <= n THEN n - m + 1 ELSE 0
        /\ \A i \in 1..(n - m + 1) : SubSeq(s, m, n)[i] = s[m + i - 1]
    BY <1>4, <2>1, SubSeqProperties DEF m, n
  <2>. QED  BY <2>1, <2>2 DEF m, n
<1>. HIDE DEF u, v
<1>7. \A i \in 1..Len(u) : u[i] = v[i]
  <2>. SUFFICES ASSUME NEW i \in 1..Len(u)
                PROVE  u[i] = v[i]
    OBVIOUS
  <2>1. a <= b /\ i \in 1..(b - a + 1)
    BY <1>5
  <2>2. a + i - 1 \in 1..(Len(s) + 1 - p)
    BY <1>2, <2>1
  <2>3. t[a + i - 1] = s[p + (a + i - 1) - 1]
    BY <1>1, <2>2
  <2>4. p + (a + i - 1) - 1 = p + a - 1 + i - 1
    BY <1>2
  <2>. QED  BY <1>5, <1>6, <2>1, <2>3, <2>4
<1>8. u = v
  BY <1>5, <1>6, <1>7, SeqEqual
<1>. QED  BY <1>8 DEF t, u, v

\* Until reads up to the stop.
LEMMA UntilStops ==
  ASSUME NEW S, NEW s \in Seq(S), NEW T, NEW p \in 1..(Len(s) + 1),
         NEW k, IsStop(s, T, p, k)
  PROVE  Until(From(s, p), T) = SubSeq(s, p, k - 1)
<1>. DEFINE t == From(s, p)
            I == {i \in 1..Len(t) : t[i] \in T}
<1>1. /\ t \in Seq(S) /\ Len(t) = Len(s) + 1 - p
      /\ \A i \in 1..(Len(s) + 1 - p) : t[i] = s[p + i - 1]
  BY FromProperties
<1>2. Len(s) \in Nat /\ k \in p..(Len(s) + 1)
  BY DEF IsStop
<1>. HIDE DEF t
<1>3. CASE k = Len(s) + 1
  <2>1. I = {}
    <3>. SUFFICES ASSUME NEW i \in 1..Len(t), t[i] \in T
                  PROVE  FALSE
      OBVIOUS
    <3>1. p + i - 1 \in p..(k - 1) /\ t[i] = s[p + i - 1]
      BY <1>1, <1>2, <1>3
    <3>. QED  BY <3>1 DEF IsStop
  <2>2. Until(t, T) = t
    BY <2>1 DEF Until, SelectInSeq
  <2>3. k - 1 = Len(s)
    BY <1>2, <1>3
  <2>. QED  BY <2>2, <2>3 DEF t, From
<1>4. CASE k <= Len(s)
  <2>. DEFINE m == k - p + 1
  <2>1. m \in 1..Len(t) /\ t[m] = s[k] /\ s[k] \in T
    <3>1. m \in 1..Len(t) /\ p + m - 1 = k
      BY <1>1, <1>2, <1>4
    <3>. QED  BY <1>1, <1>4, <3>1 DEF IsStop
  <2>2. m \in I
    BY <2>1
  <2>3. ASSUME NEW j \in I
        PROVE  j \in Nat /\ m <= j
    <3>1. j \in 1..Len(t) /\ t[j] \in T
      OBVIOUS
    <3>. SUFFICES ASSUME j < m PROVE FALSE
      BY <2>1, <3>1
    <3>2. p + j - 1 \in p..(k - 1) /\ t[j] = s[p + j - 1]
      BY <1>1, <1>2, <3>1
    <3>. QED  BY <3>1, <3>2 DEF IsStop
  <2>. HIDE DEF I
  <2>4. Min(I) = m
    <3>. HIDE DEF m
    <3>. QED  BY <2>2, <2>3, MinIs
  <2>5. Until(t, T) = SubSeq(t, 1, m - 1)
    <3>1. m # 0 /\ I # {}
      BY <2>1, <2>2
    <3>2. Until(t, T) = IF Min(I) = 0 THEN t ELSE SubSeq(t, 1, Min(I) - 1)
      BY <3>1 DEF Until, SelectInSeq, I
    <3>. QED  BY <2>4, <3>1, <3>2
  <2>6. m - 1 \in 0..(Len(s) + 1 - p) /\ 1 \in 1..(Len(s) + 2 - p)
        /\ p + 1 - 1 = p /\ p + (m - 1) - 1 = k - 1
    BY <1>1, <1>2, <1>4
  <2>. HIDE DEF m
  <2>. DEFINE b == m - 1
  <2>. HIDE DEF b
  <2>7. SubSeq(t, 1, b) = SubSeq(s, p, k - 1)
    <3>1. \A a \in 1..(Len(s) + 2 - p), c \in 0..(Len(s) + 1 - p) :
            SubSeq(t, a, c) = SubSeq(s, p + a - 1, p + c - 1)
      BY PartOfFrom, ZenonT(60) DEF t
    <3>. QED  BY <2>6, <3>1 DEF b
  <2>. QED  BY <2>5, <2>6, <2>7 DEF t, b
<1>. QED  BY <1>2, <1>3, <1>4

\* SkipBlanks goes on to the next character that is none.
LEMMA SkipStops ==
  ASSUME NEW s \in Seq(Char), NEW p \in 1..(Len(s) + 1),
         NEW k, IsStop(s, NonBlank, p, k)
  PROVE  SkipBlanks(From(s, p)) = From(s, k)
<1>. DEFINE t == From(s, p)
            I == {i \in 1..Len(t) : t[i] \notin Blank}
<1>1. /\ t \in Seq(Char) /\ Len(t) = Len(s) + 1 - p
      /\ \A i \in 1..(Len(s) + 1 - p) : t[i] = s[p + i - 1]
  BY FromProperties
<1>2. Len(s) \in Nat /\ k \in p..(Len(s) + 1)
  BY DEF IsStop
<1>3. \A i \in 1..Len(t) : t[i] \in NonBlank <=> t[i] \notin Blank
  BY <1>1 DEF NonBlank
<1>. HIDE DEF t
<1>4. CASE k = Len(s) + 1
  <2>1. I = {}
    <3>. SUFFICES ASSUME NEW i \in 1..Len(t), t[i] \notin Blank
                  PROVE  FALSE
      OBVIOUS
    <3>1. p + i - 1 \in p..(k - 1) /\ t[i] = s[p + i - 1]
      BY <1>1, <1>2, <1>4
    <3>. QED  BY <1>3, <3>1 DEF IsStop
  <2>2. SkipBlanks(t) = <<>>
    BY <2>1 DEF SkipBlanks, SelectInSeq
  <2>3. From(s, k) = <<>>
    <3>1. k \in Int /\ Len(s) \in Int /\ Len(s) < k
      BY <1>2, <1>4
    <3>. QED  BY <3>1, SubSeqEmpty DEF From
  <2>. QED  BY <2>2, <2>3 DEF t
<1>5. CASE k <= Len(s)
  <2>. DEFINE m == k - p + 1
  <2>1. m \in 1..Len(t) /\ t[m] = s[k] /\ t[m] \notin Blank
    <3>1. m \in 1..Len(t) /\ p + m - 1 = k
      BY <1>1, <1>2, <1>5
    <3>2. t[m] = s[k] /\ s[k] \in NonBlank
      BY <1>1, <1>5, <3>1 DEF IsStop
    <3>. QED  BY <1>3, <3>1, <3>2
  <2>2. m \in I
    BY <2>1
  <2>3. ASSUME NEW j \in I
        PROVE  j \in Nat /\ m <= j
    <3>1. j \in 1..Len(t) /\ t[j] \notin Blank
      OBVIOUS
    <3>. SUFFICES ASSUME j < m PROVE FALSE
      BY <2>1, <3>1
    <3>2. p + j - 1 \in p..(k - 1) /\ t[j] = s[p + j - 1]
      BY <1>1, <1>2, <3>1
    <3>. QED  BY <1>3, <3>1, <3>2 DEF IsStop
  <2>. HIDE DEF I
  <2>4. Min(I) = m
    <3>. HIDE DEF m
    <3>. QED  BY <2>2, <2>3, MinIs
  <2>5. SkipBlanks(t) = SubSeq(t, m, Len(t))
    <3>1. m # 0 /\ I # {}
      BY <2>1, <2>2
    <3>2. SkipBlanks(t) = IF Min(I) = 0 THEN <<>> ELSE SubSeq(t, Min(I), Len(t))
      BY <3>1 DEF SkipBlanks, SelectInSeq, I
    <3>. QED  BY <2>4, <3>1, <3>2
  <2>6. Len(t) \in 0..(Len(s) + 1 - p) /\ m \in 1..(Len(s) + 2 - p)
        /\ p + m - 1 = k /\ p + Len(t) - 1 = Len(s)
    BY <1>1, <1>2, <1>5
  <2>. HIDE DEF m
  <2>7. SubSeq(t, m, Len(t)) = SubSeq(s, p + m - 1, p + Len(t) - 1)
    BY <2>6, PartOfFrom, ZenonT(60) DEF t
  <2>. QED  BY <2>5, <2>6, <2>7 DEF t, From
<1>. QED  BY <1>2, <1>4, <1>5

\* What one round of splitIRCMessage takes, and what it leaves.
WordOf(s) == Until(SkipBlanks(s), Blank)

RestOf(s) == SubSeq(SkipBlanks(s), Len(WordOf(s)) + 1, Len(SkipBlanks(s)))

\* The parameters of a line, given those of what the first round leaves.
Cut(s, others) ==
  IF SkipBlanks(s) = <<>> THEN <<>>
  ELSE IF IsTrailing(WordOf(s)) THEN <<Trailing(WordOf(s), RestOf(s))>>
  ELSE <<WordOf(s)>> \o others

\* One round, from p on: the word goes from k to e - 1.
LEMMA CutAt ==
  ASSUME NEW s \in Seq(Char), NEW p \in 1..(Len(s) + 1),
         NEW k, IsStop(s, NonBlank, p, k), k <= Len(s),
         NEW e, IsStop(s, Blank, k, e)
  PROVE  /\ k < e
         /\ SkipBlanks(From(s, p)) # <<>>
         /\ WordOf(From(s, p)) = SubSeq(s, k, e - 1)
         /\ Head(WordOf(From(s, p))) = s[k]
         /\ RestOf(From(s, p)) = From(s, e)
<1>1. /\ Len(s) \in Nat /\ k \in p..Len(s) /\ e \in k..(Len(s) + 1)
      /\ s[k] \in Char /\ s[k] \notin Blank
  BY DEF IsStop, NonBlank
<1>2. k < e
  <2>1. k # e
    BY <1>1 DEF IsStop
  <2>. QED  BY <1>1, <2>1
<1>3. SkipBlanks(From(s, p)) = From(s, k)
  BY SkipStops
<1>4. k \in 1..(Len(s) + 1) /\ e \in 1..(Len(s) + 1)
  BY <1>1
<1>5. /\ From(s, k) \in Seq(Char) /\ Len(From(s, k)) = Len(s) + 1 - k
  BY <1>4, FromProperties
<1>6. WordOf(From(s, p)) = SubSeq(s, k, e - 1)
  BY <1>3, <1>4, UntilStops DEF WordOf
<1>7. /\ Len(SubSeq(s, k, e - 1)) = e - k
      /\ Head(SubSeq(s, k, e - 1)) = s[k]
  <2>1. k \in 1..Len(s) /\ e - 1 \in k..Len(s)
    BY <1>1, <1>2
  <2>2. \A i \in k..(e - 1) : s[i] \in Char
    BY <1>1, <2>1
  <2>. DEFINE b == e - 1
  <2>3. b \in Int /\ k \in Int /\ k <= b /\ b - k + 1 = e - k /\ b \in k..Len(s)
    BY <1>1, <2>1
  <2>. HIDE DEF b
  <2>4. Len(SubSeq(s, k, b)) = b - k + 1
    BY <2>2, <2>3, SubSeqProperties DEF b
  <2>5. Head(SubSeq(s, k, b)) = s[k]
    BY <2>1, <2>3, HeadTailOfSubSeq
  <2>. QED  BY <2>3, <2>4, <2>5 DEF b
<1>8. RestOf(From(s, p)) = From(s, e)
  <2>1. RestOf(From(s, p)) = SubSeq(From(s, k), e - k + 1, Len(s) + 1 - k)
    BY <1>3, <1>5, <1>6, <1>7 DEF RestOf
  <2>. DEFINE a == e - k + 1
              b == Len(s) + 1 - k
  <2>2. a \in 1..(Len(s) + 2 - k) /\ b \in 0..(Len(s) + 1 - k)
        /\ k + a - 1 = e /\ k + b - 1 = Len(s)
    BY <1>1, <1>2
  <2>. HIDE DEF a, b
  <2>3. SubSeq(From(s, k), a, b) = SubSeq(s, k + a - 1, k + b - 1)
    BY <1>4, <2>2, PartOfFrom, ZenonT(60)
  <2>. QED  BY <2>1, <2>2, <2>3 DEF From, a, b
<1>9. SkipBlanks(From(s, p)) # <<>>
  BY <1>1, <1>3, <1>5
<1>. QED  BY <1>2, <1>6, <1>7, <1>8, <1>9

\* The text from its first place on is all of it, and nothing is behind its end.
LEMMA WholeText ==
  ASSUME NEW S, NEW s \in Seq(S)
  PROVE  From(s, 1) = s /\ From(s, Len(s) + 1) = <<>>
<1>1. Len(s) \in Int /\ Len(s) + 1 \in Int /\ Len(s) < Len(s) + 1
  OBVIOUS
<1>. QED  BY <1>1, SubSeqFull, SubSeqEmpty DEF From

\* Each round leaves less.
LEMMA CutShrinks ==
  ASSUME NEW s \in Seq(Char), SkipBlanks(s) # <<>>
  PROVE  /\ RestOf(s) \in Seq(Char)
         /\ Len(RestOf(s)) < Len(s)
<1>1. Len(s) \in Nat /\ 1 \in 1..(Len(s) + 1)
  OBVIOUS
<1>2. s = From(s, 1)
  BY WholeText
<1>3. PICK k : IsStop(s, NonBlank, 1, k)
  BY <1>1, StopExists
<1>4. k \in 1..Len(s)
  <2>1. k \in 1..(Len(s) + 1)
    BY <1>3 DEF IsStop
  <2>2. CASE k = Len(s) + 1
    BY <1>1, <1>2, <1>3, <2>2, SkipStops, WholeText
  <2>. QED  BY <1>1, <2>1, <2>2
<1>5. PICK e : IsStop(s, Blank, k, e)
  <2>1. k \in 1..(Len(s) + 1)
    BY <1>1, <1>4
  <2>. QED  BY <2>1, StopExists
<1>6. k < e /\ RestOf(s) = From(s, e)
  BY <1>1, <1>2, <1>3, <1>4, <1>5, CutAt
<1>7. e \in 1..(Len(s) + 1)
  BY <1>1, <1>4, <1>5 DEF IsStop
<1>8. From(s, e) \in Seq(Char) /\ Len(From(s, e)) = Len(s) + 1 - e
  BY <1>7, FromProperties
<1>. QED  BY <1>1, <1>4, <1>6, <1>7, <1>8

-----------------------------------------------------------------------------
\* The lines of up to n characters.
Lines(n) == {s \in Seq(Char) : Len(s) <= n}

Splits(f, A) ==
  /\ f = [s \in A |-> f[s]]
  /\ \A s \in A : f[s] = Cut(s, f[RestOf(s)])

\* On them the recursion of SplitIRCMessage has a solution,
LEMMA SplitExistsUpTo == \A n \in Nat : \E f : Splits(f, Lines(n))
<1>. DEFINE S == {n \in Nat : \E f : Splits(f, Lines(n))}
<1>1. 0 \in S
  <2>. DEFINE g == [s \in Lines(0) |-> <<>>]
  <2>1. ASSUME NEW s \in Lines(0)
        PROVE  Cut(s, g[RestOf(s)]) = <<>>
    <3>1. s \in Seq(Char) /\ Len(s) = 0
      BY DEF Lines
    <3>2. SkipBlanks(s) = <<>>
      <4>1. ASSUME SkipBlanks(s) # <<>> PROVE FALSE
        <5>1. RestOf(s) \in Seq(Char) /\ Len(RestOf(s)) < 0
          BY <3>1, <4>1, CutShrinks
        <5>. QED  BY <5>1
      <4>. QED  BY <4>1
    <3>. QED  BY <3>2 DEF Cut
  <2>2. Splits(g, Lines(0))
    BY <2>1 DEF Splits
  <2>. HIDE DEF g
  <2>. QED  BY <2>2
<1>2. ASSUME NEW n \in Nat, n \in S
      PROVE  n + 1 \in S
  <2>1. PICK f : Splits(f, Lines(n))
    BY <1>2
  <2>. DEFINE g == [s \in Lines(n + 1) |-> Cut(s, f[RestOf(s)])]
  <2>2. ASSUME NEW s \in Lines(n + 1)
        PROVE  g[s] = Cut(s, g[RestOf(s)])
    <3>1. CASE SkipBlanks(s) = <<>>
      BY <3>1 DEF Cut
    <3>2. CASE SkipBlanks(s) # <<>>
      <4>1. RestOf(s) \in Lines(n) /\ RestOf(s) \in Lines(n + 1)
        BY <3>2, CutShrinks DEF Lines
      <4>2. g[RestOf(s)] = f[RestOf(s)]
        BY <2>1, <4>1 DEF Splits
      <4>. QED  BY <4>2
    <3>. QED  BY <3>1, <3>2
  <2>3. Splits(g, Lines(n + 1))
    BY <2>2 DEF Splits
  <2>. HIDE DEF g
  <2>. QED  BY <2>3
<1>. HIDE DEF S
<1>3. \A n \in Nat : n \in S
  BY <1>1, <1>2, SetInduction
<1>. QED  BY <1>3 DEF S

\* and only one;
LEMMA SplitUniqueUpTo ==
  ASSUME NEW m \in Nat, NEW n \in Nat, NEW f, NEW g,
         Splits(f, Lines(m)), Splits(g, Lines(n))
  PROVE  \A s \in Lines(m) \cap Lines(n) : f[s] = g[s]
<1>. DEFINE Both == Lines(m) \cap Lines(n)
            S == {l \in Nat : \A s \in Both \cap Lines(l) : f[s] = g[s]}
<1>1. ASSUME NEW s \in Both, SkipBlanks(s) = <<>> \/ f[RestOf(s)] = g[RestOf(s)]
      PROVE  f[s] = g[s]
  <2>1. Cut(s, f[RestOf(s)]) = Cut(s, g[RestOf(s)])
    BY <1>1 DEF Cut
  <2>. QED  BY <2>1 DEF Splits
<1>2. 0 \in S
  <2>1. \A s \in Lines(0) : SkipBlanks(s) = <<>>
    BY CutShrinks DEF Lines
  <2>. QED  BY <1>1, <2>1
<1>3. ASSUME NEW l \in Nat, l \in S
      PROVE  l + 1 \in S
  <2>1. ASSUME NEW s \in Both \cap Lines(l + 1), SkipBlanks(s) # <<>>
        PROVE  f[RestOf(s)] = g[RestOf(s)]
    <3>1. RestOf(s) \in Both \cap Lines(l)
      BY <2>1, CutShrinks DEF Lines
    <3>. QED  BY <1>3, <3>1
  <2>. QED  BY <1>1, <2>1
<1>. HIDE DEF S
<1>4. \A l \in Nat : l \in S
  BY <1>2, <1>3, SetInduction
<1>. QED  BY <1>4 DEF S, Lines

\* they make one for lines of any length.
LEMMA SplitExists == \E f : f = [s \in Seq(Char) |-> Cut(s, f[RestOf(s)])]
<1>. DEFINE h(n) == CHOOSE f : Splits(f, Lines(n))
            g == [s \in Seq(Char) |-> h(Len(s))[s]]
<1>1. \A n \in Nat : Splits(h(n), Lines(n))
  BY SplitExistsUpTo
<1>2. ASSUME NEW s \in Seq(Char)
      PROVE  g[s] = Cut(s, g[RestOf(s)])
  <2>1. Len(s) \in Nat /\ s \in Lines(Len(s))
    BY DEF Lines
  <2>2. g[s] = Cut(s, h(Len(s))[RestOf(s)])
    <3>. HIDE DEF h
    <3>. QED  BY <1>1, <2>1 DEF Splits
  <2>3. CASE SkipBlanks(s) = <<>>
    BY <2>2, <2>3 DEF Cut
  <2>4. CASE SkipBlanks(s) # <<>>
    <3>1. RestOf(s) \in Seq(Char) /\ Len(RestOf(s)) \in Nat
          /\ RestOf(s) \in Lines(Len(RestOf(s))) \cap Lines(Len(s))
      BY <2>1, <2>4, CutShrinks DEF Lines
    <3>. HIDE DEF h
    <3>2. h(Len(RestOf(s)))[RestOf(s)] = h(Len(s))[RestOf(s)]
      BY <1>1, <2>1, <3>1, SplitUniqueUpTo
    <3>. QED  BY <2>2, <3>1, <3>2
  <2>. QED  BY <2>3, <2>4
<1>3. g = [s \in Seq(Char) |-> Cut(s, g[RestOf(s)])]
  <2>1. g = [s \in Seq(Char) |-> g[s]]
    OBVIOUS
  <2>. HIDE DEF g
  <2>. QED  BY <1>2, <2>1
<1>. HIDE DEF g
<1>. QED  BY <1>3

\* The equation of SplitIRCMessage.
LEMMA SplitUnfolds ==
  ASSUME NEW s \in Seq(Char)
  PROVE  SplitIRCMessage[s] = Cut(s, SplitIRCMessage[RestOf(s)])
<1>. DEFINE IsSplit(f) == f = [t \in Seq(Char) |-> Cut(t, f[RestOf(t)])]
<1>1. SplitIRCMessage = CHOOSE f : IsSplit(f)
  BY DEF SplitIRCMessage, Cut, WordOf, RestOf
<1>2. \E f : IsSplit(f)
  BY SplitExists
<1>3. IsSplit(SplitIRCMessage)
  <2>. HIDE DEF IsSplit
  <2>. QED  BY <1>1, <1>2
<1>. QED  BY <1>3

-----------------------------------------------------------------------------
\* The three ways a round can end, from p on: nothing but blanks is left,
LEMMA SplitOfBlanks ==
  ASSUME NEW s \in Seq(Char), NEW p \in 1..(Len(s) + 1),
         IsStop(s, NonBlank, p, Len(s) + 1)
  PROVE  SplitIRCMessage[From(s, p)] = <<>>
<1>1. From(s, p) \in Seq(Char)
  BY FromProperties
<1>2. SkipBlanks(From(s, p)) = <<>>
  BY SkipStops, WholeText
<1>. QED  BY <1>1, <1>2, SplitUnfolds DEF Cut

\* a word is cut off,
LEMMA SplitOfWord ==
  ASSUME NEW s \in Seq(Char), NEW p \in 1..(Len(s) + 1),
         NEW k, IsStop(s, NonBlank, p, k), k <= Len(s), s[k] # ":",
         NEW e, IsStop(s, Blank, k, e)
  PROVE  SplitIRCMessage[From(s, p)] =
           <<SubSeq(s, k, e - 1)>> \o SplitIRCMessage[From(s, e)]
<1>1. From(s, p) \in Seq(Char)
  BY FromProperties
<1>2. /\ SkipBlanks(From(s, p)) # <<>>
      /\ WordOf(From(s, p)) = SubSeq(s, k, e - 1)
      /\ Head(WordOf(From(s, p))) = s[k]
      /\ RestOf(From(s, p)) = From(s, e)
  BY CutAt
<1>3. ~IsTrailing(WordOf(From(s, p)))
  BY <1>2 DEF IsTrailing
<1>. QED  BY <1>1, <1>2, <1>3, SplitUnfolds DEF Cut

\* or what follows a colon is taken up to the line feed.
LEMMA SplitOfTrailing ==
  ASSUME NEW s \in Seq(Char), NEW p \in 1..(Len(s) + 1),
         NEW k, IsStop(s, NonBlank, p, k), k <= Len(s), s[k] = ":",
         NEW l, IsStop(s, {"LF"}, k + 1, l)
  PROVE  SplitIRCMessage[From(s, p)] = <<SubSeq(s, k + 1, l - 1)>>
<1>1. Len(s) \in Nat /\ k \in p..Len(s) /\ l \in (k + 1)..(Len(s) + 1)
  BY DEF IsStop
<1>2. PICK e : IsStop(s, Blank, k, e)
  <2>1. k \in 1..(Len(s) + 1)
    BY <1>1
  <2>. QED  BY <2>1, StopExists
<1>3. From(s, p) \in Seq(Char)
  BY FromProperties
<1>4. /\ k < e
      /\ SkipBlanks(From(s, p)) # <<>>
      /\ WordOf(From(s, p)) = SubSeq(s, k, e - 1)
      /\ Head(WordOf(From(s, p))) = s[k]
      /\ RestOf(From(s, p)) = From(s, e)
  BY <1>2, CutAt
<1>5. e \in (k + 1)..(Len(s) + 1)
  BY <1>1, <1>2, <1>4 DEF IsStop
<1>6. e <= l
  <2>. SUFFICES ASSUME l < e
                PROVE  FALSE
    BY <1>1, <1>5
  <2>1. l \in k..(e - 1) /\ l <= Len(s)
    BY <1>1, <1>5
  <2>2. s[l] \in {"LF"} /\ s[l] \notin Blank
    BY <1>2, <2>1 DEF IsStop
  <2>. QED  BY <2>2 DEF Blank
<1>7. IsStop(s, {"LF"}, e, l)
  BY <1>1, <1>5, <1>6 DEF IsStop
<1>8. Until(From(s, e), {"LF"}) = SubSeq(s, e, l - 1)
  <2>1. e \in 1..(Len(s) + 1)
    BY <1>1, <1>5
  <2>. QED  BY <1>7, <2>1, UntilStops
<1>9. Tail(SubSeq(s, k, e - 1)) = SubSeq(s, k + 1, e - 1)
  <2>1. k \in 1..Len(s) /\ e - 1 \in k..Len(s)
    BY <1>1, <1>5
  <2>. QED  BY <2>1, HeadTailOfSubSeq
<1>10. SubSeq(s, k + 1, e - 1) \o SubSeq(s, e, l - 1) = SubSeq(s, k + 1, l - 1)
  <2>. DEFINE a == k + 1
              b == e - 1
              c == l - 1
  <2>1. /\ a \in 1..(Len(s) + 1) /\ b \in (a - 1)..Len(s) /\ c \in b..Len(s)
        /\ b + 1 = e
    BY <1>1, <1>5, <1>6
  <2>. HIDE DEF a, b, c
  <2>2. SubSeq(s, a, b) \o SubSeq(s, b + 1, c) = SubSeq(s, a, c)
    BY <2>1, ConcatAdjacentSubSeq
  <2>. QED  BY <2>1, <2>2 DEF a, b, c
<1>11. Trailing(WordOf(From(s, p)), RestOf(From(s, p))) = SubSeq(s, k + 1, l - 1)
  BY <1>4, <1>8, <1>9, <1>10 DEF Trailing
<1>12. IsTrailing(WordOf(From(s, p)))
  BY <1>4 DEF IsTrailing
<1>. QED  BY <1>3, <1>4, <1>11, <1>12, SplitUnfolds DEF Cut

\* What every list of parameters has in common: no line feed is in any, and
\* one with a blank is the only one or not the first.
ArgsOk(args) ==
  /\ args \in Seq(Seq(Char))
  /\ \A i \in 1..Len(args) : "LF" \notin ToSet(args[i])
  /\ Len(args) > 1 => ToSet(args[1]) \cap Blank = {}

\* The parameters of every line, and of what is left of it, are like that.
LEMMA ParametersAreOk ==
  ASSUME NEW s \in Seq(Char), NEW p \in 1..(Len(s) + 1)
  PROVE  ArgsOk(SplitIRCMessage[From(s, p)])
<1>. DEFINE Ok == {q \in Nat : ArgsOk(SplitIRCMessage[From(s, q)])}
<1>1. Len(s) \in Nat
  OBVIOUS
<1>2. ASSUME NEW q \in 1..(Len(s) + 1),
             \A r \in (q + 1)..(Len(s) + 1) : r \in Ok
      PROVE  ArgsOk(SplitIRCMessage[From(s, q)])
  <2>1. PICK k : IsStop(s, NonBlank, q, k)
    BY StopExists
  <2>2. k \in q..(Len(s) + 1)
    BY <2>1 DEF IsStop
  <2>3. CASE k = Len(s) + 1
    <3>1. SplitIRCMessage[From(s, q)] = <<>>
      BY <2>1, <2>3, SplitOfBlanks
    <3>2. ArgsOk(<<>>)
      BY DEF ArgsOk
    <3>. QED  BY <3>1, <3>2
  <2>4. CASE k <= Len(s) /\ s[k] # ":"
    <3>1. k \in 1..(Len(s) + 1)
      BY <1>1, <2>2
    <3>2. PICK e : IsStop(s, Blank, k, e)
      BY <3>1, StopExists
    <3>3. k < e /\ e \in (q + 1)..(Len(s) + 1)
      <4>1. k < e
        BY <2>1, <2>4, <3>2, CutAt
      <4>. QED  BY <1>1, <2>2, <3>2, <4>1 DEF IsStop
    <3>. DEFINE w == SubSeq(s, k, e - 1)
                x == SplitIRCMessage[From(s, e)]
    <3>4. SplitIRCMessage[From(s, q)] = <<w>> \o x
      BY <2>1, <2>4, <3>2, SplitOfWord
    <3>5. ArgsOk(x)
      BY <1>2, <3>3
    <3>6. w \in Seq(Char) /\ ToSet(w) \cap Blank = {}
      <4>1. e - 1 \in (k - 1)..Len(s)
        BY <1>1, <2>2, <3>3
      <4>2. w \in Seq(Char) /\ \A y : y \in ToSet(w) => \E i \in k..(e - 1) : s[i] = y
        BY <3>1, <4>1, PartIs
      <4>. QED  BY <3>2, <4>2 DEF IsStop
    <3>. HIDE DEF w, x
    <3>7. /\ <<w>> \o x \in Seq(Seq(Char))
          /\ Len(<<w>> \o x) = Len(x) + 1
          /\ (<<w>> \o x)[1] = w
          /\ \A i \in 1..Len(x) : (<<w>> \o x)[i + 1] = x[i]
      BY <3>5, <3>6, PrependProperties DEF ArgsOk
    <3>8. ASSUME NEW i \in 1..Len(<<w>> \o x)
          PROVE  "LF" \notin ToSet((<<w>> \o x)[i])
      <4>1. CASE i = 1
        BY <3>6, <3>7, <4>1 DEF Blank
      <4>2. CASE i # 1
        <5>1. Len(x) \in Nat
          BY <3>5 DEF ArgsOk
        <5>2. i - 1 \in 1..Len(x) /\ (i - 1) + 1 = i
          BY <3>7, <4>2, <5>1
        <5>. QED  BY <3>5, <3>7, <5>2 DEF ArgsOk
      <4>. QED  BY <4>1, <4>2
    <3>9. ArgsOk(<<w>> \o x)
      BY <3>6, <3>7, <3>8 DEF ArgsOk
    <3>. QED  BY <3>4, <3>9
  <2>5. CASE k <= Len(s) /\ s[k] = ":"
    <3>1. k + 1 \in 1..(Len(s) + 1)
      BY <1>1, <2>2, <2>5
    <3>2. PICK l : IsStop(s, {"LF"}, k + 1, l)
      BY <3>1, StopExists
    <3>. DEFINE w == SubSeq(s, k + 1, l - 1)
    <3>3. SplitIRCMessage[From(s, q)] = <<w>>
      BY <2>1, <2>5, <3>2, SplitOfTrailing
    <3>4. w \in Seq(Char) /\ "LF" \notin ToSet(w)
      <4>. DEFINE a == k + 1
                  b == l - 1
      <4>1. a \in 1..(Len(s) + 1) /\ b \in (a - 1)..Len(s)
        BY <1>1, <3>1, <3>2 DEF IsStop
      <4>. HIDE DEF a, b
      <4>2. \A y : y \in ToSet(SubSeq(s, a, b)) <=> \E i \in a..b : s[i] = y
        BY <4>1, PartIs
      <4>3. SubSeq(s, a, b) \in Seq(Char)
        BY <4>1, PartIs
      <4>4. \A i \in a..b : s[i] # "LF"
        BY <3>2 DEF IsStop, a, b
      <4>. QED  BY <4>2, <4>3, <4>4 DEF a, b
    <3>. HIDE DEF w
    <3>5. ArgsOk(<<w>>)
      <4>1. <<w>> \in Seq(Seq(Char)) /\ Len(<<w>>) = 1 /\ <<w>>[1] = w
        BY <3>4
      <4>. QED  BY <3>4, <4>1 DEF ArgsOk
    <3>. QED  BY <3>3, <3>5
  <2>. QED  BY <1>1, <2>2, <2>3, <2>4, <2>5
<1>3. ASSUME NEW q \in 1..(Len(s) + 1),
             \A r \in (q + 1)..(Len(s) + 1) : r \in Ok
      PROVE  q \in Ok
  BY <1>2, <1>3
<1>. HIDE DEF Ok
<1>4. \A q \in 1..(Len(s) + 1) : q \in Ok
  BY <1>1, <1>3, InductionDown
<1>. QED  BY <1>4 DEF Ok

-----------------------------------------------------------------------------
(***************************************************************************)
(* Names and passwords.                                                    *)
(***************************************************************************)

\* Two lines in one.
LEMMA LinesJoined ==
  \A s, t \in Seq(Char) :
    /\ s \o t \in Seq(Char)
    /\ Len(s \o t) = Len(s) + Len(t)
    /\ \A i \in 1..Len(s) : (s \o t)[i] = s[i]
    /\ \A i \in 1..Len(t) : (s \o t)[Len(s) + i] = t[i]
BY Joined

\* A line of the state machine is a text.
LEMMA LinesAreTexts ==
  ASSUME TypeOK, kind = "line"
  PROVE  text \in Seq(Char)
<1>1. text \in Seq(LineChar)
  BY DEF TypeOK, Alphabet
<1>2. LineChar \subseteq Char
  BY TextAssumption DEF Char
<1>. QED  BY <1>1, <1>2, SeqMonotonic

\* A line that begins with the one character of a command and a blank.
LEMMA CommandIsCut ==
  ASSUME NEW s \in Seq(Char), Len(s) >= 2,
         s[1] \notin Blank, s[1] # ":", s[2] \in Blank
  PROVE  ParseHandleCmd(s) = [handler |-> Handler(ToUpper(<<s[1]>>)),
                              args |-> SplitIRCMessage[From(s, 2)]]
<1>1. Len(s) \in Nat /\ 1 \in 1..(Len(s) + 1) /\ 2 \in 1..(Len(s) + 1)
      /\ s[1] \in Char
  OBVIOUS
<1>2. IsStop(s, NonBlank, 1, 1)
  BY <1>1 DEF IsStop, NonBlank
<1>3. IsStop(s, Blank, 1, 2)
  BY <1>1 DEF IsStop
<1>. DEFINE w == SubSeq(s, 1, 2 - 1)
            x == SplitIRCMessage[From(s, 2)]
<1>4. SplitIRCMessage[From(s, 1)] = <<w>> \o x
  <2>1. ASSUME NEW p \in 1..(Len(s) + 1), NEW e,
               IsStop(s, NonBlank, p, p), p <= Len(s), s[p] # ":",
               IsStop(s, Blank, p, e)
        PROVE  SplitIRCMessage[From(s, p)] =
                 <<SubSeq(s, p, e - 1)>> \o SplitIRCMessage[From(s, e)]
    BY <2>1, SplitOfWord
  <2>2. 1 <= Len(s)
    BY <1>1
  <2>. QED  BY <1>1, <1>2, <1>3, <2>1, <2>2
<1>5. From(s, 1) = s
  BY WholeText
<1>6. x \in Seq(Seq(Char))
  BY <1>1, ParametersAreOk DEF ArgsOk
<1>7. w = <<s[1]>>
  <2>1. w \in Seq(Char) /\ Len(w) = 1 /\ w[1] = s[1]
    BY <1>1
  <2>. HIDE DEF w
  <2>. QED  BY <2>1
<1>8. w \in Seq(Char)
  BY <1>1, <1>7
<1>. HIDE DEF w, x
<1>9. /\ Len(<<w>> \o x) = Len(x) + 1
      /\ Head(<<w>> \o x) = w /\ Tail(<<w>> \o x) = x
  BY <1>6, <1>8, PrependProperties
<1>10. <<w>> \o x # <<>>
  BY <1>6, <1>9
<1>. QED  BY <1>4, <1>5, <1>7, <1>9, <1>10 DEF ParseHandleCmd, x

\* Behind the end there are no parameters.
LEMMA NothingLeft ==
  ASSUME NEW s \in Seq(Char)
  PROVE  SplitIRCMessage[From(s, Len(s) + 1)] = <<>>
<1>1. Len(s) + 1 \in 1..(Len(s) + 1)
  OBVIOUS
<1>2. IsStop(s, NonBlank, Len(s) + 1, Len(s) + 1)
  BY <1>1 DEF IsStop
<1>. QED  BY <1>1, <1>2, SplitOfBlanks

\* The line that gives a password as a last parameter.
LEMMA PasswordGivenLast ==
  ASSUME NEW pass \in Seq(Char), PassCheck(pass)
  PROVE  LET line == <<"pass", "SP", ":">> \o pass
             called == ParseHandleCmd(line)
         IN  /\ Len(line) = Len(pass) + 3
             /\ called.handler = <<"PASS">>
             /\ PassMatches(called.args, pass) <=> "LF" \notin ToSet(pass)
<1>. DEFINE start == <<"pass", "SP", ":">>
            s == start \o pass
<1>1. Len(pass) \in Nat
  OBVIOUS
<1>2. /\ start \in Seq(Char) /\ Len(start) = 3
      /\ start[1] = "pass" /\ start[2] = "SP" /\ start[3] = ":"
  BY DEF Char
<1>. HIDE DEF start
<1>3. /\ s \in Seq(Char) /\ Len(s) = Len(pass) + 3
      /\ \A i \in 1..(Len(pass) + 3) :
           s[i] = IF i <= 3 THEN start[i] ELSE pass[i - 3]
  <2>1. /\ s \in Seq(Char) /\ Len(s) = Len(start) + Len(pass)
        /\ \A i \in 1..(Len(start) + Len(pass)) :
             s[i] = IF i <= Len(start) THEN start[i] ELSE pass[i - Len(start)]
    BY <1>1, <1>2, ConcatProperties
  <2>. QED  BY <1>1, <1>2, <2>1
<1>. HIDE DEF s
<1>4. /\ s[1] = "pass" /\ s[2] = "SP" /\ s[3] = ":"
      /\ \A i \in 1..Len(pass) : s[i + 3] = pass[i]
  BY <1>1, <1>2, <1>3
<1>5. ParseHandleCmd(s) = [handler |-> Handler(ToUpper(<<"pass">>)),
                           args |-> SplitIRCMessage[From(s, 2)]]
  <2>1. Len(s) >= 2 /\ s[1] \notin Blank /\ s[1] # ":" /\ s[2] \in Blank
    BY <1>1, <1>3, <1>4 DEF Blank
  <2>. QED  BY <1>3, <1>4, <2>1, CommandIsCut
<1>6. PICK l : IsStop(s, {"LF"}, 3 + 1, l)
  <2>1. 3 + 1 \in 1..(Len(s) + 1)
    BY <1>1, <1>3
  <2>. QED  BY <1>3, <2>1, StopExists
<1>7. /\ l \in 4..(Len(s) + 1)
      /\ \A j \in 4..(l - 1) : s[j] # "LF"
      /\ l <= Len(s) => s[l] = "LF"
  BY <1>6 DEF IsStop
<1>. DEFINE b == l - 1
            w == SubSeq(s, 3 + 1, l - 1)
<1>8. SplitIRCMessage[From(s, 2)] = <<w>>
  <2>1. IsStop(s, NonBlank, 2, 3)
    BY <1>1, <1>3, <1>4 DEF IsStop, NonBlank, Blank, Char
  <2>2. 2 \in 1..(Len(s) + 1) /\ 3 <= Len(s)
    BY <1>1, <1>3
  <2>3. ASSUME NEW p \in 1..(Len(s) + 1), NEW k, IsStop(s, NonBlank, p, k),
               k <= Len(s), s[k] = ":", IsStop(s, {"LF"}, k + 1, l)
        PROVE  SplitIRCMessage[From(s, p)] = <<SubSeq(s, k + 1, l - 1)>>
    BY <1>3, <2>3, SplitOfTrailing
  <2>. QED  BY <1>4, <1>6, <2>1, <2>2, <2>3
<1>9. /\ w \in Seq(Char) /\ Len(w) = l - 4
      /\ \A i \in 1..(l - 4) : w[i] = pass[i]
  <2>1. b \in (4 - 1)..Len(s) /\ b - 4 + 1 = l - 4 /\ 4 \in 1..(Len(s) + 1)
    BY <1>1, <1>3, <1>7
  <2>. DEFINE v == SubSeq(s, 4, b)
  <2>. HIDE DEF b
  <2>2. /\ v \in Seq(Char) /\ Len(v) = b - 4 + 1
        /\ \A i \in 1..(b - 4 + 1) : v[i] = s[4 + i - 1]
    BY <1>3, <2>1, PartIs
  <2>3. w = v
    BY DEF b
  <2>. HIDE DEF v, w
  <2>4. \A i \in 1..(l - 4) : 4 + i - 1 = i + 3 /\ i \in 1..Len(pass)
    BY <1>1, <1>3, <1>7
  <2>. QED  BY <1>4, <2>1, <2>2, <2>3, <2>4
<1>. HIDE DEF w
<1>10. PassMatches(<<w>>, pass) <=> w = pass
  <2>1. "SP" \notin ToSet(pass)
    BY DEF PassCheck
  <2>. QED  BY <2>1 DEF PassMatches
<1>11. ASSUME "LF" \notin ToSet(pass)
       PROVE  w = pass
  <2>1. \A i \in 1..Len(pass) : pass[i] # "LF"
    BY <1>1, <1>11 DEF ToSet
  <2>2. ~(l <= Len(s))
    <3>. SUFFICES ASSUME l <= Len(s) PROVE FALSE
      OBVIOUS
    <3>1. l - 3 \in 1..Len(pass) /\ (l - 3) + 3 = l
      BY <1>1, <1>3, <1>7
    <3>. QED  BY <1>4, <1>7, <2>1, <3>1
  <2>3. l - 4 = Len(pass)
    BY <1>1, <1>3, <1>7, <2>2
  <2>. QED  BY <1>1, <1>9, <2>3, SeqEqual
<1>12. ASSUME "LF" \in ToSet(pass)
       PROVE  w # pass
  <2>1. PICK i \in 1..Len(pass) : pass[i] = "LF"
    BY <1>1, <1>12 DEF ToSet
  <2>2. s[i + 3] = "LF" /\ i + 3 \in 4..Len(s)
    BY <1>1, <1>3, <1>4, <2>1
  <2>3. l <= i + 3
    BY <1>1, <1>3, <1>7, <2>2
  <2>. QED  BY <1>1, <1>7, <1>9, <2>3
<1>13. Handler(ToUpper(<<"pass">>)) = <<"PASS">>
  <2>1. ToUpper(<<"pass">>) = <<"PASS">>
    BY DEF ToUpper
  <2>. DEFINE c == <<"PASS">>
  <2>2. Handler(c) = c
    BY DEF Handler
  <2>. QED  BY <2>1, <2>2
<1>. QED  BY <1>3, <1>5, <1>8, <1>10, <1>11, <1>12, <1>13 DEF s, start

\* The line that gives it without a colon.
LEMMA PasswordGivenPlain ==
  ASSUME NEW pass \in Seq(Char), PassCheck(pass)
  PROVE  LET line == <<"pass", "SP">> \o pass
             called == ParseHandleCmd(line)
         IN  /\ Len(line) = Len(pass) + 2
             /\ called.handler = <<"PASS">>
             /\ PassMatches(called.args, pass)
                  <=> ToSet(pass) \cap Blank = {} /\ Head(pass) # ":"
<1>. DEFINE start == <<"pass", "SP">>
            s == start \o pass
            args == SplitIRCMessage[From(s, 2)]
            Free == ToSet(pass) \cap Blank = {} /\ Head(pass) # ":"
<1>1. Len(pass) \in Nat \ {0} /\ Head(pass) = pass[1] /\ 1 \in 1..Len(pass)
  BY DEF PassCheck
<1>2. start \in Seq(Char) /\ Len(start) = 2 /\ start[1] = "pass" /\ start[2] = "SP"
  BY DEF Char
<1>. HIDE DEF start
<1>3. /\ s \in Seq(Char) /\ Len(s) = Len(start) + Len(pass)
      /\ \A i \in 1..Len(start) : s[i] = start[i]
      /\ \A i \in 1..Len(pass) : s[Len(start) + i] = pass[i]
  BY <1>2, LinesJoined
<1>. HIDE DEF s
<1>4. /\ Len(s) = Len(pass) + 2
      /\ s[1] = "pass" /\ s[2] = "SP"
      /\ \A i \in 1..Len(pass) : s[2 + i] = pass[i]
  BY <1>1, <1>2, <1>3
<1>5. s[3] = Head(pass)
  <2>1. 2 + 1 = 3
    OBVIOUS
  <2>. QED  BY <1>1, <1>4, <2>1
<1>6. ParseHandleCmd(s) = [handler |-> Handler(ToUpper(<<"pass">>)), args |-> args]
  <2>1. Len(s) >= 2 /\ s[1] \notin Blank /\ s[1] # ":" /\ s[2] \in Blank
    BY <1>1, <1>4 DEF Blank
  <2>. QED  BY <1>3, <1>4, <2>1, CommandIsCut
<1>7. Handler(ToUpper(<<"pass">>)) = <<"PASS">>
  <2>1. ToUpper(<<"pass">>) = <<"PASS">>
    BY DEF ToUpper
  <2>. DEFINE c == <<"PASS">>
  <2>2. Handler(c) = c
    BY DEF Handler
  <2>. QED  BY <2>1, <2>2
<1>8. 2 \in 1..(Len(s) + 1)
  BY <1>1, <1>4
<1>9. PICK k : IsStop(s, NonBlank, 2, k)
  BY <1>3, <1>8, StopExists
<1>10. k \in 3..(Len(s) + 1) /\ (Head(pass) \notin Blank => k = 3)
  <2>1. k \in 2..(Len(s) + 1) /\ k # 2
    BY <1>1, <1>4, <1>9 DEF IsStop, NonBlank, Blank
  <2>2. Head(pass) \in Char
    BY <1>1
  <2>3. k > 3 => s[3] \notin NonBlank
    BY <1>4, <1>9, <2>1 DEF IsStop
  <2>4. k \in 3..(Len(s) + 1)
    BY <1>1, <1>4, <2>1
  <2>5. Head(pass) \notin Blank => ~(k > 3)
    BY <1>5, <2>2, <2>3 DEF NonBlank
  <2>. QED  BY <2>4, <2>5
<1>11. Free => Head(pass) \notin Blank
  BY <1>1 DEF ToSet
<1>12. CASE k = Len(s) + 1
  <2>1. args = <<>>
    <3>1. IsStop(s, NonBlank, 2, Len(s) + 1)
      BY <1>9, <1>12
    <3>. QED  BY <1>3, <1>8, <3>1, SplitOfBlanks
  <2>2. ~Free
    BY <1>1, <1>4, <1>10, <1>11, <1>12
  <2>. HIDE DEF args, Free
  <2>3. PassMatches(args, pass) <=> Free
    BY <2>1, <2>2 DEF PassMatches
  <2>. QED  BY <1>4, <1>6, <1>7, <2>3 DEF args, Free, s, start
<1>13. CASE k <= Len(s) /\ s[k] = ":"
  <2>1. k + 1 \in 1..(Len(s) + 1)
    BY <1>1, <1>4, <1>10, <1>13
  <2>2. PICK l : IsStop(s, {"LF"}, k + 1, l)
    BY <1>3, <2>1, StopExists
  <2>. DEFINE b == l - 1
              w == SubSeq(s, k + 1, l - 1)
  <2>3. args = <<w>>
    BY <1>3, <1>8, <1>9, <1>13, <2>2, SplitOfTrailing
  <2>4. b \in k..Len(s) /\ b - (k + 1) + 1 = b - k
    BY <1>1, <1>4, <1>10, <1>13, <2>2 DEF IsStop
  <2>. HIDE DEF b
  <2>5. Len(w) = b - k
    <3>. DEFINE a == k + 1
    <3>1. /\ a \in 1..(Len(s) + 1) /\ b \in (a - 1)..Len(s)
          /\ b - a + 1 = b - k
      BY <1>1, <1>4, <1>10, <2>1, <2>4
    <3>2. w = SubSeq(s, a, b)
      BY DEF b
    <3>. HIDE DEF a, w
    <3>3. Len(SubSeq(s, a, b)) = b - a + 1
      BY <1>3, <3>1, PartIs
    <3>. QED  BY <3>1, <3>2, <3>3
  <2>. HIDE DEF w
  <2>6. w # pass
    BY <1>1, <1>4, <1>10, <2>4, <2>5
  <2>7. ~Free
    BY <1>5, <1>10, <1>11, <1>13
  <2>. HIDE DEF Free, args
  <2>8. PassMatches(args, pass) <=> Free
    BY <2>3, <2>6, <2>7 DEF PassMatches
  <2>. QED  BY <1>4, <1>6, <1>7, <2>8 DEF args, Free, s, start
<1>14. CASE k <= Len(s) /\ s[k] # ":"
  <2>1. k \in 1..(Len(s) + 1)
    BY <1>1, <1>4, <1>10
  <2>2. PICK e : IsStop(s, Blank, k, e)
    BY <1>3, <2>1, StopExists
  <2>3. e \in 1..(Len(s) + 1) /\ e \in k..(Len(s) + 1)
    BY <1>1, <1>4, <1>10, <2>2 DEF IsStop
  <2>. DEFINE b == e - 1
              w == SubSeq(s, k, e - 1)
              x == SplitIRCMessage[From(s, e)]
  <2>4. args = <<w>> \o x
    <3>1. s \in Seq(Char)
      BY <1>3
    <3>2. ASSUME NEW p \in 1..(Len(s) + 1), IsStop(s, NonBlank, p, k)
          PROVE  SplitIRCMessage[From(s, p)] =
                   <<SubSeq(s, k, e - 1)>> \o SplitIRCMessage[From(s, e)]
      BY <1>14, <2>2, <3>1, <3>2, SplitOfWord
    <3>. QED  BY <1>8, <1>9, <3>2
  <2>5. b \in (k - 1)..Len(s) /\ b - k + 1 = e - k
    BY <1>1, <1>4, <1>10, <2>3
  <2>. HIDE DEF b
  <2>6. /\ w \in Seq(Char) /\ Len(w) = e - k
        /\ \A i \in 1..(e - k) : w[i] = s[k + i - 1]
        /\ \A y : y \in ToSet(w) => \E i \in k..b : s[i] = y
    <3>1. /\ SubSeq(s, k, b) \in Seq(Char)
          /\ Len(SubSeq(s, k, b)) = b - k + 1
          /\ \A i \in 1..(b - k + 1) : SubSeq(s, k, b)[i] = s[k + i - 1]
          /\ \A y : y \in ToSet(SubSeq(s, k, b)) <=> \E i \in k..b : s[i] = y
      BY <1>3, <2>1, <2>5, PartIs
    <3>2. w = SubSeq(s, k, b)
      BY DEF b
    <3>. QED  BY <2>5, <3>1, <3>2
  <2>7. x \in Seq(Seq(Char))
    BY <1>3, <2>3, ParametersAreOk DEF ArgsOk
  <2>. HIDE DEF w, x, args
  <2>8. args # <<>> /\ args[1] = w
    <3>1. Len(<<w>> \o x) = Len(x) + 1 /\ (<<w>> \o x)[1] = w
      BY <2>6, <2>7, PrependProperties
    <3>2. Len(args) # 0
      BY <2>4, <2>7, <3>1
    <3>. QED  BY <2>4, <3>1, <3>2
  <2>9. ASSUME w = pass
        PROVE  Free
    <3>1. ToSet(w) \cap Blank = {}
      BY <2>2, <2>6 DEF IsStop, b
    <3>2. k = 3
      BY <1>1, <1>4, <1>10, <2>3, <2>6, <2>9
    <3>. QED  BY <1>5, <1>14, <2>9, <3>1, <3>2
  <2>10. ASSUME Free
         PROVE  w = pass
    <3>1. k = 3
      BY <1>10, <1>11, <2>10
    <3>2. \A i \in 1..Len(pass) : pass[i] \notin Blank
      BY <2>10 DEF ToSet
    <3>3. ~(e <= Len(s))
      <4>. SUFFICES ASSUME e <= Len(s) PROVE FALSE
        OBVIOUS
      <4>1. s[e] \in Blank
        BY <2>2 DEF IsStop
      <4>2. e - 2 \in 1..Len(pass) /\ 2 + (e - 2) = e
        BY <1>1, <1>4, <2>3, <3>1
      <4>. QED  BY <1>4, <3>2, <4>1, <4>2
    <3>4. e - k = Len(pass)
      BY <1>1, <1>4, <2>3, <3>1, <3>3
    <3>5. \A i \in 1..Len(pass) : k + i - 1 = 2 + i
      BY <1>1, <3>1
    <3>6. \A i \in 1..Len(w) : w[i] = pass[i]
      BY <1>4, <2>6, <3>4, <3>5
    <3>. QED  BY <2>6, <3>4, <3>6, SeqEqual
  <2>. HIDE DEF Free
  <2>11. PassMatches(args, pass) <=> w = pass
    <3>1. "SP" \notin ToSet(pass)
      BY DEF PassCheck
    <3>. QED  BY <2>8, <3>1 DEF PassMatches
  <2>12. PassMatches(args, pass) <=> Free
    BY <2>9, <2>10, <2>11
  <2>. QED  BY <1>4, <1>6, <1>7, <2>12 DEF args, Free, s, start
<1>15. k = Len(s) + 1 \/ k <= Len(s)
  BY <1>1, <1>4, <1>10
<1>. QED  BY <1>12, <1>13, <1>14, <1>15

(***************************************************************************)
(* A server's password can be given by its clients as a last parameter, in *)
(* either case of PASS, exactly if it has no line feed and the line fits   *)
(* the buffer; without a colon exactly if it has none of the blanks of     *)
(* operator>>, of which passCheck refuses two, and begins with no colon.   *)
(***************************************************************************)
THEOREM PasswordsCanBeGiven == Spec => []PasswordCanBeGiven
<1>1. ASSUME TypeOK
      PROVE  PasswordCanBeGiven
  <2>. DEFINE last == <<"pass", "SP", ":">> \o text
              plain == <<"pass", "SP">> \o text
  <2>. SUFFICES ASSUME kind = "line", PassCheck(text)
                PROVE  /\ GivesPassword(last, text)
                            <=> "LF" \notin ToSet(text) /\ Len(text) + 8 <= MaxBuffer
                       /\ GivesPassword(plain, text)
                            <=> /\ ToSet(text) \cap Blank = {} /\ Head(text) # ":"
                                /\ Len(text) + 7 <= MaxBuffer
    BY DEF PasswordCanBeGiven
  <2>1. text \in Seq(Char) /\ Len(text) \in Nat /\ MaxBuffer \in Nat
    BY <1>1, LinesAreTexts, TextAssumption
  <2>2. /\ Len(last) = Len(text) + 3
        /\ ParseHandleCmd(last).handler = <<"PASS">>
        /\ PassMatches(ParseHandleCmd(last).args, text) <=> "LF" \notin ToSet(text)
    BY <2>1, PasswordGivenLast
  <2>3. /\ Len(plain) = Len(text) + 2
        /\ ParseHandleCmd(plain).handler = <<"PASS">>
        /\ PassMatches(ParseHandleCmd(plain).args, text)
             <=> ToSet(text) \cap Blank = {} /\ Head(text) # ":"
    BY <2>1, PasswordGivenPlain
  <2>. HIDE DEF last, plain
  <2>4. /\ Fits(last) <=> Len(text) + 8 <= MaxBuffer
        /\ Fits(plain) <=> Len(text) + 7 <= MaxBuffer
    BY <2>1, <2>2, <2>3 DEF Fits
  <2>. QED  BY <2>2, <2>3, <2>4 DEF GivesPassword
<1>. QED  BY <1>1, TextInvariant, PTL

\* The last parameter, if no line feed follows.
LEMMA SplitOfLast ==
  ASSUME NEW s \in Seq(Char), NEW p \in 1..(Len(s) + 1),
         NEW k, IsStop(s, NonBlank, p, k), k <= Len(s), s[k] = ":",
         \A i \in (k + 1)..Len(s) : s[i] # "LF"
  PROVE  SplitIRCMessage[From(s, p)] = <<From(s, k + 1)>>
<1>1. Len(s) \in Nat /\ k \in p..Len(s)
  BY DEF IsStop
<1>. DEFINE l == Len(s) + 1
<1>2. IsStop(s, {"LF"}, k + 1, l)
  BY <1>1 DEF IsStop
<1>3. l - 1 = Len(s)
  BY <1>1
<1>. HIDE DEF l
<1>4. SplitIRCMessage[From(s, p)] = <<SubSeq(s, k + 1, l - 1)>>
  BY <1>2, SplitOfTrailing
<1>. QED  BY <1>3, <1>4 DEF From

\* A word of one character.
LEMMA SplitOfCharacter ==
  ASSUME NEW s \in Seq(Char), NEW p \in 1..(Len(s) + 1),
         NEW k, IsStop(s, NonBlank, p, k), k <= Len(s), s[k] # ":",
         IsStop(s, Blank, k, k + 1)
  PROVE  SplitIRCMessage[From(s, p)] =
           <<<<s[k]>>>> \o SplitIRCMessage[From(s, k + 1)]
<1>1. k \in Nat /\ k >= 1 /\ Len(s) \in Nat
  BY DEF IsStop
<1>. DEFINE e == k + 1
            w == SubSeq(s, k, e - 1)
<1>2. w = <<s[k]>>
  <2>1. w \in Seq(Char) /\ Len(w) = 1 /\ w[1] = s[k]
    <3>. DEFINE b == e - 1
    <3>1. b \in (k - 1)..Len(s) /\ b = k /\ k \in 1..(Len(s) + 1)
      BY <1>1
    <3>. HIDE DEF b
    <3>2. /\ SubSeq(s, k, b) \in Seq(Char)
          /\ Len(SubSeq(s, k, b)) = b - k + 1
          /\ \A i \in 1..(b - k + 1) : SubSeq(s, k, b)[i] = s[k + i - 1]
      BY <3>1, PartIs
    <3>3. w = SubSeq(s, k, b)
      BY DEF b
    <3>. HIDE DEF w
    <3>. QED  BY <1>1, <3>1, <3>2, <3>3
  <2>. HIDE DEF w
  <2>. QED  BY <2>1
<1>. HIDE DEF e
<1>4. SplitIRCMessage[From(s, p)] =
        <<SubSeq(s, k, e - 1)>> \o SplitIRCMessage[From(s, e)]
  BY SplitOfWord DEF e
<1>. QED  BY <1>2, <1>4 DEF e
LEMMA GivenLast ==
  ASSUME NEW name \in Seq(Char), "LF" \notin ToSet(name),
         NEW s \in Seq(Char), Len(s) = 5 + Len(name),
         s[1] = "KICK", s[2] = "SP", s[3] = "a", s[4] = "SP", s[5] = ":",
         \A i \in 1..Len(name) : s[5 + i] = name[i]
  PROVE  ParseHandleCmd(s).args = <<<<"a">>, name>>
<1>1. Len(name) \in Nat
  OBVIOUS
<1>2. ParseHandleCmd(s).args = SplitIRCMessage[From(s, 2)]
  <2>1. Len(s) >= 2 /\ s[1] \notin Blank /\ s[1] # ":" /\ s[2] \in Blank
    BY <1>1 DEF Blank
  <2>2. ParseHandleCmd(s) = [handler |-> Handler(ToUpper(<<s[1]>>)),
                             args |-> SplitIRCMessage[From(s, 2)]]
    BY <2>1, CommandIsCut
  <2>. QED  BY <2>2
<1>3. /\ IsStop(s, NonBlank, 2, 3) /\ IsStop(s, Blank, 3, 4)
      /\ IsStop(s, NonBlank, 4, 5)
  BY <1>1 DEF IsStop, NonBlank, Blank, Char
<1>4. SplitIRCMessage[From(s, 2)] = <<<<"a">>>> \o SplitIRCMessage[From(s, 4)]
  <2>1. \A p \in 1..(Len(s) + 1) : \A k :
          /\ IsStop(s, NonBlank, p, k) /\ k <= Len(s) /\ s[k] # ":"
          /\ IsStop(s, Blank, k, k + 1)
          => SplitIRCMessage[From(s, p)] =
               <<<<s[k]>>>> \o SplitIRCMessage[From(s, k + 1)]
    BY SplitOfCharacter
  <2>2. 2 \in 1..(Len(s) + 1) /\ 3 <= Len(s) /\ IsStop(s, Blank, 3, 3 + 1)
    BY <1>1, <1>3
  <2>3. SplitIRCMessage[From(s, 2)] =
          <<<<s[3]>>>> \o SplitIRCMessage[From(s, 3 + 1)]
    BY <1>1, <1>3, <2>1, <2>2
  <2>. QED  BY <2>3
<1>5. SplitIRCMessage[From(s, 4)] = <<From(s, 6)>>
  <2>1. ASSUME NEW p \in 1..(Len(s) + 1), NEW k,
               IsStop(s, NonBlank, p, k), k <= Len(s), s[k] = ":",
               \A i \in (k + 1)..Len(s) : s[i] # "LF"
        PROVE  SplitIRCMessage[From(s, p)] = <<From(s, k + 1)>>
    BY <2>1, SplitOfLast
  <2>2. 4 \in 1..(Len(s) + 1) /\ 5 <= Len(s)
    BY <1>1
  <2>3. \A i \in (5 + 1)..Len(s) : s[i] # "LF"
    <3>. TAKE i \in (5 + 1)..Len(s)
    <3>1. i - 5 \in 1..Len(name) /\ s[i] = name[i - 5]
      BY <1>1
    <3>. QED  BY <3>1 DEF ToSet
  <2>4. SplitIRCMessage[From(s, 4)] = <<From(s, 5 + 1)>>
    BY <1>1, <1>3, <2>1, <2>2, <2>3
  <2>. QED  BY <2>4
<1>6. From(s, 6) = name
  <2>. DEFINE t == From(s, 6)
  <2>1. \A p \in 1..(Len(s) + 1) :
          /\ From(s, p) \in Seq(Char)
          /\ Len(From(s, p)) = Len(s) + 1 - p
          /\ \A i \in 1..(Len(s) + 1 - p) : From(s, p)[i] = s[p + i - 1]
    BY FromProperties
  <2>2. 6 \in 1..(Len(s) + 1) /\ Len(s) + 1 - 6 = Len(name)
        /\ \A i \in 1..Len(name) : 6 + i - 1 = 5 + i
    BY <1>1
  <2>3. t \in Seq(Char) /\ Len(t) = Len(name)
        /\ \A i \in 1..Len(name) : t[i] = s[5 + i]
    BY <1>1, <2>1, <2>2
  <2>4. \A i \in 1..Len(t) : t[i] = name[i]
    BY <2>3
  <2>. HIDE DEF t
  <2>5. t = name
    BY <2>3, <2>4, SeqEqual
  <2>. QED  BY <2>5 DEF t
<1>7. <<<<"a">>>> \o <<name>> = <<<<"a">>, name>>
  <2>1. <<"a">> \in Seq(Char)
    BY DEF Char
  <2>. QED  BY <2>1, PairIs
<1>. QED  BY <1>2, <1>4, <1>5, <1>6, <1>7

\* The line that gives the name as the first of two parameters.
InFront(s, name) ==
  /\ Len(s) = Len(name) + 4
  /\ s[1] = "KICK" /\ s[2] = "SP"
  /\ s[Len(name) + 3] = "SP" /\ s[Len(name) + 4] = "a"
  /\ \A i \in 1..Len(name) : s[2 + i] = name[i]

\* It gives the name, unless a blank or a leading colon is in the way.
LEMMA GivenInFront ==
  ASSUME NEW name \in Seq(Char), name # <<>>,
         NEW s \in Seq(Char), InFront(s, name)
  PROVE  ParseHandleCmd(s).args = <<name, <<"a">>>>
         <=> ToSet(name) \cap Blank = {} /\ Head(name) # ":"
<1>. DEFINE args == SplitIRCMessage[From(s, 2)]
            N == Len(name)
<1>1. N \in Nat \ {0} /\ Head(name) = name[1] /\ name[1] \in Char
  OBVIOUS
<1>2. /\ Len(s) = N + 4
      /\ s[1] = "KICK" /\ s[2] = "SP" /\ s[N + 3] = "SP" /\ s[N + 4] = "a"
      /\ \A i \in 1..N : s[2 + i] = name[i]
  BY DEF InFront
<1>. HIDE DEF N
<1>3. ParseHandleCmd(s).args = args
  <2>1. Len(s) >= 2 /\ s[1] \notin Blank /\ s[1] # ":" /\ s[2] \in Blank
    BY <1>1, <1>2 DEF Blank
  <2>2. ParseHandleCmd(s) = [handler |-> Handler(ToUpper(<<s[1]>>)),
                             args |-> args]
    BY <2>1, CommandIsCut
  <2>. QED  BY <2>2
<1>4. 2 \in 1..(Len(s) + 1) /\ 3 \in 1..(Len(s) + 1) /\ 3 <= Len(s)
  BY <1>1, <1>2
<1>5. s[3] = Head(name)
  <2>1. 1 \in 1..N /\ 2 + 1 = 3
    BY <1>1
  <2>. QED  BY <1>1, <1>2, <2>1
<1>6. ASSUME args = <<name, <<"a">>>>
      PROVE  ToSet(name) \cap Blank = {} /\ Head(name) # ":"
  <2>1. Len(args) = 2 /\ args[1] = name /\ Len(args) # 1
    BY <1>6
  <2>. HIDE DEF args
  <2>2. ToSet(name) \cap Blank = {}
    <3>1. ASSUME NEW p \in 1..(Len(s) + 1)
          PROVE  ArgsOk(SplitIRCMessage[From(s, p)])
      BY ParametersAreOk
    <3>2. ArgsOk(args)
      BY <1>4, <3>1 DEF args
    <3>. QED  BY <2>1, <3>2 DEF ArgsOk
  <2>3. Head(name) # ":"
    <3>. SUFFICES ASSUME s[3] = ":" PROVE FALSE
      BY <1>5
    <3>1. IsStop(s, NonBlank, 2, 3)
      BY <1>2, <1>4 DEF IsStop, NonBlank, Blank, Char
    <3>2. PICK l : IsStop(s, {"LF"}, 3 + 1, l)
      <4>1. 3 + 1 \in 1..(Len(s) + 1)
        BY <1>1, <1>2
      <4>. QED  BY <4>1, StopExists
    <3>3. ASSUME NEW p \in 1..(Len(s) + 1), NEW k, IsStop(s, NonBlank, p, k),
                 k <= Len(s), s[k] = ":", IsStop(s, {"LF"}, k + 1, l)
          PROVE  SplitIRCMessage[From(s, p)] = <<SubSeq(s, k + 1, l - 1)>>
      BY <3>3, SplitOfTrailing
    <3>4. args = <<SubSeq(s, 3 + 1, l - 1)>>
      BY <1>4, <3>1, <3>2, <3>3 DEF args
    <3>5. Len(args) = 1
      BY <3>4
    <3>. QED  BY <2>1, <3>5
  <2>. QED  BY <2>2, <2>3
<1>7. ASSUME ToSet(name) \cap Blank = {}, Head(name) # ":"
       PROVE  args = <<name, <<"a">>>>
  <2>1. \A i \in 1..N : name[i] \notin Blank /\ name[i] \in Char
    BY <1>7 DEF ToSet, N
  <2>. DEFINE e == N + 3
              k == N + 4
              f == N + 5
  <2>2. IsStop(s, NonBlank, 2, 3)
    BY <1>1, <1>2, <1>4, <1>5, <1>7, <2>1 DEF IsStop, NonBlank, Blank, Char
  <2>3. IsStop(s, Blank, 3, e)
    <3>1. ASSUME NEW j \in 3..(e - 1)
          PROVE  s[j] \notin Blank
      <4>1. j - 2 \in 1..N /\ 2 + (j - 2) = j
        BY <1>1
      <4>. QED  BY <1>2, <2>1, <4>1
    <3>. QED  BY <1>1, <1>2, <3>1 DEF IsStop, Blank
  <2>4. IsStop(s, NonBlank, e, k)
    BY <1>1, <1>2 DEF IsStop, NonBlank, Blank, Char
  <2>5. IsStop(s, Blank, k, f)
    BY <1>1, <1>2 DEF IsStop, Blank
  <2>6. /\ e \in 1..(Len(s) + 1) /\ k \in 1..(Len(s) + 1) /\ k <= Len(s)
        /\ f = Len(s) + 1 /\ s[k] = "a" /\ s[k] # ":" /\ s[3] # ":"
        /\ f \in 1..(Len(s) + 1)
    BY <1>1, <1>2, <1>5, <1>7
  <2>. HIDE DEF e, k, f
  <2>7. \A p \in 1..(Len(s) + 1) : \A q, r :
          /\ IsStop(s, NonBlank, p, q) /\ q <= Len(s) /\ s[q] # ":"
          /\ IsStop(s, Blank, q, r)
          => SplitIRCMessage[From(s, p)] =
               <<SubSeq(s, q, r - 1)>> \o SplitIRCMessage[From(s, r)]
    BY SplitOfWord
  <2>8. SplitIRCMessage[From(s, f)] = <<>>
    BY <2>6, NothingLeft
  <2>9. SplitIRCMessage[From(s, e)] = <<<<"a">>>> \o SplitIRCMessage[From(s, f)]
    <3>1. f = k + 1
      BY <1>1 DEF f, k
    <3>2. IsStop(s, Blank, k, k + 1)
      BY <2>5, <3>1
    <3>3. SplitIRCMessage[From(s, e)]
            = <<<<s[k]>>>> \o SplitIRCMessage[From(s, k + 1)]
      BY <2>4, <2>6, <3>2, SplitOfCharacter
    <3>. QED  BY <2>6, <3>1, <3>3
  <2>10. args = <<SubSeq(s, 3, e - 1)>> \o SplitIRCMessage[From(s, e)]
    <3>1. PICK p \in 1..(Len(s) + 1), q \in 1..(Len(s) + 1) : p = 2 /\ q = 3
      BY <1>4
    <3>2. /\ IsStop(s, NonBlank, p, q) /\ q <= Len(s) /\ s[q] # ":"
          /\ IsStop(s, Blank, q, e)
      BY <1>4, <2>2, <2>3, <2>6, <3>1
    <3>3. SplitIRCMessage[From(s, p)] =
            <<SubSeq(s, q, e - 1)>> \o SplitIRCMessage[From(s, e)]
      BY <2>7, <3>2, SMTT(30)
    <3>. QED  BY <3>1, <3>3
  <2>12. SubSeq(s, 3, e - 1) = name
    <3>. DEFINE b == e - 1
    <3>1. b \in (3 - 1)..Len(s) /\ b - 3 + 1 = N
      BY <1>1, <1>2 DEF e
    <3>. HIDE DEF b
    <3>2. ASSUME NEW a \in 1..(Len(s) + 1), b \in (a - 1)..Len(s)
          PROVE  /\ SubSeq(s, a, b) \in Seq(Char)
                 /\ Len(SubSeq(s, a, b)) = b - a + 1
                 /\ \A i \in 1..(b - a + 1) : SubSeq(s, a, b)[i] = s[a + i - 1]
      BY <3>2, PartIs
    <3>. DEFINE w == SubSeq(s, 3, b)
    <3>3. w \in Seq(Char) /\ Len(w) = N /\ \A i \in 1..N : w[i] = s[2 + i]
      <4>1. \A i \in 1..N : 3 + i - 1 = 2 + i
        BY <1>1
      <4>. QED  BY <1>4, <3>1, <3>2, <4>1
    <3>. HIDE DEF w
    <3>4. w = name
      BY <1>2, <3>3, SeqEqual DEF N
    <3>. QED  BY <3>4 DEF w, b
  <2>13. <<name>> \o <<<<"a">>>> = <<name, <<"a">>>>
    <3>1. <<"a">> \in Seq(Char)
      BY DEF Char
    <3>. QED  BY <3>1, PairIs
  <2>14. <<<<"a">>>> \o <<>> = <<<<"a">>>>
    OBVIOUS
  <2>. QED  BY <2>8, <2>9, <2>10, <2>12, <2>13, <2>14
<1>. QED  BY <1>3, <1>6, <1>7

(***************************************************************************)
(* A name that NICK or JOIN accepted can be given again as a last          *)
(* parameter, and in front of others exactly if it has no blank and no     *)
(* leading colon.                                                          *)
(***************************************************************************)
THEOREM AcceptedNamesCanBeRepeated == Spec => []NamesCanBeRepeated
<1>1. ASSUME TypeOK
      PROVE  NamesCanBeRepeated
  <2>. DEFINE start == <<"NICK", "SP">>
              s == start \o text
              args == ParseHandleCmd(s).args
              name == args[1]
  <2>. SUFFICES ASSUME kind = "line", args # <<>>,
                       ValidNick(name) \/ ValidMask(name)
                PROVE  /\ ParseHandleCmd(<<"KICK", "SP", "a", "SP", ":">> \o name).args
                            = <<<<"a">>, name>>
                       /\ ParseHandleCmd(<<"KICK", "SP">> \o name \o <<"SP", "a">>).args
                            = <<name, <<"a">>>>
                          <=> ToSet(name) \cap Blank = {} /\ Head(name) # ":"
    BY DEF NamesCanBeRepeated
  <2>1. text \in Seq(Char) /\ Len(text) \in Nat
    BY <1>1, LinesAreTexts
  <2>2. /\ start \in Seq(Char) /\ Len(start) = 2
        /\ start[1] = "NICK" /\ start[2] = "SP"
    BY DEF Char, CommandName
  <2>. HIDE DEF start
  <2>3. /\ s \in Seq(Char) /\ Len(s) = Len(start) + Len(text)
        /\ \A i \in 1..Len(start) : s[i] = start[i]
    BY <2>1, <2>2, LinesJoined
  <2>. HIDE DEF s
  <2>4. args = SplitIRCMessage[From(s, 2)]
    <3>1. Len(s) >= 2 /\ s[1] \notin Blank /\ s[1] # ":" /\ s[2] \in Blank
      BY <2>1, <2>2, <2>3 DEF Blank
    <3>2. ParseHandleCmd(s) = [handler |-> Handler(ToUpper(<<s[1]>>)),
                               args |-> SplitIRCMessage[From(s, 2)]]
      BY <2>3, <3>1, CommandIsCut
    <3>. QED  BY <3>2
  <2>5. ArgsOk(args)
    <3>1. ASSUME NEW p \in 1..(Len(s) + 1)
          PROVE  ArgsOk(SplitIRCMessage[From(s, p)])
      BY <2>3, ParametersAreOk
    <3>2. 2 \in 1..(Len(s) + 1)
      BY <2>1, <2>2, <2>3
    <3>. QED  BY <2>4, <3>1, <3>2
  <2>. HIDE DEF args
  <2>6. name \in Seq(Char) /\ "LF" \notin ToSet(name)
    <3>1. 1 \in 1..Len(args)
      BY <2>5 DEF ArgsOk
    <3>. QED  BY <2>5, <3>1 DEF ArgsOk
  <2>7. name # <<>>
    BY DEF ValidNick, ValidMask
  <2>. HIDE DEF name
  <2>8. ParseHandleCmd(<<"KICK", "SP", "a", "SP", ":">> \o name).args
          = <<<<"a">>, name>>
    <3>1. PICK c \in Seq(Char) : c = <<"KICK", "SP", "a", "SP", ":">>
      <4>1. <<"KICK", "SP", "a", "SP", ":">> \in Seq(Char)
        BY DEF Char, CommandName
      <4>. QED  BY <4>1
    <3>2. PICK t \in Seq(Char) : t = c \o name
      BY <2>6, Joined
    <3>3. /\ Len(t) = Len(c) + Len(name)
          /\ \A i \in 1..Len(c) : t[i] = c[i]
          /\ \A i \in 1..Len(name) : t[Len(c) + i] = name[i]
      BY <2>6, <3>2, Joined
    <3>4. /\ Len(c) = 5 /\ c[1] = "KICK" /\ c[2] = "SP" /\ c[3] = "a"
          /\ c[4] = "SP" /\ c[5] = ":"
      BY <3>1
    <3>5. /\ Len(t) = 5 + Len(name)
          /\ t[1] = "KICK" /\ t[2] = "SP" /\ t[3] = "a" /\ t[4] = "SP" /\ t[5] = ":"
          /\ \A i \in 1..Len(name) : t[5 + i] = name[i]
      BY <2>6, <3>3, <3>4
    <3>6. ParseHandleCmd(t).args = <<<<"a">>, name>>
      BY <2>6, <3>5, GivenLast
    <3>. QED  BY <3>1, <3>2, <3>6
  <2>9. ParseHandleCmd(<<"KICK", "SP">> \o name \o <<"SP", "a">>).args
          = <<name, <<"a">>>>
        <=> ToSet(name) \cap Blank = {} /\ Head(name) # ":"
    <3>1. PICK c \in Seq(Char) : c = <<"KICK", "SP">>
      <4>1. <<"KICK", "SP">> \in Seq(Char)
        BY DEF Char, CommandName
      <4>. QED  BY <4>1
    <3>2. PICK d \in Seq(Char) : d = <<"SP", "a">>
      <4>1. <<"SP", "a">> \in Seq(Char)
        BY DEF Char, CommandName
      <4>. QED  BY <4>1
    <3>3. PICK u \in Seq(Char) : u = c \o name
      BY <2>6, Joined
    <3>4. PICK t \in Seq(Char) : t = u \o d
      BY Joined
    <3>5. /\ Len(u) = Len(c) + Len(name)
          /\ \A i \in 1..Len(c) : u[i] = c[i]
          /\ \A i \in 1..Len(name) : u[Len(c) + i] = name[i]
      BY <2>6, <3>3, Joined
    <3>6. /\ Len(t) = Len(u) + Len(d)
          /\ \A i \in 1..Len(u) : t[i] = u[i]
          /\ \A i \in 1..Len(d) : t[Len(u) + i] = d[i]
      BY <3>4, Joined
    <3>7. /\ Len(c) = 2 /\ c[1] = "KICK" /\ c[2] = "SP"
          /\ Len(d) = 2 /\ d[1] = "SP" /\ d[2] = "a"
      BY <3>1, <3>2
    <3>8. Len(name) \in Nat /\ Len(u) = 2 + Len(name) /\ Len(t) = Len(name) + 4
      BY <2>6, <3>5, <3>6, <3>7
    <3>9. t[1] = "KICK" /\ t[2] = "SP"
      BY <3>5, <3>6, <3>7, <3>8
    <3>10. t[Len(name) + 3] = "SP" /\ t[Len(name) + 4] = "a"
      <4>1. /\ Len(u) + 1 = Len(name) + 3 /\ Len(u) + 2 = Len(name) + 4
            /\ t[Len(u) + 1] = "SP" /\ t[Len(u) + 2] = "a"
        BY <3>6, <3>7, <3>8
      <4>. QED  BY <4>1
    <3>11. \A i \in 1..Len(name) : t[2 + i] = name[i]
      BY <3>5, <3>6, <3>7, <3>8
    <3>12. ParseHandleCmd(t).args = <<name, <<"a">>>>
           <=> ToSet(name) \cap Blank = {} /\ Head(name) # ":"
      <4>1. InFront(t, name)
        BY <3>8, <3>9, <3>10, <3>11 DEF InFront
      <4>. QED  BY <2>6, <2>7, <4>1, GivenInFront
    <3>. QED  BY <3>1, <3>2, <3>3, <3>4, <3>12
  <2>. QED  BY <2>8, <2>9
<1>. QED  BY <1>1, TextInvariant, PTL

-----------------------------------------------------------------------------
(***************************************************************************)
(* Words.                                                                  *)
(***************************************************************************)

\* Where words begin, those in the last parameter included.
Starts(s) ==
  {i \in DOMAIN s : s[i] \notin Blank /\ (i > 1 => s[i - 1] \in Blank)}

WordsFrom(s, p) == {i \in WordStarts(s) : i >= p}

\* Where a round of splitIRCMessage can begin.
Boundary(s, p) ==
  /\ p = 1 \/ p = Len(s) + 1 \/ s[p] \in Blank
  /\ \A j \in Starts(s) : j < p => s[j] # ":"

\* The definitions of Starts and WordStarts, for a text.
LEMMA WordStartsAre ==
  ASSUME NEW s \in Seq(Char)
  PROVE  /\ \A i : i \in Starts(s) <=>
              /\ i \in 1..Len(s)
              /\ s[i] \notin Blank
              /\ i > 1 => s[i - 1] \in Blank
         /\ \A i : i \in WordStarts(s) <=>
              i \in Starts(s) /\ \A j \in Starts(s) : j < i => s[j] # ":"
BY DEF WordStarts, Starts

\* The first word from p on begins at k, and the others behind it.
LEMMA FirstWordBegins ==
  ASSUME NEW s \in Seq(Char), NEW p \in 1..(Len(s) + 1), Boundary(s, p),
         NEW k, IsStop(s, NonBlank, p, k)
  PROVE  /\ k \in p..(Len(s) + 1)
         /\ \A i \in Starts(s) : i >= p => i >= k
         /\ k <= Len(s) => k \in WordStarts(s)
<1>1. Len(s) \in Nat /\ k \in p..(Len(s) + 1)
  BY DEF IsStop
<1>2. \A j \in p..(k - 1) : s[j] \in Blank
  <2>. TAKE j \in p..(k - 1)
  <2>1. j \in 1..Len(s) /\ s[j] \in Char
    BY <1>1
  <2>. QED  BY <2>1 DEF IsStop, NonBlank
<1>3. ASSUME NEW i \in Starts(s), i >= p
      PROVE  i >= k
  <2>1. i \in 1..Len(s) /\ s[i] \notin Blank
    BY WordStartsAre
  <2>2. ~(i \in p..(k - 1))
    BY <1>2, <2>1
  <2>. QED  BY <1>1, <1>3, <2>1, <2>2
<1>4. ASSUME k <= Len(s)
      PROVE  k \in WordStarts(s)
  <2>1. s[k] \notin Blank
    BY <1>4 DEF IsStop, NonBlank
  <2>2. ASSUME k > 1 PROVE s[k - 1] \in Blank
    <3>1. CASE k = p
      BY <1>1, <1>4, <2>1, <2>2, <3>1 DEF Boundary
    <3>2. CASE k # p
      BY <1>1, <1>2, <3>2
    <3>. QED  BY <3>1, <3>2
  <2>3. k \in Starts(s)
    BY <1>1, <1>4, <2>1, <2>2, WordStartsAre
  <2>4. \A j \in Starts(s) : j < k => s[j] # ":"
    <3>. SUFFICES ASSUME NEW j \in Starts(s), j < k
                  PROVE  s[j] # ":"
      OBVIOUS
    <3>1. j \in 1..Len(s)
      BY WordStartsAre
    <3>2. ~(j >= p)
      BY <1>1, <1>3, <3>1
    <3>. QED  BY <1>1, <3>1, <3>2 DEF Boundary
  <2>. QED  BY <2>3, <2>4, WordStartsAre
<1>. QED  BY <1>1, <1>3, <1>4

\* No word begins in blanks,
LEMMA NoWordsLeft ==
  ASSUME NEW s \in Seq(Char), NEW p \in 1..(Len(s) + 1), Boundary(s, p),
         IsStop(s, NonBlank, p, Len(s) + 1)
  PROVE  WordsFrom(s, p) = {}
<1>. SUFFICES ASSUME NEW i \in WordsFrom(s, p)
              PROVE  FALSE
  OBVIOUS
<1>1. i \in Starts(s) /\ i >= p /\ i \in 1..Len(s)
  BY WordStartsAre DEF WordsFrom
<1>2. i >= Len(s) + 1
  BY <1>1, FirstWordBegins
<1>3. Len(s) \in Nat
  OBVIOUS
<1>. QED  BY <1>1, <1>2, <1>3

\* the first that begins with a colon is the last,
LEMMA LastWordBegins ==
  ASSUME NEW s \in Seq(Char), NEW p \in 1..(Len(s) + 1), Boundary(s, p),
         NEW k, IsStop(s, NonBlank, p, k), k <= Len(s), s[k] = ":"
  PROVE  WordsFrom(s, p) = {k}
<1>1. /\ k \in p..(Len(s) + 1) /\ k \in WordStarts(s)
      /\ \A i \in Starts(s) : i >= p => i >= k
  BY FirstWordBegins
<1>2. k \in WordsFrom(s, p) /\ k \in Starts(s)
  BY <1>1, WordStartsAre DEF WordsFrom
<1>3. ASSUME NEW i \in WordsFrom(s, p)
      PROVE  i = k
  <2>1. i \in Starts(s) /\ i >= k /\ i \in 1..Len(s)
    BY <1>1, WordStartsAre DEF WordsFrom
  <2>2. ~(k < i)
    BY <1>2, WordStartsAre DEF WordsFrom
  <2>. QED  BY <1>1, <2>1, <2>2
<1>. QED  BY <1>2, <1>3

\* and behind any other, others begin.
LEMMA NextWordsBegin ==
  ASSUME NEW s \in Seq(Char), NEW p \in 1..(Len(s) + 1), Boundary(s, p),
         NEW k, IsStop(s, NonBlank, p, k), k <= Len(s), s[k] # ":",
         NEW e, IsStop(s, Blank, k, e), k < e
  PROVE  /\ WordsFrom(s, p) = {k} \cup WordsFrom(s, e)
         /\ Boundary(s, e)
<1>1. /\ k \in p..(Len(s) + 1) /\ k \in WordStarts(s)
      /\ \A i \in Starts(s) : i >= p => i >= k
  BY FirstWordBegins
<1>2. Len(s) \in Nat /\ e \in (k + 1)..(Len(s) + 1)
      /\ \A j \in k..(e - 1) : s[j] \notin Blank
  BY <1>1 DEF IsStop
<1>3. \A i \in Starts(s) : i >= p => i = k \/ i >= e
  <2>. SUFFICES ASSUME NEW i \in Starts(s), i >= p, i # k, ~(i >= e)
                PROVE  FALSE
    OBVIOUS
  <2>1. i \in 1..Len(s) /\ i >= k /\ (i > 1 => s[i - 1] \in Blank)
    BY <1>1, WordStartsAre
  <2>2. i > 1 /\ i - 1 \in k..(e - 1)
    BY <1>1, <1>2, <2>1
  <2>. QED  BY <1>2, <2>1, <2>2
<1>4. \A i : i \in WordsFrom(s, p) <=> i \in {k} \cup WordsFrom(s, e)
  <2>. TAKE i
  <2>1. i \in WordStarts(s) => i \in Starts(s) /\ i \in 1..Len(s)
    BY WordStartsAre
  <2>2. ASSUME i \in WordsFrom(s, p) PROVE i \in {k} \cup WordsFrom(s, e)
    BY <1>3, <2>1, <2>2 DEF WordsFrom
  <2>3. ASSUME i \in {k} \cup WordsFrom(s, e) PROVE i \in WordsFrom(s, p)
    BY <1>1, <1>2, <2>1, <2>3 DEF WordsFrom
  <2>. QED  BY <2>2, <2>3
<1>5. Boundary(s, e)
  <2>1. e = 1 \/ e = Len(s) + 1 \/ s[e] \in Blank
    BY <1>2 DEF IsStop
  <2>2. \A j \in Starts(s) : j < e => s[j] # ":"
    <3>. SUFFICES ASSUME NEW j \in Starts(s), j < e
                  PROVE  s[j] # ":"
      OBVIOUS
    <3>1. j \in 1..Len(s)
      BY WordStartsAre
    <3>2. j < p \/ j = k
      BY <1>2, <1>3, <3>1
    <3>. QED  BY <3>2 DEF Boundary
  <2>. QED  BY <2>1, <2>2 DEF Boundary
<1>. QED  BY <1>4, <1>5

\* The parameter that begins at k, by where it stops.
LEMMA ParameterStops ==
  ASSUME NEW s \in Seq(Char), NEW k \in 1..Len(s), NEW l,
         IsStop(s, IF s[k] = ":" THEN {"LF"} ELSE Blank, k + 1, l)
  PROVE  ParameterAt(s, k) = SubSeq(s, IF s[k] = ":" THEN k + 1 ELSE k, l - 1)
<1>. DEFINE ends == IF s[k] = ":" THEN {"LF"} ELSE Blank
            stops == {j \in (k + 1)..Len(s) : s[j] \in ends} \cup {Len(s) + 1}
<1>. HIDE DEF ends
<1>1. /\ Len(s) \in Nat /\ l \in (k + 1)..(Len(s) + 1)
      /\ \A j \in (k + 1)..(l - 1) : s[j] \notin ends
      /\ l <= Len(s) => s[l] \in ends
  BY DEF IsStop, ends
<1>2. l \in stops
  BY <1>1
<1>3. \A j \in stops : j \in Nat /\ l <= j
  BY <1>1
<1>. HIDE DEF stops
<1>4. (CHOOSE j \in stops : \A m \in stops : j <= m) = l
  <2>1. \A j \in stops : (\A m \in stops : j <= m) => j = l
    BY <1>2, <1>3
  <2>. QED  BY <1>2, <1>3, <2>1
<1>. QED  BY <1>4 DEF ParameterAt, stops, ends

\* The parameters from p on are the words that begin there.
ByWords(s, p) ==
  LET args == SplitIRCMessage[From(s, p)]
      words == WordsFrom(s, p)
  IN  /\ Len(args) = Rank(words, Len(s))
      /\ \A i \in words : args[Rank(words, i)] = ParameterAt(s, i)

\* Words begin at positions of the text.
LEMMA WordsArePositions ==
  ASSUME NEW s \in Seq(Char), NEW p
  PROVE  IsPositions(WordsFrom(s, p)) /\ \A i \in WordsFrom(s, p) : i \in 1..Len(s)
BY WordStartsAre DEF WordsFrom, IsPositions

\* That holds if nothing but blanks is left,
LEMMA BlanksByWords ==
  ASSUME NEW s \in Seq(Char), NEW p \in 1..(Len(s) + 1), Boundary(s, p),
         IsStop(s, NonBlank, p, Len(s) + 1)
  PROVE  ByWords(s, p)
<1>1. WordsFrom(s, p) = {}
  BY NoWordsLeft
<1>2. SplitIRCMessage[From(s, p)] = <<>>
  BY SplitOfBlanks
<1>3. Len(<<>>) = 0
  OBVIOUS
<1>. QED  BY <1>1, <1>2, <1>3, RankOfNone DEF ByWords

\* if the next word begins with a colon,
LEMMA TrailingByWords ==
  ASSUME NEW s \in Seq(Char), NEW p \in 1..(Len(s) + 1), Boundary(s, p),
         NEW k, IsStop(s, NonBlank, p, k), k <= Len(s), s[k] = ":"
  PROVE  ByWords(s, p)
<1>1. k \in Nat /\ k >= 1 /\ Len(s) \in Nat /\ k \in 1..Len(s)
  BY DEF IsStop
<1>2. PICK l : IsStop(s, {"LF"}, k + 1, l)
  <2>1. k + 1 \in 1..(Len(s) + 1)
    BY <1>1
  <2>. QED  BY <2>1, StopExists
<1>3. SplitIRCMessage[From(s, p)] = <<SubSeq(s, k + 1, l - 1)>>
  BY <1>2, SplitOfTrailing
<1>4. ParameterAt(s, k) = SubSeq(s, k + 1, l - 1)
  <2>1. IsStop(s, IF s[k] = ":" THEN {"LF"} ELSE Blank, k + 1, l)
    BY <1>2
  <2>2. ParameterAt(s, k) = SubSeq(s, IF s[k] = ":" THEN k + 1 ELSE k, l - 1)
    BY <1>1, <2>1, ParameterStops
  <2>. QED  BY <2>2
<1>5. WordsFrom(s, p) = {k}
  BY LastWordBegins
<1>6. Rank({k}, k) = 1 /\ Rank({k}, Len(s)) = 1
  <2>. DEFINE none == {}
              words == {k} \cup none
  <2>1. words = {k}
    OBVIOUS
  <2>2. IsPositions(none) /\ (\A j \in none : j > k) /\ \A i : Rank(none, i) = 0
    BY RankOfNone DEF IsPositions
  <2>. HIDE DEF none
  <2>3. ASSUME NEW i \in Nat, i >= k
        PROVE  Rank(words, i) = Rank(none, i) + 1
    BY <1>1, <2>2, <2>3, RankBehind
  <2>. HIDE DEF words
  <2>4. Rank(words, k) = 1 /\ Rank(words, Len(s)) = 1
    BY <1>1, <2>2, <2>3
  <2>. QED  BY <2>1, <2>4
<1>. DEFINE w == SubSeq(s, k + 1, l - 1)
<1>. HIDE DEF w
<1>7. Len(<<w>>) = 1 /\ <<w>>[1] = w
  OBVIOUS
<1>. QED  BY <1>3, <1>4, <1>5, <1>6, <1>7 DEF ByWords, w

\* and if it holds behind the next word;
LEMMA WordByWords ==
  ASSUME NEW s \in Seq(Char), NEW p \in 1..(Len(s) + 1), Boundary(s, p),
         NEW k, IsStop(s, NonBlank, p, k), k <= Len(s), s[k] # ":",
         NEW e, IsStop(s, Blank, k, e), k < e, ByWords(s, e)
  PROVE  ByWords(s, p)
<1>. DEFINE w == SubSeq(s, k, e - 1)
            x == SplitIRCMessage[From(s, e)]
            A == WordsFrom(s, e)
            B == {k} \cup A
            N == Len(s)
<1>1. /\ k \in Nat /\ k >= 1 /\ N \in Nat /\ k \in 1..N
      /\ e \in (k + 1)..(N + 1)
  BY DEF IsStop
<1>2. SplitIRCMessage[From(s, p)] = <<w>> \o x
  BY SplitOfWord
<1>3. x \in Seq(Seq(Char)) /\ w \in Seq(Char)
  <2>1. e \in 1..(Len(s) + 1) /\ e - 1 \in (k - 1)..Len(s) /\ k \in 1..(Len(s) + 1)
    BY <1>1
  <2>. QED  BY <2>1, ParametersAreOk, PartIs DEF ArgsOk
<1>4. ParameterAt(s, k) = w
  <2>1. IsStop(s, Blank, k + 1, e)
    BY <1>1 DEF IsStop
  <2>2. IsStop(s, IF s[k] = ":" THEN {"LF"} ELSE Blank, k + 1, e)
    BY <2>1
  <2>3. ParameterAt(s, k) = SubSeq(s, IF s[k] = ":" THEN k + 1 ELSE k, e - 1)
    BY <1>1, <2>2, ParameterStops
  <2>. QED  BY <2>3
<1>5. WordsFrom(s, p) = B
  BY NextWordsBegin
<1>6. IsPositions(A) /\ \A j \in A : j > k /\ j \in Nat /\ j <= N
  <2>1. IsPositions(A) /\ \A j \in A : j \in 1..Len(s)
    BY WordsArePositions
  <2>2. \A j \in A : j >= e
    BY DEF WordsFrom
  <2>. HIDE DEF A
  <2>. QED  BY <1>1, <2>1, <2>2
<1>7. Len(x) = Rank(A, N) /\ \A i \in A : x[Rank(A, i)] = ParameterAt(s, i)
  BY DEF ByWords
<1>8. ASSUME NEW i \in Nat, i >= k
      PROVE  Rank(A, k) = 0 /\ Rank(B, i) = Rank(A, i) + 1
  <2>. HIDE DEF A
  <2>. QED  BY <1>1, <1>6, <1>8, RankBehind
<1>9. \A i : i \in B <=> i = k \/ i \in A
  OBVIOUS
<1>. HIDE DEF w, x, A, B, N
<1>10. /\ Len(<<w>> \o x) = Len(x) + 1
       /\ (<<w>> \o x)[1] = w
       /\ \A i \in 1..Len(x) : (<<w>> \o x)[i + 1] = x[i]
  BY <1>3, PrependProperties, SMTT(30)
<1>11. Len(<<w>> \o x) = Rank(B, N)
  BY <1>1, <1>7, <1>8, <1>10
<1>12. ASSUME NEW i \in B
       PROVE  (<<w>> \o x)[Rank(B, i)] = ParameterAt(s, i)
  <2>1. CASE i = k
    <3>1. Rank(B, i) = 1
      BY <1>1, <1>8, <2>1
    <3>. QED  BY <1>4, <1>10, <2>1, <3>1
  <2>2. CASE i \in A
    <3>1. Rank(A, i) \in 1..Len(x)
      BY <1>1, <1>6, <1>7, <2>2, RankGrows
    <3>2. Rank(B, i) = Rank(A, i) + 1
      <4>1. i \in Nat /\ i >= k
        BY <1>1, <1>6, <2>2
      <4>. QED  BY <1>8, <4>1
    <3>. QED  BY <1>7, <1>10, <2>2, <3>1, <3>2
  <2>. QED  BY <1>12, <1>9, <2>1, <2>2
<1>. QED  BY <1>2, <1>5, <1>11, <1>12 DEF ByWords, N

\* therefore it holds wherever a round can begin.
LEMMA AllByWords ==
  ASSUME NEW s \in Seq(Char), NEW p \in 1..(Len(s) + 1), Boundary(s, p)
  PROVE  ByWords(s, p)
<1>. DEFINE Good == {q \in Nat : Boundary(s, q) => ByWords(s, q)}
<1>1. Len(s) \in Nat
  OBVIOUS
<1>2. ASSUME NEW q \in 1..(Len(s) + 1), Boundary(s, q),
             \A r \in (q + 1)..(Len(s) + 1) : r \in Good
      PROVE  ByWords(s, q)
  <2>1. PICK k : IsStop(s, NonBlank, q, k)
    BY StopExists
  <2>2. k \in q..(Len(s) + 1)
    BY <2>1 DEF IsStop
  <2>3. CASE k = Len(s) + 1
    BY <1>2, <2>1, <2>3, BlanksByWords
  <2>4. CASE k <= Len(s) /\ s[k] = ":"
    BY <1>2, <2>1, <2>4, TrailingByWords
  <2>5. CASE k <= Len(s) /\ s[k] # ":"
    <3>1. k \in 1..(Len(s) + 1)
      BY <1>1, <2>2
    <3>2. PICK e : IsStop(s, Blank, k, e)
      BY <3>1, StopExists
    <3>3. k < e
      BY <2>1, <2>5, <3>2, CutAt
    <3>4. e \in (q + 1)..(Len(s) + 1)
      BY <1>1, <2>2, <3>2, <3>3 DEF IsStop
    <3>5. Boundary(s, e)
      BY <1>2, <2>1, <2>5, <3>2, <3>3, NextWordsBegin
    <3>6. ByWords(s, e)
      BY <1>2, <3>4, <3>5
    <3>. QED  BY <1>2, <2>1, <2>5, <3>2, <3>3, <3>6, WordByWords
  <2>. QED  BY <1>1, <2>2, <2>3, <2>4, <2>5
<1>3. ASSUME NEW q \in 1..(Len(s) + 1),
             \A r \in (q + 1)..(Len(s) + 1) : r \in Good
      PROVE  q \in Good
  BY <1>2, <1>3
<1>. HIDE DEF Good
<1>4. \A q \in 1..(Len(s) + 1) : q \in Good
  BY <1>1, <1>3, InductionDown
<1>. QED  BY <1>4 DEF Good

(***************************************************************************)
(* Every word of a line is a parameter, in order, and the first that       *)
(* begins with a colon takes all that follows it up to a line feed: what   *)
(* the loop of splitIRCMessage makes of a line of any length.              *)
(***************************************************************************)
THEOREM LinesAreSplitByWords == Spec => []SplitIsByWords
<1>1. ASSUME TypeOK
      PROVE  SplitIsByWords
  <2>. SUFFICES ASSUME kind = "line"
                PROVE  LET starts == WordStarts(text)
                           args == SplitIRCMessage[text]
                       IN  /\ Len(args) = Cardinality(starts)
                           /\ \A i \in starts :
                                args[Cardinality({j \in starts : j <= i})]
                                  = ParameterAt(text, i)
    BY DEF SplitIsByWords
  <2>1. text \in Seq(Char)
    BY <1>1, LinesAreTexts
  <2>2. 1 \in 1..(Len(text) + 1) /\ Len(text) \in Nat
    BY <2>1
  <2>3. Boundary(text, 1)
    BY <2>1, WordStartsAre DEF Boundary
  <2>4. ByWords(text, 1)
    BY <2>1, <2>2, <2>3, AllByWords
  <2>5. From(text, 1) = text
    BY <2>1, WholeText
  <2>6. \A i \in WordStarts(text) : i \in 1..Len(text)
    BY <2>1, WordStartsAre
  <2>7. WordsFrom(text, 1) = WordStarts(text)
    BY <2>2, <2>6 DEF WordsFrom
  <2>8. Rank(WordStarts(text), Len(text)) = Cardinality(WordStarts(text))
    <3>1. UpTo(WordStarts(text), Len(text)) = WordStarts(text)
      BY <2>2, <2>6 DEF UpTo
    <3>. QED  BY <3>1 DEF Rank
  <2>9. \A i : Cardinality({j \in WordStarts(text) : j <= i})
                 = Rank(WordStarts(text), i)
    BY DEF Rank, UpTo
  <2>. QED  BY <2>4, <2>5, <2>7, <2>8, <2>9 DEF ByWords
<1>. QED  BY <1>1, TextInvariant, PTL
=============================================================================
