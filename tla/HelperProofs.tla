---------------------------- MODULE HelperProofs ----------------------------
(***************************************************************************)
(* Proofs about the helpers of the configuration reader: numbers in words  *)
(* of any width, texts of any bytes, lists of any length and characters,   *)
(* files of any lines, patterns and names of any characters.               *)
(***************************************************************************)
EXTENDS StrNumber, Utf8, TrimList, Glob, LineReader, Induction, SequenceTheorems

(* Numbers: StrNumber.                                                     *)
USE DEF Uint64

LEMMA Modulo ==
  ASSUME NEW d \in Nat \ {0}, NEW q \in Nat
  PROVE  q % d \in 0 .. d - 1 /\ (q < d => q % d = q)
  OBVIOUS

(* Reducing to the width of a word gives a word, and changes nothing that  *)
(* fits.                                                                   *)
LEMMA Word ==
  ASSUME NEW q \in Nat
  PROVE  /\ q % (max_uint64 + 1) \in Uint64
         /\ q \in Uint64 => q % (max_uint64 + 1) = q
<1> DEFINE d == max_uint64 + 1
<1>1. d \in Nat \ {0} /\ 0 .. d - 1 = Uint64 /\ (q \in Uint64 => q < d)
  BY WidthAssumption DEF WidthAssumption
<1> HIDE DEF d
<1>2. q % d \in Uint64 /\ (q \in Uint64 => q % d = q)
  BY <1>1, Modulo
<1> QED BY <1>2 DEF d

LEMMA Products == ASSUME NEW a \in Nat, NEW b \in Nat PROVE a * b \in Nat
  OBVIOUS

(* What the test against max_uint64 decides, without division.             *)
LEMMA DigitTest ==
  ASSUME NEW v \in Nat, NEW d \in Nat, d <= max_uint64
  PROVE  (max_uint64 - d) \div 10 < v <=> v * 10 + d > max_uint64
  BY WidthAssumption DEF WidthAssumption

(* A suffix is no digit, so a word has room for a digit that is tested.    *)
LEMMA NumberInitially == NumberInit => NumberTypeOK
<1> SUFFICES ASSUME NumberInit PROVE NumberTypeOK
  OBVIOUS
<1>1. str \in Strings /\ str \in Seq(Chars) /\ Len(str) \in Nat
  BY NumberAssumption DEF NumberInit, NumberAssumption
<1>2. (str # <<>> => Len(str) > 0) /\ 0 \in Uint64
  BY <1>1, WidthAssumption DEF WidthAssumption
<1>3. \A s \in suffixes : Factor[s] \in Uint64
  BY NumberAssumption DEF NumberAssumption
<1>4. factor \in Uint64 \cup {1} /\ n \in 0 .. Len(str)
  BY <1>1, <1>2, <1>3 DEF NumberInit
<1> QED BY <1>1, <1>2, <1>4 DEF NumberInit, NumberTypeOK

-----------------------------------------------------------------------------
(* A number too short to be tested is below a power of ten that fits.      *)
Shortcut == number_ret = "running" /\ len < Digits => exact < Power[len]

(* What *value holds after the multiplication, and what the test says.     *)
Product ==
  /\ number_ret \in {"SUCCEED", "incorrect", "stored"} => value = (exact * factor) % (max_uint64 + 1)
  /\ number_ret = "stored" => InRange(value)
  /\ number_ret = "incorrect" => ~InRange(value)

NumberInv == NumberTypeOK /\ DigitsAreExact /\ Shortcut /\ Product

LEMMA NumberStart == NumberInit => NumberInv
<1> SUFFICES ASSUME NumberInit PROVE NumberInv
  OBVIOUS
<1>1. NumberTypeOK
  BY NumberInitially
<1>2. DigitsAreExact /\ Product
  BY DEF NumberInit, DigitsAreExact, Product
<1>3. Shortcut
  BY WidthAssumption DEF NumberInit, Shortcut, WidthAssumption
<1> QED BY <1>1, <1>2, <1>3 DEF NumberInv

(* One more digit: the tested number fits, and so does an untested one.    *)
LEMMA OneDigit ==
  ASSUME NumberTypeOK, DigitsAreExact, Shortcut, number_ret = "running", c \in 0 .. 9
  PROVE  /\ exact * 10 + c \in Nat /\ value = exact
         /\ Exceeded => exact * 10 + c > max_uint64
         /\ ~Exceeded => exact * 10 + c \in Uint64
         /\ len + 1 < Digits => exact * 10 + c < Power[len + 1]
<1> DEFINE d == c
<1>1. d \in Nat /\ d <= 9 /\ d <= max_uint64 /\ exact \in Nat /\ len \in Nat
  <2>1. d \in Nat /\ d <= 9
    OBVIOUS
  <2>2. max_uint64 \in Nat /\ max_uint64 >= 9
    BY WidthAssumption DEF WidthAssumption
  <2>3. exact \in Nat /\ str \in Seq(Chars) /\ len \in 0 .. Len(str)
    BY DEF NumberTypeOK
  <2> HIDE DEF d
  <2> QED
    BY ONLY <2>1, <2>2, <2>3
<1>2. value = exact
  BY DEF DigitsAreExact
<1>3. (max_uint64 - d) \div 10 < exact <=> exact * 10 + d > max_uint64
  BY <1>1, DigitTest
<1>4. len + 1 < Digits => exact * 10 + d < Power[len + 1]
  <2> SUFFICES ASSUME len + 1 < Digits PROVE exact * 10 + d < Power[len + 1]
    OBVIOUS
  <2>1. exact < Power[len] /\ len + 1 \in 1 .. Digits /\ len \in 0 .. Digits
    BY <1>1, WidthAssumption DEF Shortcut, WidthAssumption
  <2>2. Power[len + 1] = 10 * Power[(len + 1) - 1] /\ (len + 1) - 1 = len
    BY <1>1, <2>1, WidthAssumption DEF WidthAssumption
  <2>3. Power[len] \in Nat
    BY <2>1, WidthAssumption DEF WidthAssumption
  <2> HIDE DEF d
  <2> QED BY <1>1, <2>1, <2>2, <2>3
<1>5. len + 1 < Digits => exact * 10 + d \in Uint64
  <2> SUFFICES ASSUME len + 1 < Digits PROVE exact * 10 + d \in Uint64
    OBVIOUS
  <2>1. Power[len + 1] <= max_uint64 + 1 /\ Power[len + 1] \in Nat /\ max_uint64 \in Nat
    <3>1. len + 1 \in 0 .. Digits - 1 /\ len + 1 \in 0 .. Digits
      BY <1>1, WidthAssumption DEF WidthAssumption
    <3> QED BY <3>1, WidthAssumption DEF WidthAssumption
  <2> HIDE DEF d
  <2> QED BY <1>1, <1>4, <2>1
<1>6. Digits \in Nat /\ max_uint64 \in Nat
  BY WidthAssumption DEF WidthAssumption
<1> QED BY <1>1, <1>2, <1>3, <1>4, <1>5, <1>6 DEF Exceeded

LEMMA NumberStep == NumberInv /\ [NumberNext]_number_vars => NumberInv'
<1> SUFFICES ASSUME NumberInv, [NumberNext]_number_vars PROVE NumberInv'
  OBVIOUS
<1> USE DEF NumberInv
<1>0. /\ str \in Seq(Chars) /\ Len(str) \in Nat /\ max_uint64 \in Nat
      /\ n \in Nat /\ len \in Nat /\ n + len <= Len(str)
      /\ factor \in Nat /\ exact \in Nat /\ value \in Uint64
  <2>1. max_uint64 \in Nat
    BY WidthAssumption DEF WidthAssumption
  <2>2. /\ str \in Seq(Chars) /\ factor \in Uint64 \cup {1} /\ exact \in Nat /\ value \in Uint64
        /\ n \in 0 .. Len(str) /\ len \in 0 .. Len(str) /\ n + len <= Len(str)
    BY DEF NumberTypeOK
  <2> QED
    BY ONLY <2>1, <2>2
<1>1. CASE NotADigit
  BY <1>0, <1>1 DEF NotADigit, NumberTypeOK, DigitsAreExact, Shortcut, Product
<1>2. CASE TooLarge
  <2>1. exact * 10 + c > max_uint64 /\ exact * 10 + c \in Nat
    BY <1>2, OneDigit DEF TooLarge
  <2>2. exact' = exact * 10 + c /\ number_ret' = "FAIL" /\ UNCHANGED <<str, factor, n, len, value>>
    BY <1>2 DEF TooLarge
  <2>3. NumberTypeOK'
    BY <2>1, <2>2 DEF NumberTypeOK
  <2> QED BY <2>1, <2>2, <2>3 DEF DigitsAreExact, Shortcut, Product
<1>3. CASE Digit
  <2>1. /\ exact * 10 + c \in Uint64 /\ value = exact
        /\ len + 1 < Digits => exact * 10 + c < Power[len + 1]
    BY <1>3, OneDigit DEF Digit
  <2>2. (value * 10 + c) % (max_uint64 + 1) = exact * 10 + c
    BY <2>1, Word, <1>0
  <2>3. /\ n' = n - 1 /\ len' = len + 1 /\ exact' = exact * 10 + c /\ n > 0
        /\ value' = (value * 10 + c) % (max_uint64 + 1)
        /\ number_ret = "running" /\ UNCHANGED <<str, factor, number_ret>>
    BY <1>3 DEF Digit
  <2>4. NumberTypeOK'
    <3>1. value' \in Uint64 /\ exact' \in Nat
      BY <1>0, <2>1, <2>2, <2>3
    <3>2. n' \in 0 .. Len(str) /\ len' \in 0 .. Len(str) /\ n' + len' <= Len(str)
      BY <1>0, <2>3
    <3> QED BY <2>3, <3>1, <3>2 DEF NumberTypeOK
  <2>5. DigitsAreExact' /\ Product'
    BY <2>2, <2>3 DEF DigitsAreExact, Product
  <2>6. Shortcut'
    BY <1>0, <2>1, <2>3 DEF Shortcut
  <2> QED BY <2>4, <2>5, <2>6
<1>4. CASE Converted
  <2>1. /\ number_ret = "running" /\ number_ret' = "SUCCEED"
        /\ value' = (value * factor) % (max_uint64 + 1)
        /\ UNCHANGED <<str, factor, n, len, exact>>
    BY <1>4 DEF Converted, Multiply
  <2>2. value = exact
    BY <2>1 DEF DigitsAreExact
  <2>3. value' \in Uint64
    BY <1>0, <2>1, <2>2, Products, Word
  <2> QED BY <2>1, <2>2, <2>3 DEF NumberTypeOK, DigitsAreExact, Shortcut, Product
<1>5. CASE Accepted
  <2>1. number_ret' \in {"incorrect", "stored"} /\ number_ret = "SUCCEED"
        /\ UNCHANGED <<str, factor, n, len, value, exact>>
        /\ (number_ret' = "stored" <=> ~(cfg_min > value \/ (cfg_max # 0 /\ value > cfg_max)))
    BY <1>5 DEF Accepted
  <2>2. cfg_min \in Nat /\ cfg_max \in Nat /\ value \in Nat
    BY <1>0, NumberAssumption, WidthAssumption DEF NumberAssumption, WidthAssumption
  <2>3. number_ret' = "stored" <=> InRange(value)
    BY <2>1, <2>2 DEF InRange
  <2> QED BY <2>1, <2>3 DEF NumberTypeOK, DigitsAreExact, Shortcut, Product, InRange
<1>6. CASE NumberStopped
  BY <1>6 DEF NumberStopped, number_vars, NumberTypeOK, DigitsAreExact, Shortcut, Product, InRange
<1>7. CASE UNCHANGED number_vars
  BY <1>7 DEF number_vars, NumberTypeOK, DigitsAreExact, Shortcut, Product, InRange
<1> QED BY <1>1, <1>2, <1>3, <1>4, <1>5, <1>6, <1>7 DEF NumberNext

LEMMA NumberInvariant == NumberSpec => []NumberInv
  BY NumberStart, NumberStep, PTL DEF NumberSpec

(* The type invariant of the conversion: a number never leaves its word.   *)
THEOREM NumberTypeCorrect == NumberSpec => []NumberTypeOK
<1>1. NumberInv => NumberTypeOK
  BY DEF NumberInv
<1> QED BY NumberInvariant, <1>1, PTL

(* The digits of a number are converted without wrapping at any width, and *)
(* only a number that does not fit is refused as too large: the loop may   *)
(* skip the test for every number that is shorter than the largest.        *)
THEOREM DigitsNeverWrap == NumberSpec => []DigitsAreExact
<1>1. NumberInv => DigitsAreExact
  BY DEF NumberInv
<1> QED BY NumberInvariant, <1>1, PTL

(* A product that fits is stored exactly when it is in the range of its    *)
(* table entry.                                                            *)
THEOREM ProductStored == NumberSpec => []StoresProduct
<1>1. NumberInv => StoresProduct
  <2> SUFFICES ASSUME NumberInv, exact * factor <= max_uint64
               PROVE  /\ number_ret = "stored" => value = exact * factor /\ InRange(value)
                      /\ number_ret = "incorrect" => ~InRange(exact * factor)
    BY DEF StoresProduct
  <2>1. exact \in Nat /\ factor \in Nat
    BY WidthAssumption DEF NumberInv, NumberTypeOK, WidthAssumption
  <2>2. exact * factor \in Uint64
    BY <2>1, Products
  <2>3. (exact * factor) % (max_uint64 + 1) = exact * factor
    BY <2>1, <2>2, Products, Word
  <2> QED BY <2>3 DEF NumberInv, Product
<1> QED BY NumberInvariant, <1>1, PTL

HIDE DEF Uint64

(* The number of the first i digits of s.                                  *)
Reads(num, s) ==
  /\ num \in [0 .. Len(s) -> Nat] /\ num[0] = 0
  /\ \A i \in 1 .. Len(s) : num[i] = num[i - 1] * 10 + s[i]

(* The recursive definition of Number has a solution on the digits.        *)
LEMMA NumberIs ==
  ASSUME NEW s \in Seq(0 .. 9)
  PROVE  \E num : Reads(num, s) /\ Number(s) = num[Len(s)]
<1> DEFINE m == Len(s)
           step == [i \in 1 .. m |-> [v \in Nat |-> v * 10 + s[i]]]
           Equation(g) == g = [i \in 0 .. m |-> IF i = 0 THEN 0 ELSE g[i - 1] * 10 + s[i]]
           num == CHOOSE g : Equation(g)
<1>1. m \in Nat /\ \A i \in 1 .. m : s[i] \in Nat
  OBVIOUS
<1>2. \A i \in 0 + 1 .. m : step[i] \in [Nat -> Nat]
  BY <1>1
<1>3. PICK g : Solves(g, 0, m, Nat, 0, step)
  <2> HIDE DEF m, step
  <2>1. 0 \in Int /\ m \in Int /\ 0 <= m /\ 0 \in Nat
    BY <1>1
  <2> QED
    BY ONLY <1>2, <2>1, Recursion
<1>4. \A i \in 1 .. m : g[i] = g[i - 1] * 10 + s[i]
  <2>1. \A i \in 0 + 1 .. m : g[i] = step[i][g[i - 1]]
    BY <1>3 DEF Solves
  <2>2. \A i \in 1 .. m : i \in 0 + 1 .. m /\ i - 1 \in 0 .. m
    BY <1>1
  <2>3. \A i \in 0 .. m : g[i] \in Nat
    BY <1>3 DEF Solves
  <2> QED
    BY <2>1, <2>2, <2>3
<1>5. g \in [0 .. m -> Nat] /\ g[0] = 0
  BY <1>3 DEF Solves
<1>6. Equation(g)
  <2>1. g = [i \in 0 .. m |-> g[i]]
    BY <1>5
  <2>2. \A i \in 0 .. m : g[i] = IF i = 0 THEN 0 ELSE g[i - 1] * 10 + s[i]
    <3>1. \A i \in 0 .. m : i # 0 => i \in 1 .. m
      BY <1>1
    <3> QED
      BY <1>4, <1>5, <3>1
  <2> QED
    BY <2>1, <2>2
<1>7. Equation(num)
  BY <1>6
<1>8. Number(s) = num[m]
  BY DEF Number
<1> HIDE DEF num
<1>9. num[0] = 0 /\ DOMAIN num = 0 .. m /\ \A i \in 1 .. m : num[i] = num[i - 1] * 10 + s[i]
  <2>1. ASSUME NEW i \in 0 .. m PROVE num[i] = IF i = 0 THEN 0 ELSE num[i - 1] * 10 + s[i]
    BY <1>7
  <2>2. 0 \in 0 .. m /\ \A i \in 1 .. m : i \in 0 .. m /\ i # 0
    BY <1>1
  <2>3. DOMAIN num = 0 .. m
    BY <1>7
  <2> QED
    BY <2>1, <2>2, <2>3
<1> DEFINE S == {k \in Nat : k <= m => num[k] \in Nat}
<1>10. \A k \in Nat : k \in S
  <2>1. 0 \in S
    BY <1>9
  <2>2. ASSUME NEW k \in Nat, k \in S PROVE k + 1 \in S
    <3>1. k + 1 <= m => k + 1 \in 1 .. m /\ (k + 1) - 1 = k /\ num[k] \in Nat /\ s[k + 1] \in Nat
      BY <1>1, <2>2
    <3>2. k + 1 <= m => num[k + 1] = num[k] * 10 + s[k + 1]
      BY <1>9, <3>1
    <3> QED
      BY <3>1, <3>2
  <2> HIDE DEF S
  <2> QED
    BY <2>1, <2>2, InductionOnSet
<1>11. num = [i \in 0 .. m |-> num[i]]
  BY <1>7
<1>12. \A i \in 0 .. m : num[i] \in Nat
  BY <1>10
<1> QED
  BY <1>8, <1>9, <1>11, <1>12 DEF Reads

(* More digits make no number smaller.                                     *)
LEMMA NumberGrows ==
  ASSUME NEW s \in Seq(0 .. 9), NEW num, Reads(num, s),
         NEW i \in 0 .. Len(s), NEW j \in 0 .. Len(s), i <= j
  PROVE  num[i] <= num[j]
<1> DEFINE S == {d \in Nat : i + d <= Len(s) => num[i] <= num[i + d]}
<1>1. 0 \in S
  BY DEF Reads
<1>2. ASSUME NEW d \in Nat, d \in S PROVE d + 1 \in S
  <2>1. SUFFICES ASSUME i + (d + 1) <= Len(s) PROVE num[i] <= num[i + (d + 1)]
    OBVIOUS
  <2>2. i + (d + 1) \in 1 .. Len(s) /\ (i + (d + 1)) - 1 = i + d /\ i + d \in 0 .. Len(s)
    BY <2>1
  <2>3. num[i + (d + 1)] = num[i + d] * 10 + s[i + (d + 1)]
    BY <2>2 DEF Reads
  <2>4. num[i] <= num[i + d]
    BY <1>2, <2>2
  <2>5. num[i] \in Nat /\ num[i + d] \in Nat
    BY <2>2 DEF Reads
  <2>6. s[i + (d + 1)] \in Nat
    BY <2>2
  <2> QED
    BY <2>3, <2>4, <2>5, <2>6
<1>3. \A d \in Nat : d \in S
  <2> HIDE DEF S
  <2> QED
    BY <1>1, <1>2, InductionOnSet
<1>4. j - i \in Nat /\ i + (j - i) = j
  OBVIOUS
<1> QED
  BY <1>3, <1>4

(* What has been read is the number of the first digits.                   *)
AllDigits == Body \in Seq(0 .. 9)
Prefix ==
  /\ len + n = Len(Body) /\ \A i \in 1 .. len : Body[i] \in 0 .. 9
  /\ AllDigits => \A num : Reads(num, Body) => exact = num[len]
ReadsPrefix ==
  /\ number_ret = "running" => n + len # 0 /\ Prefix
  /\ number_ret = "FAIL" => ~IsNumber
  /\ number_ret \in {"SUCCEED", "incorrect", "stored"} => n = 0 /\ n + len # 0 /\ Prefix /\ IsNumber

LEMMA BodyFacts ==
  ASSUME str \in Seq(Chars)
  PROVE  /\ Body \in Seq(Chars)
         /\ Len(Body) \in {Len(str), Len(str) - 1} /\ Len(Body) \in Nat
         /\ (str # <<>> /\ str[Len(str)] \in suffixes) => Len(Body) = Len(str) - 1
         /\ ~(str # <<>> /\ str[Len(str)] \in suffixes) => Len(Body) = Len(str)
         /\ \A i \in 1 .. Len(Body) : Body[i] = str[i]
<1>1. CASE str # <<>> /\ str[Len(str)] \in suffixes
  <2>1. Body = SubSeq(str, 1, Len(str) - 1) /\ Len(str) \in Nat /\ Len(str) # 0
    BY <1>1 DEF Body
  <2>2. /\ SubSeq(str, 1, Len(str) - 1) \in Seq(Chars)
        /\ Len(SubSeq(str, 1, Len(str) - 1)) = Len(str) - 1
        /\ \A i \in 1 .. Len(str) - 1 : SubSeq(str, 1, Len(str) - 1)[i] = str[i]
    <3> DEFINE k == Len(str) - 1
               t == SubSeq(str, 1, k)
    <3>1. k \in Int /\ 1 \in Int /\ k \in Nat /\ \A i \in 1 .. k : str[i] \in Chars
      BY <2>1, ElementOfSeq
    <3> HIDE DEF k
    <3>2. /\ t \in Seq(Chars) /\ Len(t) = IF 1 <= k THEN k - 1 + 1 ELSE 0
          /\ \A i \in 1 .. k - 1 + 1 : t[i] = str[1 + i - 1]
      BY <3>1, SubSeqProperties
    <3> HIDE DEF t
    <3>3. Len(t) = k /\ \A i \in 1 .. k : i \in 1 .. k - 1 + 1 /\ 1 + i - 1 = i
      BY <3>1, <3>2
    <3>4. \A i \in 1 .. k : t[i] = str[i]
      BY <3>2, <3>3
    <3> QED
      BY <3>2, <3>3, <3>4 DEF t, k
  <2> QED
    BY <1>1, <2>1, <2>2
<1>2. CASE ~(str # <<>> /\ str[Len(str)] \in suffixes)
  <2>1. Body = str
    BY <1>2 DEF Body
  <2> QED
    BY <1>2, <2>1
<1> QED
  BY <1>1, <1>2

LEMMA DigitsOnly ==
  ASSUME str \in Seq(Chars), \A i \in 1 .. Len(Body) : Body[i] \in 0 .. 9
  PROVE  AllDigits
<1>1. Body \in Seq(Chars) /\ Len(Body) \in Nat
  BY BodyFacts
<1> HIDE DEF Body
<1>2. Body = [i \in 1 .. Len(Body) |-> Body[i]]
  BY <1>1
<1> QED
  BY <1>1, <1>2 DEF AllDigits

LEMMA PrefixStart == NumberInit => ReadsPrefix
<1> SUFFICES ASSUME NumberInit PROVE ReadsPrefix
  OBVIOUS
<1>1. str \in Seq(Chars) /\ Len(str) \in Nat
  BY NumberAssumption DEF NumberInit, NumberAssumption
<1>2. n = Len(Body) /\ Len(Body) \in Nat /\ len = 0 /\ exact = 0
      /\ number_ret = IF n = 0 THEN "FAIL" ELSE "running"
  BY <1>1, BodyFacts DEF NumberInit
<1>3. n = 0 => ~IsNumber
  <2>1. Body \in Seq(Chars)
    BY <1>1, BodyFacts
  <2> QED
    BY <1>2, <2>1, EmptySeq DEF IsNumber
<1>4. Prefix
  BY <1>2 DEF Prefix, Reads
<1> QED
  BY <1>2, <1>3, <1>4 DEF ReadsPrefix

LEMMA PrefixStep ==
  NumberInv /\ ReadsPrefix /\ [NumberNext]_number_vars => ReadsPrefix'
<1> SUFFICES ASSUME NumberInv, ReadsPrefix, [NumberNext]_number_vars PROVE ReadsPrefix'
  OBVIOUS
<1>0. /\ str \in Seq(Chars) /\ Len(str) \in Nat /\ n \in Nat /\ len \in Nat
      /\ NumberTypeOK /\ DigitsAreExact /\ Shortcut
      /\ Body \in Seq(Chars) /\ Len(Body) \in Nat /\ \A i \in 1 .. Len(Body) : Body[i] = str[i]
  BY BodyFacts DEF NumberInv, NumberTypeOK
<1>1. str' = str => Body' = Body /\ (IsNumber <=> IsNumber') /\ (AllDigits <=> AllDigits')
  BY DEF Body, IsNumber, AllDigits
<1>2. ASSUME NEW num, AllDigits, Reads(num, Body), Prefix, n > 0
      PROVE  num[len + 1] = exact * 10 + c
  <2>1. len + 1 \in 1 .. Len(Body) /\ (len + 1) - 1 = len
    BY <1>0, <1>2 DEF Prefix
  <2>2. num[len + 1] = num[len] * 10 + Body[len + 1] /\ exact = num[len] /\ Body[len + 1] = c
    BY <1>0, <1>2, <2>1 DEF Prefix, Reads, c
  <2> QED
    BY <2>2
<1>3. CASE NotADigit
  <2>1. /\ number_ret = "running" /\ n > 0 /\ c \notin 0 .. 9 /\ number_ret' = "FAIL" /\ str' = str
    BY <1>3 DEF NotADigit
  <2>2. len + 1 \in 1 .. Len(Body) /\ Body[len + 1] = c
    BY <1>0, <2>1 DEF ReadsPrefix, Prefix, c
  <2>3. ~IsNumber
    BY <1>0, <2>1, <2>2 DEF IsNumber
  <2> QED
    BY <1>1, <2>1, <2>3 DEF ReadsPrefix
<1>4. CASE TooLarge
  <2>1. /\ number_ret = "running" /\ n > 0 /\ c \in 0 .. 9 /\ number_ret' = "FAIL" /\ str' = str
        /\ exact * 10 + c > max_uint64 /\ Prefix
    BY <1>0, <1>4, OneDigit DEF TooLarge, ReadsPrefix
  <2>2. ASSUME IsNumber PROVE FALSE
    <3>1. AllDigits /\ Number(Body) <= max_uint64
      <4>1. \A i \in 1 .. Len(Body) : Body[i] \in 0 .. 9
        BY <1>0, <2>2 DEF IsNumber
      <4> QED
        BY <1>0, <2>2, <4>1, DigitsOnly DEF IsNumber
    <3>2. PICK num : Reads(num, Body) /\ Number(Body) = num[Len(Body)]
      BY <3>1, NumberIs DEF AllDigits
    <3>3. len + 1 \in 0 .. Len(Body) /\ Len(Body) \in 0 .. Len(Body) /\ len + 1 <= Len(Body)
      BY <1>0, <2>1 DEF Prefix
    <3>4. num[len + 1] <= num[Len(Body)]
      BY <3>1, <3>2, <3>3, NumberGrows DEF AllDigits
    <3>5. num[len + 1] = exact * 10 + c
      BY <1>2, <2>1, <3>1, <3>2
    <3>6. num[len + 1] \in Nat /\ num[Len(Body)] \in Nat /\ max_uint64 \in Nat
      BY <3>2, <3>3, WidthAssumption DEF Reads, WidthAssumption
    <3> QED
      BY <2>1, <3>1, <3>2, <3>4, <3>5, <3>6
  <2> QED
    BY <1>1, <2>1, <2>2 DEF ReadsPrefix
<1>5. CASE Digit
  <2>1. /\ number_ret = "running" /\ n > 0 /\ c \in 0 .. 9 /\ number_ret' = number_ret /\ str' = str
        /\ n' = n - 1 /\ len' = len + 1 /\ exact' = exact * 10 + c /\ Prefix
    BY <1>5 DEF Digit, ReadsPrefix
  <2>2. \A i \in 1 .. len + 1 : Body[i] \in 0 .. 9
    <3>1. len + 1 \in 1 .. Len(Body) /\ Body[len + 1] = c
      BY <1>0, <2>1 DEF Prefix, c
    <3>2. \A i \in 1 .. len + 1 : i = len + 1 \/ i \in 1 .. len
      BY <1>0
    <3> QED
      BY <2>1, <3>1, <3>2 DEF Prefix
  <2>3. AllDigits => \A num : Reads(num, Body) => exact' = num[len + 1]
    BY <1>2, <2>1
  <2>4. len' + n' = Len(Body) /\ n' + len' # 0
    BY <1>0, <2>1 DEF Prefix
  <2>5. Prefix'
    BY <1>1, <2>1, <2>2, <2>3, <2>4 DEF Prefix
  <2> QED
    BY <2>1, <2>4, <2>5 DEF ReadsPrefix
<1>6. CASE Converted
  <2>1. /\ number_ret = "running" /\ n = 0 /\ number_ret' = "SUCCEED"
        /\ UNCHANGED <<str, n, len, exact>> /\ Prefix /\ n + len # 0
    BY <1>6 DEF Converted, ReadsPrefix
  <2>2. len = Len(Body) /\ AllDigits
    BY <1>0, <2>1, DigitsOnly DEF Prefix
  <2>3. PICK num : Reads(num, Body) /\ Number(Body) = num[Len(Body)]
    BY <2>2, NumberIs DEF AllDigits
  <2>4. Number(Body) = exact /\ exact \in Uint64
    <3>1. exact = value /\ value \in Uint64
      BY <1>0, <2>1 DEF DigitsAreExact, NumberTypeOK
    <3> QED
      BY <2>1, <2>2, <2>3, <3>1 DEF Prefix
  <2>5. IsNumber
    <3>1. Number(Body) <= max_uint64
      BY <2>4 DEF Uint64
    <3>2. Body # <<>> /\ \A i \in DOMAIN Body : Body[i] \in 0 .. 9
      BY <1>0, <2>1, <2>2 DEF Prefix
    <3> QED
      BY <3>1, <3>2 DEF IsNumber
  <2>6. Prefix'
    BY <1>1, <2>1 DEF Prefix
  <2> QED
    BY <1>1, <2>1, <2>5, <2>6 DEF ReadsPrefix
<1>7. CASE Accepted
  <2>1. number_ret = "SUCCEED" /\ number_ret' \in {"incorrect", "stored"}
        /\ UNCHANGED <<str, n, len, exact>>
    BY <1>7 DEF Accepted
  <2>2. Prefix => Prefix'
    BY <1>1, <2>1 DEF Prefix
  <2> QED
    BY <1>1, <2>1, <2>2 DEF ReadsPrefix
<1>8. CASE NumberStopped \/ UNCHANGED number_vars
  <2>1. UNCHANGED <<str, n, len, exact, number_ret>>
    BY <1>8 DEF NumberStopped, number_vars
  <2>2. Prefix <=> Prefix'
    BY <1>1, <2>1 DEF Prefix
  <2> QED
    BY <1>1, <2>1, <2>2 DEF ReadsPrefix
<1> QED
  BY <1>3, <1>4, <1>5, <1>6, <1>7, <1>8 DEF NumberNext

(* Whatever the word is: a string is stored as the number it stands for,   *)
(* and one that stands for none, or for a number that does not fit, is     *)
(* rejected.                                                               *)
THEOREM NumbersConverted == NumberSpec => []ConvertsNumbers
<1>1. NumberInv /\ ReadsPrefix => ConvertsNumbers
  <2> SUFFICES ASSUME NumberInv, ReadsPrefix,
                      number_ret \in {"SUCCEED", "incorrect", "stored"}
               PROVE  Number(Body) = exact
    BY DEF ReadsPrefix, ConvertsNumbers
  <2>1. str \in Seq(Chars) /\ len \in Nat /\ n = 0 /\ Prefix
    BY DEF NumberInv, NumberTypeOK, ReadsPrefix
  <2>2. len = Len(Body) /\ AllDigits
    BY <2>1, BodyFacts, DigitsOnly DEF Prefix
  <2>3. PICK num : Reads(num, Body) /\ Number(Body) = num[Len(Body)]
    BY <2>2, NumberIs DEF AllDigits
  <2> QED
    BY <2>1, <2>2, <2>3 DEF Prefix
<1> QED
  BY NumberInvariant, PrefixStart, PrefixStep, <1>1, PTL DEF NumberSpec

-----------------------------------------------------------------------------
(* Texts: Utf8.                                                            *)

(* The largest code point.                                                 *)
TopCharacter == 1114111

(* The bits of a continuation byte.                                        *)
LEMMA Bits ==
  ASSUME NEW b \in C
  PROVE  /\ b \in Int /\ b >= 128 /\ b <= 191 /\ b % 64 = b - 128
         /\ (b \div 32) % 2 = 0 <=> b < 160
         /\ (b \div 16) % 4 = 0 <=> b < 144
         /\ (b \div 8) % 8 = 0 <=> b < 136
         /\ (b \div 4) % 16 = 0 <=> b < 132
<1>1. b \in Int /\ b >= 128 /\ b <= 191
  BY SMT DEF C
<1>2. b % 64 = b - 128
  BY <1>1, SMT
<1>3. (b \div 32) % 2 = 0 <=> b < 160
  BY <1>1, SMT
<1>4. (b \div 16) % 4 = 0 <=> b < 144
  BY <1>1, SMT
<1>5. (b \div 8) % 8 = 0 <=> b < 136
  BY <1>1, SMT
<1>6. (b \div 4) % 16 = 0 <=> b < 132
  BY <1>1, SMT
<1> QED BY <1>1, <1>2, <1>3, <1>4, <1>5, <1>6

(* The code points the mask 0xf800 catches among those of 16 bits.         *)
LEMMA Surrogates ==
  ASSUME NEW u \in Int, 0 <= u, u < 65536
  PROVE  (u \div 2048) % 32 = 27 <=> 55296 <= u /\ u < 57344
  BY SMT

LEMMA TwoBytes ==
  ASSUME NEW a \in 192 .. 223, NEW b \in C
  PROVE  ~Illegal((a % 32) * 64 + (b % 64))
<1> DEFINE u == (a - 192) * 64 + (b - 128)
<1>1. a % 32 = a - 192 /\ a \in Int /\ a >= 192 /\ a <= 223
  BY SMT
<1>2. b \in Int /\ b >= 128 /\ b <= 191 /\ b % 64 = b - 128
  BY Bits
<1>3. u = (a % 32) * 64 + (b % 64) /\ u \in Int /\ 0 <= u /\ u < 2048
  BY <1>1, <1>2, SMT
<1> HIDE DEF u
<1> QED BY <1>3, Surrogates, SMT DEF Illegal

(* The sequences of three bytes that pass are those of four rows ...       *)
LEMMA ThreeBytes ==
  ASSUME NEW a \in 224 .. 239, NEW b \in C, NEW d \in C
  PROVE  ~(a = 224 /\ (b \div 32) % 2 = 0)
         /\ ~Illegal((a % 16) * 4096 + (b % 64) * 64 + (d % 64))
         <=> \/ a \in {224} /\ b \in 160 .. 191
             \/ a \in 225 .. 236 /\ b \in C
             \/ a \in {237} /\ b \in 128 .. 159
             \/ a \in 238 .. 239 /\ b \in C
<1> DEFINE u == (a - 224) * 4096 + (b - 128) * 64 + (d - 128)
<1>1. /\ a % 16 = a - 224 /\ a \in Int /\ a >= 224 /\ a <= 239
  BY SMT
<1>2. /\ b \in Int /\ b >= 128 /\ b <= 191 /\ b % 64 = b - 128
      /\ d \in Int /\ d >= 128 /\ d <= 191 /\ d % 64 = d - 128
      /\ (b \div 32) % 2 = 0 <=> b < 160
  BY Bits
<1>3. u = (a % 16) * 4096 + (b % 64) * 64 + (d % 64)
  BY <1>1, <1>2
<1>4. /\ u \in Int /\ 0 <= u /\ u < 65536
      /\ 55296 <= u /\ u < 57344 <=> a = 237 /\ b >= 160
  BY <1>1, <1>2, SMT
<1> HIDE DEF u
<1>5. Illegal(u) <=> a = 237 /\ b >= 160
  BY <1>4, Surrogates, SMT DEF Illegal
<1> QED BY <1>1, <1>2, <1>3, <1>5, SMT

(* ... those of four bytes are those of three rows, but for the characters *)
(* that look like a surrogate ...                                          *)
LEMMA FourBytes ==
  ASSUME NEW a \in 240 .. 247, NEW b \in C, NEW d \in C, NEW e \in C
  PROVE  ~(a = 240 /\ (b \div 16) % 4 = 0)
         /\ (a % 8) * 262144 + (b % 64) * 4096 + (d % 64) * 64 + (e % 64) <= TopCharacter
         <=> \/ a \in {240} /\ b \in 144 .. 191
             \/ a \in 241 .. 243 /\ b \in C
             \/ a \in {244} /\ b \in 128 .. 143
<1>1. a % 8 = a - 240 /\ a \in Int /\ a >= 240 /\ a <= 247
  BY SMT
<1>2. /\ b \in Int /\ b >= 128 /\ b <= 191 /\ b % 64 = b - 128
      /\ d \in Int /\ d >= 128 /\ d <= 191 /\ d % 64 = d - 128
      /\ e \in Int /\ e >= 128 /\ e <= 191 /\ e % 64 = e - 128
      /\ (b \div 16) % 4 = 0 <=> b < 144
  BY Bits
<1>3. (a - 240) * 262144 + (b - 128) * 4096 + (d - 128) * 64 + (e - 128) <= TopCharacter
      <=> a <= 243 \/ (a = 244 /\ b < 144)
  BY <1>1, <1>2, SMT DEF TopCharacter
<1> QED BY <1>1, <1>2, <1>3, SMT

(* ... and no longer sequence passes.                                      *)
LEMMA FiveBytes ==
  ASSUME NEW a \in 248 .. 251, NEW b \in C, NEW d \in C, NEW e \in C, NEW h \in C
  PROVE  \/ a = 248 /\ (b \div 8) % 8 = 0
         \/ (a % 4) * 16777216 + (b % 64) * 262144 + (d % 64) * 4096
            + (e % 64) * 64 + (h % 64) > TopCharacter
<1>1. a % 4 = a - 248 /\ a \in Int /\ a >= 248 /\ a <= 251
  BY SMT
<1>2. /\ b \in Int /\ b >= 128 /\ b <= 191 /\ b % 64 = b - 128
      /\ d \in Int /\ d >= 128 /\ d <= 191 /\ d % 64 = d - 128
      /\ e \in Int /\ e >= 128 /\ e <= 191 /\ e % 64 = e - 128
      /\ h \in Int /\ h >= 128 /\ h <= 191 /\ h % 64 = h - 128
      /\ (b \div 8) % 8 = 0 <=> b < 136
  BY Bits
<1> QED BY <1>1, <1>2, SMT DEF TopCharacter

LEMMA SixBytes ==
  ASSUME NEW a \in 252 .. 253, NEW b \in C, NEW d \in C, NEW e \in C, NEW h \in C, NEW g \in C
  PROVE  \/ a = 252 /\ (b \div 4) % 16 = 0
         \/ (a % 2) * 1073741824 + (b % 64) * 16777216 + (d % 64) * 262144
            + (e % 64) * 4096 + (h % 64) * 64 + (g % 64) > TopCharacter
<1>1. a % 2 = a - 252 /\ a \in Int /\ a >= 252 /\ a <= 253
  BY SMT
<1>2. /\ b \in Int /\ b >= 128 /\ b <= 191 /\ b % 64 = b - 128
      /\ d \in Int /\ d >= 128 /\ d <= 191 /\ d % 64 = d - 128
      /\ e \in Int /\ e >= 128 /\ e <= 191 /\ e % 64 = e - 128
      /\ h \in Int /\ h >= 128 /\ h <= 191 /\ h % 64 = h - 128
      /\ g \in Int /\ g >= 128 /\ g <= 191 /\ g % 64 = g - 128
      /\ (b \div 4) % 16 = 0 <=> b < 132
  BY Bits
<1> QED BY <1>1, <1>2, SMT DEF TopCharacter

-----------------------------------------------------------------------------
(* Within the text: a byte that is not the last can be followed.           *)
LEMMA Inside ==
  ASSUME Utf8TypeOK, NEW k \in Nat, k >= 1, pos + k <= Len(text)
  PROVE  At(k) \in Byte /\ (At(k) # 0 => pos + k + 1 <= Len(text))
  BY SMT DEF Utf8TypeOK, At

(* The continuation bytes that the loop has tested are inside the text,    *)
(* and so is the byte after them.                                          *)
LEMMA Sequence ==
  ASSUME Utf8TypeOK, NEW e \in 1 .. 5, At(1) # 0, Continues(e)
  PROVE  pos + e + 2 <= Len(text) /\ \A k \in 1 .. e : At(1 + k) \in C
<1>1. \A k \in 1 .. e : At(1 + k) \in C /\ At(1 + k) # 0
  BY DEF Continues, Continuation, C
<1>2. pos \in Nat /\ Len(text) \in Nat /\ pos + 2 <= Len(text)
  BY Inside DEF Utf8TypeOK
<1>9. /\ e >= 1 => At(2) # 0
      /\ e >= 2 => At(3) # 0
      /\ e >= 3 => At(4) # 0
      /\ e >= 4 => At(5) # 0
      /\ e >= 5 => At(6) # 0
  BY <1>1
<1>3. e >= 1 => pos + 3 <= Len(text)
  BY <1>9, <1>2, Inside
<1>4. e >= 2 => pos + 4 <= Len(text)
  BY <1>9, <1>2, <1>3, Inside
<1>5. e >= 3 => pos + 5 <= Len(text)
  BY <1>9, <1>2, <1>4, Inside
<1>6. e >= 4 => pos + 6 <= Len(text)
  BY <1>9, <1>2, <1>5, Inside
<1>7. e >= 5 => pos + 7 <= Len(text)
  BY <1>9, <1>2, <1>6, Inside
<1>8. e \in {1, 2, 3, 4, 5}
  OBVIOUS
<1> QED BY <1>1, <1>2, <1>3, <1>4, <1>5, <1>6, <1>7, <1>8

(* What the rows say of the bytes from the next one on.                    *)
LEMMA RowsFit ==
  ASSUME Utf8TypeOK
  PROVE  /\ Fits(pos + 1, <<1 .. 127>>) <=> pos + 1 <= Len(text) /\ At(1) \in 1 .. 127
         /\ \A R : Fits(pos + 1, <<R, C>>)
               <=> pos + 2 <= Len(text) /\ At(1) \in R /\ At(2) \in C
         /\ \A R, S : Fits(pos + 1, <<R, S, C>>)
               <=> pos + 3 <= Len(text) /\ At(1) \in R /\ At(2) \in S /\ At(3) \in C
         /\ \A R, S : Fits(pos + 1, <<R, S, C, C>>)
               <=> /\ pos + 4 <= Len(text) /\ At(1) \in R /\ At(2) \in S
                   /\ At(3) \in C /\ At(4) \in C
<1>1. pos \in Nat /\ Len(text) \in Nat
  BY DEF Utf8TypeOK
<1> USE <1>1 DEF Fits, At
<1>2. Fits(pos + 1, <<1 .. 127>>) <=> pos + 1 <= Len(text) /\ At(1) \in 1 .. 127
  <2>1. 1 .. Len(<<1 .. 127>>) = {1} /\ <<1 .. 127>>[1] = 1 .. 127 /\ (pos + 1) + 1 - 1 = pos + 1
    OBVIOUS
  <2> QED BY <2>1, ZenonT(30)
<1>3. ASSUME NEW R
      PROVE  Fits(pos + 1, <<R, C>>)
               <=> pos + 2 <= Len(text) /\ At(1) \in R /\ At(2) \in C
  OBVIOUS
<1>4. ASSUME NEW R, NEW S
      PROVE  Fits(pos + 1, <<R, S, C>>)
               <=> pos + 3 <= Len(text) /\ At(1) \in R /\ At(2) \in S /\ At(3) \in C
  OBVIOUS
<1>5. ASSUME NEW R, NEW S
      PROVE  Fits(pos + 1, <<R, S, C, C>>)
               <=> /\ pos + 4 <= Len(text) /\ At(1) \in R /\ At(2) \in S
                   /\ At(3) \in C /\ At(4) \in C
  OBVIOUS
<1> HIDE DEF Fits, At
<1> QED BY <1>2, <1>3, <1>4, <1>5

(* A row that fits, by the number of its bytes.                            *)
Row1 == pos + 1 <= Len(text) /\ At(1) \in 1 .. 127
Row2 == pos + 2 <= Len(text) /\ At(1) \in 194 .. 223 /\ At(2) \in C
Row3 == /\ pos + 3 <= Len(text) /\ At(3) \in C
        /\ \/ At(1) \in {224} /\ At(2) \in 160 .. 191
           \/ At(1) \in 225 .. 236 /\ At(2) \in C
           \/ At(1) \in {237} /\ At(2) \in 128 .. 159
           \/ At(1) \in 238 .. 239 /\ At(2) \in C
Row4 == /\ pos + 4 <= Len(text) /\ At(3) \in C /\ At(4) \in C
        /\ \/ At(1) \in {240} /\ At(2) \in 144 .. 191
           \/ At(1) \in 241 .. 243 /\ At(2) \in C
           \/ At(1) \in {244} /\ At(2) \in 128 .. 143

FitsLen(l) == \E row \in Rows : Fits(pos + 1, row) /\ Len(row) = l

LEMMA RowsByLength ==
  ASSUME Utf8TypeOK
  PROVE  /\ FitsLen(1) <=> Row1
         /\ FitsLen(2) <=> Row2
         /\ FitsLen(3) <=> Row3
         /\ FitsLen(4) <=> Row4
         /\ \A row \in Rows : Len(row) \in 1 .. 4
<1>2. FitsLen(1) <=> Fits(pos + 1, <<1 .. 127>>)
  BY DEF FitsLen, Rows
<1>3. FitsLen(2) <=> Fits(pos + 1, <<194 .. 223, C>>)
  BY DEF FitsLen, Rows
<1>4. FitsLen(3) <=> \/ Fits(pos + 1, <<{224}, 160 .. 191, C>>)
                     \/ Fits(pos + 1, <<225 .. 236, C, C>>)
                     \/ Fits(pos + 1, <<{237}, 128 .. 159, C>>)
                     \/ Fits(pos + 1, <<238 .. 239, C, C>>)
  BY DEF FitsLen, Rows
<1>5. FitsLen(4) <=> \/ Fits(pos + 1, <<{240}, 144 .. 191, C, C>>)
                     \/ Fits(pos + 1, <<241 .. 243, C, C, C>>)
                     \/ Fits(pos + 1, <<{244}, 128 .. 143, C, C>>)
  BY DEF FitsLen, Rows
<1>6. \A row \in Rows : Len(row) \in 1 .. 4
  BY DEF Rows
<1>7. FitsLen(1) <=> Row1
  <2>1. Fits(pos + 1, <<1 .. 127>>) <=> pos + 1 <= Len(text) /\ At(1) \in 1 .. 127
    BY RowsFit
  <2> QED BY ONLY <1>2, <2>1 DEF Row1
<1>8. FitsLen(2) <=> Row2
  <2>1. Fits(pos + 1, <<194 .. 223, C>>)
        <=> pos + 2 <= Len(text) /\ At(1) \in 194 .. 223 /\ At(2) \in C
    BY RowsFit
  <2> QED BY ONLY <1>3, <2>1 DEF Row2
<1>11. \A R, S : Fits(pos + 1, <<R, S, C>>)
         <=> pos + 3 <= Len(text) /\ At(1) \in R /\ At(2) \in S /\ At(3) \in C
  BY RowsFit, Zenon
<1>12. \A R, S : Fits(pos + 1, <<R, S, C, C>>)
         <=> /\ pos + 4 <= Len(text) /\ At(1) \in R /\ At(2) \in S
             /\ At(3) \in C /\ At(4) \in C
  BY RowsFit, Zenon
<1>9. FitsLen(3) <=> Row3
  <2>1. Fits(pos + 1, <<{224}, 160 .. 191, C>>)
        <=> pos + 3 <= Len(text) /\ At(1) \in {224} /\ At(2) \in 160 .. 191 /\ At(3) \in C
    BY ONLY <1>11, Zenon
  <2>2. Fits(pos + 1, <<225 .. 236, C, C>>)
        <=> pos + 3 <= Len(text) /\ At(1) \in 225 .. 236 /\ At(2) \in C /\ At(3) \in C
    BY ONLY <1>11, Zenon
  <2>3. Fits(pos + 1, <<{237}, 128 .. 159, C>>)
        <=> pos + 3 <= Len(text) /\ At(1) \in {237} /\ At(2) \in 128 .. 159 /\ At(3) \in C
    BY ONLY <1>11, Zenon
  <2>4. Fits(pos + 1, <<238 .. 239, C, C>>)
        <=> pos + 3 <= Len(text) /\ At(1) \in 238 .. 239 /\ At(2) \in C /\ At(3) \in C
    BY ONLY <1>11, Zenon
  <2> QED BY ONLY <1>4, <2>1, <2>2, <2>3, <2>4 DEF Row3
<1>10. FitsLen(4) <=> Row4
  <2>1. Fits(pos + 1, <<{240}, 144 .. 191, C, C>>)
        <=> /\ pos + 4 <= Len(text) /\ At(1) \in {240} /\ At(2) \in 144 .. 191
            /\ At(3) \in C /\ At(4) \in C
    BY ONLY <1>12, Zenon
  <2>2. Fits(pos + 1, <<241 .. 243, C, C, C>>)
        <=> /\ pos + 4 <= Len(text) /\ At(1) \in 241 .. 243 /\ At(2) \in C
            /\ At(3) \in C /\ At(4) \in C
    BY ONLY <1>12, Zenon
  <2>3. Fits(pos + 1, <<{244}, 128 .. 143, C, C>>)
        <=> /\ pos + 4 <= Len(text) /\ At(1) \in {244} /\ At(2) \in 128 .. 143
            /\ At(3) \in C /\ At(4) \in C
    BY ONLY <1>12, Zenon
  <2> QED BY ONLY <1>5, <2>1, <2>2, <2>3 DEF Row4
<1> QED BY <1>6, <1>7, <1>8, <1>9, <1>10

(* A sequence of e continuation bytes passes.                              *)
Passes(e) == Continues(e) /\ ~Overlong /\ ~Illegal(utf32(e))

LEMMA PassesTwo ==
  ASSUME Utf8TypeOK, At(1) \in 192 .. 223
  PROVE  Expecting(At(1)) = 1 /\ (Passes(1) <=> Row2)
<1>1. Expecting(At(1)) = 1
  BY SMT DEF Expecting
<1>2. Continues(1) <=> At(2) \in C
  BY SMT DEF Continues, Continuation, C
<1>3. Overlong <=> At(1) \in {192, 193}
  BY SMT DEF Overlong
<1>4. utf32(1) = (At(1) % 32) * 64 + (At(2) % 64)
  BY SMT DEF utf32, Low
<1>5. At(2) \in C => ~Illegal(utf32(1))
  BY <1>4, TwoBytes
<1>6. At(1) # 0 /\ 1 \in 1 .. 5 /\ pos \in Nat /\ Len(text) \in Nat
  <2>1. At(1) # 0 /\ 1 \in 1 .. 5
    BY SMT
  <2>2. pos \in Nat /\ Len(text) \in Nat
    BY SMT DEF Utf8TypeOK
  <2> QED BY <2>1, <2>2
<1>7. Continues(1) => pos + 2 <= Len(text)
  BY <1>6, Sequence
<1>8. At(1) \in 194 .. 223 <=> At(1) \notin {192, 193}
  BY SMT
<1> QED BY <1>1, <1>2, <1>3, <1>5, <1>7, <1>8, Zenon DEF Passes, Row2

LEMMA PassesThree ==
  ASSUME Utf8TypeOK, At(1) \in 224 .. 239
  PROVE  Expecting(At(1)) = 2 /\ (Passes(2) <=> Row3)
<1>1. Expecting(At(1)) = 2
  BY SMT DEF Expecting
<1>2. Continues(2) <=> At(2) \in C /\ At(3) \in C
  <2>1. 1 .. 2 = {1, 2}
    OBVIOUS
  <2> QED BY <2>1, SMT DEF Continues, Continuation, C
<1>3. Overlong <=> At(1) = 224 /\ (At(2) \div 32) % 2 = 0
  BY SMT DEF Overlong
<1>4. utf32(2) = (At(1) % 16) * 4096 + (At(2) % 64) * 64 + (At(3) % 64)
  BY SMT DEF utf32, Low
<1>5. At(1) # 0 /\ 2 \in 1 .. 5 /\ pos \in Nat /\ Len(text) \in Nat
  <2>1. At(1) # 0 /\ 2 \in 1 .. 5
    BY SMT
  <2>2. pos \in Nat /\ Len(text) \in Nat
    BY SMT DEF Utf8TypeOK
  <2> QED BY <2>1, <2>2
<1>6. Continues(2) => pos + 3 <= Len(text)
  BY <1>5, Sequence
<1>7. ASSUME At(2) \in C, At(3) \in C
      PROVE  ~Overlong /\ ~Illegal(utf32(2))
             <=> \/ At(1) \in {224} /\ At(2) \in 160 .. 191
                 \/ At(1) \in 225 .. 236 /\ At(2) \in C
                 \/ At(1) \in {237} /\ At(2) \in 128 .. 159
                 \/ At(1) \in 238 .. 239 /\ At(2) \in C
  <2> DEFINE u == (At(1) % 16) * 4096 + (At(2) % 64) * 64 + (At(3) % 64)
  <2>1. ~(At(1) = 224 /\ (At(2) \div 32) % 2 = 0) /\ ~Illegal(u)
             <=> \/ At(1) \in {224} /\ At(2) \in 160 .. 191
                 \/ At(1) \in 225 .. 236 /\ At(2) \in C
                 \/ At(1) \in {237} /\ At(2) \in 128 .. 159
                 \/ At(1) \in 238 .. 239 /\ At(2) \in C
    BY <1>7, ThreeBytes
  <2>2. utf32(2) = u
    BY <1>4, SMT
  <2> HIDE DEF u
  <2> QED BY <1>3, <2>1, <2>2, Zenon
<1>8. At(2) \in 160 .. 191 \/ At(2) \in 128 .. 159 => At(2) \in C
  BY SMT DEF C
<1>9. Row3 => At(2) \in C /\ At(3) \in C
  BY <1>8, Zenon DEF Row3
<1> QED BY <1>1, <1>2, <1>6, <1>7, <1>9, Zenon DEF Passes, Row3

LEMMA PassesFour ==
  ASSUME Utf8TypeOK, At(1) \in 240 .. 247
  PROVE  /\ Expecting(At(1)) = 3
         /\ Passes(3) => Row4
         /\ Row4 => Passes(3) \/ LooksSurrogate
<1>1. Expecting(At(1)) = 3
  BY SMT DEF Expecting
<1>2. Continues(3) <=> At(2) \in C /\ At(3) \in C /\ At(4) \in C
  <2>1. 1 .. 3 = {1, 2, 3}
    OBVIOUS
  <2> QED BY <2>1, SMT DEF Continues, Continuation, C
<1>3. Overlong <=> At(1) = 240 /\ (At(2) \div 16) % 4 = 0
  BY SMT DEF Overlong
<1>4. utf32(3) = (At(1) % 8) * 262144 + (At(2) % 64) * 4096 + (At(3) % 64) * 64 + (At(4) % 64)
  BY SMT DEF utf32, Low
<1>5. At(1) # 0 /\ 3 \in 1 .. 5 /\ pos \in Nat /\ Len(text) \in Nat
  <2>1. At(1) # 0 /\ 3 \in 1 .. 5
    BY SMT
  <2>2. pos \in Nat /\ Len(text) \in Nat
    BY SMT DEF Utf8TypeOK
  <2> QED BY <2>1, <2>2
<1>6. Continues(3) => pos + 4 <= Len(text)
  BY <1>5, Sequence
<1>7. ASSUME At(2) \in C, At(3) \in C, At(4) \in C
      PROVE  ~Overlong /\ utf32(3) <= TopCharacter
             <=> \/ At(1) \in {240} /\ At(2) \in 144 .. 191
                 \/ At(1) \in 241 .. 243 /\ At(2) \in C
                 \/ At(1) \in {244} /\ At(2) \in 128 .. 143
  <2> DEFINE u == (At(1) % 8) * 262144 + (At(2) % 64) * 4096 + (At(3) % 64) * 64 + (At(4) % 64)
  <2>1. ~(At(1) = 240 /\ (At(2) \div 16) % 4 = 0) /\ u <= TopCharacter
             <=> \/ At(1) \in {240} /\ At(2) \in 144 .. 191
                 \/ At(1) \in 241 .. 243 /\ At(2) \in C
                 \/ At(1) \in {244} /\ At(2) \in 128 .. 143
    BY <1>7, FourBytes, SMT
  <2>2. utf32(3) = u
    BY <1>4, SMT
  <2> HIDE DEF u
  <2> QED BY <1>3, <2>1, <2>2, Zenon
<1>8. ASSUME At(2) \in C, At(3) \in C, At(4) \in C
      PROVE  Illegal(utf32(3)) <=> ~(utf32(3) <= TopCharacter) \/ (utf32(3) \div 2048) % 32 = 27
  <2>1. At(1) % 8 \in Int /\ At(2) % 64 \in Int /\ At(3) % 64 \in Int /\ At(4) % 64 \in Int
    <3>1. At(1) \in Int /\ At(2) \in Int /\ At(3) \in Int /\ At(4) \in Int
      BY <1>8, SMT DEF C
    <3> QED BY <3>1, SMT
  <2>2. utf32(3) \in Int
    <3> DEFINE a == At(1) % 8
               b == At(2) % 64
               d == At(3) % 64
               h == At(4) % 64
    <3>1. a \in Int /\ b \in Int /\ d \in Int /\ h \in Int
      BY <2>1
    <3>2. utf32(3) = a * 262144 + b * 4096 + d * 64 + h
      BY <1>4, SMT
    <3> HIDE DEF a, b, d, h
    <3> QED BY <3>1, <3>2, SMT
  <2> QED BY <2>2, SMT DEF Illegal, TopCharacter
<1>9. LooksSurrogate <=> (utf32(3) \div 2048) % 32 = 27
  BY SMT DEF LooksSurrogate
<1>10. At(2) \in 144 .. 191 \/ At(2) \in 128 .. 143 => At(2) \in C
  BY SMT DEF C
<1>11. Row4 => At(2) \in C /\ At(3) \in C /\ At(4) \in C
  BY <1>10, Zenon DEF Row4
<1>12. ASSUME Continues(3)
       PROVE  /\ Passes(3) => Row4
              /\ Row4 => Passes(3) \/ LooksSurrogate
  <2>1. At(2) \in C /\ At(3) \in C /\ At(4) \in C /\ pos + 4 <= Len(text)
    BY <1>2, <1>6, <1>12
  <2>2. Illegal(utf32(3)) <=> ~(utf32(3) <= TopCharacter) \/ LooksSurrogate
    BY <1>8, <1>9, <2>1, SMT
  <2>3. Passes(3) <=> ~Overlong /\ utf32(3) <= TopCharacter /\ ~LooksSurrogate
    BY <1>12, <2>2, Zenon DEF Passes
  <2>4. Row4 <=> ~Overlong /\ utf32(3) <= TopCharacter
    BY <1>7, <2>1, Zenon DEF Row4
  <2> QED BY <2>3, <2>4
<1>13. (Passes(3) => Continues(3)) /\ (Row4 => Continues(3))
  BY <1>2, <1>11 DEF Passes
<1> QED BY <1>1, <1>12, <1>13

LEMMA PassesLonger ==
  ASSUME Utf8TypeOK, At(1) \in 248 .. 253
  PROVE  Expecting(At(1)) \in {4, 5} /\ ~Passes(Expecting(At(1)))
<1>1. CASE At(1) \in 248 .. 251
  <2>1. Expecting(At(1)) = 4
    BY <1>1, SMT DEF Expecting
  <2>2. Continues(4) => At(2) \in C /\ At(3) \in C /\ At(4) \in C /\ At(5) \in C
    BY SMT DEF Continues, Continuation, C
  <2>3. At(1) = 248 /\ (At(2) \div 8) % 8 = 0 => Overlong
    BY SMT DEF Overlong
  <2>4. utf32(4) = (At(1) % 4) * 16777216 + (At(2) % 64) * 262144 + (At(3) % 64) * 4096
                   + (At(4) % 64) * 64 + (At(5) % 64)
    BY SMT DEF utf32, Low
  <2>5. utf32(4) > TopCharacter => Illegal(utf32(4))
    BY SMT DEF Illegal, TopCharacter
  <2> HIDE DEF Passes
  <2>6. Continues(4) => Overlong \/ utf32(4) > TopCharacter
    BY <1>1, <2>2, <2>3, <2>4, FiveBytes, SMT
  <2> QED BY <2>1, <2>5, <2>6 DEF Passes
<1>2. CASE At(1) \in 252 .. 253
  <2>1. Expecting(At(1)) = 5
    BY <1>2, SMT DEF Expecting
  <2>2. Continues(5) => /\ At(2) \in C /\ At(3) \in C /\ At(4) \in C
                        /\ At(5) \in C /\ At(6) \in C
    BY SMT DEF Continues, Continuation, C
  <2>3. At(1) = 252 /\ (At(2) \div 4) % 16 = 0 => Overlong
    BY SMT DEF Overlong
  <2>4. utf32(5) = (At(1) % 2) * 1073741824 + (At(2) % 64) * 16777216 + (At(3) % 64) * 262144
                   + (At(4) % 64) * 4096 + (At(5) % 64) * 64 + (At(6) % 64)
    BY SMT DEF utf32, Low
  <2>5. utf32(5) > TopCharacter => Illegal(utf32(5))
    BY SMT DEF Illegal, TopCharacter
  <2>6. Continues(5) => Overlong \/ utf32(5) > TopCharacter
    BY <1>2, <2>2, <2>3, <2>4, SixBytes, SMT
  <2> QED BY <2>1, <2>5, <2>6 DEF Passes
<1>3. At(1) \in 248 .. 251 \/ At(1) \in 252 .. 253
  OBVIOUS
<1> QED BY <1>1, <1>2, <1>3

-----------------------------------------------------------------------------
(* What a multibyte sequence does, for every first byte.                   *)
LEMMA FirstByte ==
  ASSUME Utf8TypeOK, At(1) \in 192 .. 253
  PROVE  LET e == Expecting(At(1))
         IN  /\ e \in 1 .. 5
             /\ Passes(e) => FitsLen(e + 1) /\ e + 1 \in 1 .. 4 /\ pos + e + 2 <= Len(text)
             /\ ~Passes(e) => (\A row \in Rows : ~Fits(pos + 1, row)) \/ LooksSurrogate
<1> DEFINE e == Expecting(At(1))
<1>1. \/ At(1) \in 192 .. 223 \/ At(1) \in 224 .. 239
      \/ At(1) \in 240 .. 247 \/ At(1) \in 248 .. 253
  BY SMT
<1>2. /\ Row1 => At(1) \in 1 .. 127
      /\ Row2 => At(1) \in 192 .. 223
      /\ Row3 => At(1) \in 224 .. 239
      /\ Row4 => At(1) \in 240 .. 247
  BY SMT DEF Row1, Row2, Row3, Row4
<1>3. \A row \in Rows : Fits(pos + 1, row) => Row1 \/ Row2 \/ Row3 \/ Row4
  BY RowsByLength DEF FitsLen
<1>4. At(1) # 0
  BY SMT
<1>5. e \in 1 .. 5 /\ Passes(e) => pos + e + 2 <= Len(text)
  BY <1>4, Sequence DEF Passes
<1>6. CASE At(1) \in 192 .. 223
  <2>1. ~Row1 /\ ~Row3 /\ ~Row4
    BY <1>2, <1>6, SMT
  <2>2. e = 1 /\ (Passes(e) <=> Row2) /\ (Row2 <=> FitsLen(e + 1))
    BY <1>6, PassesTwo, RowsByLength
  <2> QED BY <1>3, <1>5, <2>1, <2>2
<1>7. CASE At(1) \in 224 .. 239
  <2>1. ~Row1 /\ ~Row2 /\ ~Row4
    BY <1>2, <1>7, SMT
  <2>2. e = 2 /\ (Passes(e) <=> Row3) /\ (Row3 <=> FitsLen(e + 1))
    BY <1>7, PassesThree, RowsByLength
  <2> QED BY <1>3, <1>5, <2>1, <2>2
<1>8. CASE At(1) \in 240 .. 247
  <2>1. ~Row1 /\ ~Row2 /\ ~Row3
    BY <1>2, <1>8, SMT
  <2>2. /\ e = 3 /\ (Row4 <=> FitsLen(e + 1))
        /\ Passes(e) => Row4
        /\ Row4 => Passes(e) \/ LooksSurrogate
    BY <1>8, PassesFour, RowsByLength
  <2> QED BY <1>3, <1>5, <2>1, <2>2
<1>9. CASE At(1) \in 248 .. 253
  <2>1. ~Row1 /\ ~Row2 /\ ~Row3 /\ ~Row4
    BY <1>2, <1>9, SMT
  <2>2. e \in {4, 5} /\ ~Passes(e)
    BY <1>9, PassesLonger
  <2> QED BY <1>3, <2>1, <2>2
<1> QED BY <1>1, <1>6, <1>7, <1>8, <1>9

LEMMA MultibyteStep ==
  ASSUME Utf8TypeOK, Multibyte
  PROVE  \/ /\ UNCHANGED <<text, utf8_ret>> /\ pos' \in 0 .. Len(text) - 1
            /\ \E row \in Rows : Fits(pos + 1, row) /\ pos' = pos + Len(row)
         \/ /\ Fail
            /\ (\A row \in Rows : ~Fits(pos + 1, row)) \/ LooksSurrogate
<1> DEFINE e == Expecting(At(1))
<1>1. /\ e \in 1 .. 5
      /\ Passes(e) => FitsLen(e + 1) /\ e + 1 \in 1 .. 4 /\ pos + e + 2 <= Len(text)
      /\ ~Passes(e) => (\A row \in Rows : ~Fits(pos + 1, row)) \/ LooksSurrogate
  BY FirstByte DEF Multibyte
<1>2. IF Passes(e) THEN pos' = pos + 1 + e /\ UNCHANGED <<text, utf8_ret>> ELSE Fail
  BY DEF Multibyte, Passes
<1> HIDE DEF e
<1>3. CASE Passes(e)
  <2>1. PICK row \in Rows : Fits(pos + 1, row) /\ Len(row) = e + 1
    BY <1>1, <1>3 DEF FitsLen
  <2>2. pos \in Nat /\ Len(text) \in Nat
    BY DEF Utf8TypeOK
  <2>3. pos' = pos + Len(row) /\ pos' \in 0 .. Len(text) - 1
    BY <1>1, <1>2, <1>3, <2>1, <2>2
  <2> QED BY <1>2, <1>3, <2>1, <2>3
<1> QED BY <1>1, <1>2, <1>3

LEMMA Utf8Start == Utf8Init => Utf8TypeOK /\ RejectsIllFormed
<1> SUFFICES ASSUME Utf8Init PROVE Utf8TypeOK /\ RejectsIllFormed
  OBVIOUS
<1>1. PICK t \in Texts : text = Append(t, 0)
  BY DEF Utf8Init
<1>2. t \in Seq(Byte)
  BY TextsAssumption DEF TextsAssumption
<1>3. text \in Seq(Byte) /\ text # <<>> /\ text[Len(text)] = 0 /\ Len(text) >= 1
  BY <1>1, <1>2 DEF Byte
<1> QED BY <1>3 DEF Utf8Init, Utf8TypeOK, RejectsIllFormed

(* One round of the loop.                                                  *)
LEMMA Utf8Step ==
  ASSUME Utf8TypeOK, RejectsIllFormed, [Utf8Next]_utf8_vars
  PROVE  /\ Utf8TypeOK' /\ RejectsIllFormed'
         /\ pos' # pos => \E row \in Rows : Fits(pos + 1, row) /\ pos' = pos + Len(row)
<1>1. CASE EndOfText
  BY <1>1 DEF EndOfText, Utf8TypeOK, RejectsIllFormed
<1>2. CASE Ascii
  <2>1. At(1) # 0 /\ pos \in Nat /\ Len(text) \in Nat /\ pos + 1 <= Len(text)
    <3>1. At(1) # 0
      BY <1>2, SMT DEF Ascii
    <3>2. pos \in Nat /\ Len(text) \in Nat /\ pos + 1 <= Len(text)
      BY DEF Utf8TypeOK
    <3> QED BY <3>1, <3>2
  <2>2. pos' = pos + 1 /\ UNCHANGED <<text, utf8_ret>> /\ pos + 2 <= Len(text) /\ utf8_ret = "running"
    BY <1>2, <2>1, Inside DEF Ascii
  <2>3. Fits(pos + 1, <<1 .. 127>>) /\ <<1 .. 127>> \in Rows
    BY <1>2, <2>1, RowsFit DEF Ascii, Rows
  <2>4. Utf8TypeOK' /\ RejectsIllFormed'
    BY <2>1, <2>2 DEF Utf8TypeOK, RejectsIllFormed
  <2> QED BY <2>2, <2>3, <2>4
<1>3. CASE BadFirst
  <2>1. At(1) \in 128 .. 191 \/ At(1) \in {254, 255}
    BY <1>3 DEF BadFirst, Continuation
  <2>9. Row1 \/ Row2 \/ Row3 \/ Row4 => At(1) \in 1 .. 127 \/ At(1) \in 192 .. 247
    BY SMT DEF Row1, Row2, Row3, Row4
  <2>2. ~Row1 /\ ~Row2 /\ ~Row3 /\ ~Row4
    BY <2>1, <2>9, SMT
  <2>3. \A row \in Rows : ~Fits(pos + 1, row)
    BY <2>2, RowsByLength DEF FitsLen
  <2>4. UNCHANGED <<text, pos>> /\ utf8_ret' = "FAIL"
    BY <1>3 DEF BadFirst, Fail
  <2> QED BY <2>3, <2>4 DEF Utf8TypeOK, RejectsIllFormed, Fits
<1>4. CASE Multibyte
  <2>1. utf8_ret = "running"
    BY <1>4 DEF Multibyte
  <2>2. CASE /\ UNCHANGED <<text, utf8_ret>> /\ pos' \in 0 .. Len(text) - 1
             /\ \E row \in Rows : Fits(pos + 1, row) /\ pos' = pos + Len(row)
    BY <2>1, <2>2 DEF Utf8TypeOK, RejectsIllFormed
  <2>3. CASE Fail /\ ((\A row \in Rows : ~Fits(pos + 1, row)) \/ LooksSurrogate)
    BY <2>3 DEF Fail, Utf8TypeOK, RejectsIllFormed, Fits, LooksSurrogate, utf32, Low, At
  <2> QED BY <1>4, <2>2, <2>3, MultibyteStep
<1>5. CASE UNCHANGED utf8_vars
  BY <1>5 DEF utf8_vars, Utf8TypeOK, RejectsIllFormed, Fits, LooksSurrogate, utf32, Low, At
<1> QED BY <1>1, <1>2, <1>3, <1>4, <1>5 DEF Utf8Next, Utf8Stopped

LEMMA Utf8Invariant == Utf8Spec => [](Utf8TypeOK /\ RejectsIllFormed)
<1>1. Utf8TypeOK /\ RejectsIllFormed /\ [Utf8Next]_utf8_vars => (Utf8TypeOK /\ RejectsIllFormed)'
  BY Utf8Step
<1> QED BY Utf8Start, <1>1, PTL DEF Utf8Spec

(* No byte after the NUL that ends the text is read.                       *)
THEOREM Utf8TypeCorrect == Utf8Spec => []Utf8TypeOK
  BY Utf8Invariant, PTL

(* Whatever the text, the masks of the code let through the well-formed    *)
(* characters of the Unicode standard only.                                *)
THEOREM AcceptsCharactersOnly == Utf8Spec => TakesCharacters
<1>1. Utf8TypeOK /\ RejectsIllFormed /\ [Utf8Next]_utf8_vars
      => [pos' # pos => \E row \in Rows : Fits(pos + 1, row) /\ pos' = pos + Len(row)]_utf8_vars
  BY Utf8Step
<1> QED BY Utf8Invariant, <1>1, PTL DEF Utf8Spec, TakesCharacters

(* And they stop no well-formed character, but for those the last mask     *)
(* takes for surrogates.                                                   *)
THEOREM RejectsOnlyIllFormed == Utf8Spec => []RejectsIllFormed
  BY Utf8Invariant, PTL

-----------------------------------------------------------------------------
(* Lists of strings: TrimList.                                             *)

(* As long as the loops run, out may go back to the first character: it is *)
(* no white space and stops the loop over the trailing white space.        *)
FirstStays ==
  trim_pc # "done" =>
    /\ out > 0 => list[0] \notin WHITESPACE \cup {ZERO}
    /\ trim_pc = "copy" /\ out = 0 => list[in] \notin WHITESPACE

TrimInv == original \in Lists /\ TrimTypeOK /\ InPlace /\ FirstStays

(* The string the positions count in.                                      *)
LEMMA ListShape ==
  ASSUME original \in Lists
  PROVE  \E z \in Nat : /\ Positions = 0 .. z
                        /\ \A i \in 0 .. z : original[i] = ZERO <=> i = z
  BY ListsAssumption DEF ListsAssumption, Positions

LEMMA TrimStart == TrimInit => TrimInv
<1> SUFFICES ASSUME TrimInit PROVE TrimInv
  OBVIOUS
<1>1. original \in Lists
  BY DEF TrimInit
<1>2. PICK z \in Nat : Positions = 0 .. z
  BY <1>1, ListShape
<1> QED BY <1>1, <1>2 DEF TrimInit, TrimInv, TrimTypeOK, InPlace, FirstStays, Positions

(* A character that is not the NUL is copied downwards, and not over a     *)
(* character that is still to be read.                                     *)
LEMMA Copied ==
  ASSUME TrimInv, trim_pc # "done", list[in] # ZERO, CopyChar, original' = original,
         out = 0 => list[in] \notin WHITESPACE
  PROVE  /\ DOMAIN list' = Positions /\ in' \in Positions /\ out' \in Positions
         /\ out' <= in' /\ out' > 0
         /\ \A i \in Positions : i >= in' => list'[i] = original[i]
         /\ list'[0] \notin WHITESPACE \cup {ZERO}
<1>1. PICK z \in Nat : Positions = 0 .. z /\ \A i \in 0 .. z : original[i] = ZERO <=> i = z
  BY ListShape DEF TrimInv
<1>2. /\ in \in 0 .. z /\ out \in 0 .. z /\ out <= in /\ DOMAIN list = 0 .. z
      /\ \A i \in 0 .. z : i >= in => list[i] = original[i]
      /\ out > 0 => list[0] \notin WHITESPACE \cup {ZERO}
  BY <1>1 DEF TrimInv, TrimTypeOK, InPlace, FirstStays
<1>3. in < z
  BY <1>1, <1>2
<1>4. /\ list' = [list EXCEPT ![out] = list[in]] /\ in' = in + 1 /\ out' = out + 1
  BY DEF CopyChar
<1>5. \A i \in 0 .. z : list'[i] = IF i = out THEN list[in] ELSE list[i]
  BY <1>2, <1>4
<1>6. list'[0] \notin WHITESPACE \cup {ZERO}
  BY <1>2, <1>5
<1> QED BY <1>1, <1>2, <1>3, <1>4, <1>5, <1>6

LEMMA TrimStep == TrimInv /\ [TrimNext]_trim_vars => TrimInv'
<1> SUFFICES ASSUME TrimInv, [TrimNext]_trim_vars PROVE TrimInv'
  OBVIOUS
<1>0. PICK z \in Nat : Positions = 0 .. z /\ \A i \in 0 .. z : original[i] = ZERO <=> i = z
  BY ListShape DEF TrimInv
<1> USE DEF TrimInv, TrimTypeOK, InPlace, FirstStays, Positions
<1>1. CASE NextItem
  BY <1>1 DEF NextItem, Goto
<1>2. CASE SkipLeading
  <2>1. in \in 0 .. z /\ original[in] # ZERO /\ in + 1 \in 0 .. z
    BY <1>0, <1>2 DEF SkipLeading
  <2> QED BY <1>0, <1>2, <2>1 DEF SkipLeading
<1>3. CASE EndLeading
  <2>1. trim_pc' = "copy" /\ UNCHANGED <<original, list, in, out>> /\ list[in] \notin WHITESPACE
    BY <1>3, CharsAssumption DEF EndLeading, Goto, strchr, CharsAssumption
  <2> QED BY <1>3, <2>1 DEF EndLeading
<1>4. CASE Copy
  <2>1. /\ trim_pc = "copy" /\ list[in] # ZERO /\ CopyChar /\ UNCHANGED <<original, trim_pc>>
    BY <1>4 DEF Copy
  <2>2. /\ DOMAIN list' = Positions /\ in' \in Positions /\ out' \in Positions
        /\ out' <= in' /\ out' > 0
        /\ \A i \in Positions : i >= in' => list'[i] = original[i]
        /\ list'[0] \notin WHITESPACE \cup {ZERO}
    BY <2>1, Copied
  <2> QED BY <1>0, <2>1, <2>2
<1>5. CASE EndCopy
  BY <1>0, <1>5 DEF EndCopy, Goto
<1>6. CASE SkipTrailing
  <2>1. trim_pc = "trailing" /\ out > 0 /\ list[out - 1] \in WHITESPACE \cup {ZERO}
    BY <1>6 DEF SkipTrailing, strchr
  <2>2. out - 1 # 0
    BY <2>1
  <2>3. out' = out - 1 /\ out' \in 0 .. z /\ out' > 0 /\ UNCHANGED <<original, list, in, trim_pc>>
    BY <1>0, <1>6, <2>1, <2>2 DEF SkipTrailing
  <2> QED BY <1>0, <2>1, <2>3
<1>7. CASE EndTrailing
  BY <1>0, <1>7 DEF EndTrailing, Goto
<1>8. CASE Delimiter
  <2>1. CASE list[in] = DELIMITER
    <3>1. /\ CopyChar /\ trim_pc # "done" /\ trim_pc' = "item" /\ UNCHANGED original
          /\ list[in] # ZERO /\ list[in] \notin WHITESPACE
      BY <1>8, <2>1, CharsAssumption DEF Delimiter, CharsAssumption
    <3>2. /\ DOMAIN list' = Positions /\ in' \in Positions /\ out' \in Positions
          /\ out' <= in' /\ out' > 0
          /\ \A i \in Positions : i >= in' => list'[i] = original[i]
          /\ list'[0] \notin WHITESPACE \cup {ZERO}
      BY <3>1, Copied
    <3> QED BY <1>0, <3>1, <3>2
  <2>2. CASE list[in] # DELIMITER
    BY <1>0, <1>8, <2>2 DEF Delimiter
  <2> QED BY <2>1, <2>2
<1>9. CASE Finish
  BY <1>0, <1>9 DEF Finish
<1>10. CASE UNCHANGED trim_vars
  BY <1>10 DEF trim_vars
<1> QED BY <1>1, <1>2, <1>3, <1>4, <1>5, <1>6, <1>7, <1>8, <1>9, <1>10 DEF TrimNext, TrimStopped

LEMMA TrimInvariant == TrimSpec => []TrimInv
  BY TrimStart, TrimStep, PTL DEF TrimSpec

(* The positions stay in the string.                                       *)
THEOREM TrimTypeCorrect == TrimSpec => []TrimTypeOK
<1>1. TrimInv => TrimTypeOK
  BY DEF TrimInv
<1> QED BY TrimInvariant, <1>1, PTL

(* In a list of any length, what is written never overtakes what is still  *)
(* to be read, and no character before the list is read.                   *)
THEOREM StaysInPlace == TrimSpec => []InPlace
<1>1. TrimInv => InPlace
  BY DEF TrimInv
<1> QED BY TrimInvariant, <1>1, PTL

-----------------------------------------------------------------------------
(* Lines: LineReader.  A part of a sequence.                               *)
LEMMA Part ==
  ASSUME NEW T, NEW s \in Seq(T), NEW i \in 1 .. Len(s) + 1, NEW j \in 0 .. Len(s), i <= j + 1
  PROVE  /\ SubSeq(s, i, j) \in Seq(T) /\ Len(SubSeq(s, i, j)) = j - i + 1
         /\ \A k \in 1 .. j - i + 1 : SubSeq(s, i, j)[k] = s[i + k - 1]
<1>1. Len(s) \in Nat /\ i \in Int /\ j \in Int /\ \A k \in i .. j : k \in 1 .. Len(s)
  OBVIOUS
<1>2. \A k \in i .. j : s[k] \in T
  BY <1>1, ElementOfSeq
<1> DEFINE t == SubSeq(s, i, j)
<1>3. /\ t \in Seq(T) /\ Len(t) = IF i <= j THEN j - i + 1 ELSE 0
      /\ \A k \in 1 .. j - i + 1 : t[k] = s[i + k - 1]
  BY <1>1, <1>2, SubSeqProperties
<1> HIDE DEF t
<1>4. Len(t) = j - i + 1
  BY <1>1, <1>3
<1> QED
  BY <1>3, <1>4 DEF t

LEMMA PartOfPart ==
  ASSUME NEW T, NEW s \in Seq(T), NEW i \in 1 .. Len(s) + 1, NEW j \in 0 .. Len(s), i <= j + 1,
         NEW k \in 1 .. j - i + 2, NEW l \in 0 .. j - i + 1, k <= l + 1
  PROVE  SubSeq(SubSeq(s, i, j), k, l) = SubSeq(s, i + k - 1, i + l - 1)
<1> DEFINE t == SubSeq(s, i, j)
           x == SubSeq(t, k, l)
           y == SubSeq(s, i + k - 1, i + l - 1)
<1>1. t \in Seq(T) /\ Len(t) = j - i + 1 /\ \A d \in 1 .. j - i + 1 : t[d] = s[i + d - 1]
  BY Part
<1>2. /\ i + k - 1 \in 1 .. Len(s) + 1 /\ i + l - 1 \in 0 .. Len(s) /\ i + k - 1 <= (i + l - 1) + 1
      /\ k \in 1 .. Len(t) + 1 /\ l \in 0 .. Len(t)
      /\ (i + l - 1) - (i + k - 1) + 1 = l - k + 1
  BY <1>1
<1>3. x \in Seq(T) /\ Len(x) = l - k + 1 /\ \A d \in 1 .. l - k + 1 : x[d] = t[k + d - 1]
  <2> HIDE DEF t
  <2> QED
    BY <1>1, <1>2, Part
<1>4. y \in Seq(T) /\ Len(y) = l - k + 1 /\ \A d \in 1 .. l - k + 1 : y[d] = s[(i + k - 1) + d - 1]
  <2> DEFINE a1 == i + k - 1
             a2 == i + l - 1
  <2>1. a1 \in 1 .. Len(s) + 1 /\ a2 \in 0 .. Len(s) /\ a1 <= a2 + 1 /\ a2 - a1 + 1 = l - k + 1
    BY <1>2
  <2> HIDE DEF a1, a2
  <2>2. /\ SubSeq(s, a1, a2) \in Seq(T) /\ Len(SubSeq(s, a1, a2)) = a2 - a1 + 1
        /\ \A d \in 1 .. a2 - a1 + 1 : SubSeq(s, a1, a2)[d] = s[a1 + d - 1]
    BY <2>1, Part
  <2> QED
    BY <2>1, <2>2 DEF a1, a2
<1> HIDE DEF t, x, y
<1>5. \A d \in 1 .. l - k + 1 : x[d] = y[d]
  <2>1. \A d \in 1 .. l - k + 1 : k + d - 1 \in 1 .. j - i + 1 /\ i + (k + d - 1) - 1 = (i + k - 1) + d - 1
    OBVIOUS
  <2> QED
    BY <1>1, <1>3, <1>4, <2>1
<1>6. x = y
  <2>1. x = [d \in 1 .. l - k + 1 |-> x[d]] /\ y = [d \in 1 .. l - k + 1 |-> y[d]]
    BY <1>3, <1>4
  <2> QED
    BY <1>5, <2>1
<1> QED
  BY <1>6 DEF x, y, t

(* The first place in a sequence from which on a property holds exists.    *)
LEMMA BeforeIs ==
  ASSUME NEW T, NEW s \in Seq(T), NEW d
  PROVE  \E b \in 0 .. Len(s) :
           /\ Before(s, d) = SubSeq(s, 1, b)
           /\ \A i \in 1 .. b : s[i] # d
           /\ b = Len(s) \/ s[b + 1] = d
<1> DEFINE Ends == {i \in 0 .. Len(s) : i = Len(s) \/ s[i + 1] = d}
           Cut == {SubSeq(s, 1, l) : l \in 0 .. Len(s)}
           Fine(t) == d \notin ToSet(t) /\ (Len(t) = Len(s) \/ s[Len(t) + 1] = d)
<1>1. Ends \in SUBSET Nat /\ Ends # {}
  <2>1. Len(s) \in 0 .. Len(s) /\ 0 .. Len(s) \subseteq Nat
    OBVIOUS
  <2> QED
    BY <2>1
<1>2. PICK b \in Ends : \A x \in Ends : b <= x
  <2> HIDE DEF Ends
  <2> QED
    BY <1>1, LeastNumber
<1>3. \A l \in 0 .. Len(s) :
        /\ SubSeq(s, 1, l) \in Seq(T) /\ Len(SubSeq(s, 1, l)) = l
        /\ DOMAIN SubSeq(s, 1, l) = 1 .. l
        /\ \A i \in 1 .. l : SubSeq(s, 1, l)[i] = s[i]
  <2> TAKE l \in 0 .. Len(s)
  <2> DEFINE t == SubSeq(s, 1, l)
  <2>1. t \in Seq(T) /\ Len(t) = l - 1 + 1 /\ \A i \in 1 .. l - 1 + 1 : t[i] = s[1 + i - 1]
    <3>1. 1 \in 1 .. Len(s) + 1 /\ 1 <= l + 1
      OBVIOUS
    <3> QED
      BY <3>1, Part
  <2> HIDE DEF t
  <2>2. l - 1 + 1 = l /\ \A i \in 1 .. l : 1 + i - 1 = i
    OBVIOUS
  <2>3. t \in Seq(T) /\ Len(t) = l /\ \A i \in 1 .. l : t[i] = s[i]
    BY <2>1, <2>2
  <2>4. DOMAIN t = 1 .. l
    BY <2>3
  <2> QED
    BY <2>3, <2>4 DEF t
<1>4. \A i \in 1 .. b : s[i] # d
  <2> SUFFICES ASSUME NEW i \in 1 .. b, s[i] = d PROVE FALSE
    OBVIOUS
  <2>1. i - 1 \in 0 .. Len(s) /\ (i - 1) + 1 = i /\ ~(b <= i - 1)
    BY <1>2
  <2> QED
    BY <1>2, <2>1
<1>5. SubSeq(s, 1, b) \in Cut /\ Fine(SubSeq(s, 1, b))
  <2>1. b \in 0 .. Len(s) /\ (b = Len(s) \/ s[b + 1] = d)
    BY <1>2
  <2> QED
    BY <1>3, <1>4, <2>1 DEF ToSet
<1>6. Before(s, d) \in Cut /\ Fine(Before(s, d))
  <2>1. Before(s, d) = CHOOSE t \in Cut : Fine(t)
    BY DEF Before
  <2> HIDE DEF Cut, Fine
  <2> QED
    BY <1>5, <2>1
<1>7. PICK l \in 0 .. Len(s) : Before(s, d) = SubSeq(s, 1, l)
  BY <1>6
<1>8. \A i \in 1 .. l : s[i] # d
  BY <1>3, <1>6, <1>7 DEF ToSet
<1>9. l = Len(s) \/ s[l + 1] = d
  BY <1>3, <1>6, <1>7
<1> QED
  BY <1>7, <1>8, <1>9

LEMMA RTrimIs ==
  ASSUME NEW T, NEW s \in Seq(T), NEW D
  PROVE  \E b \in 0 .. Len(s) :
           /\ str_rtrim(s, D) = SubSeq(s, 1, b)
           /\ b = 0 \/ s[b] \notin D
           /\ \A i \in b + 1 .. Len(s) : s[i] \in D
<1> DEFINE Ends == {i \in 0 .. Len(s) : i = Len(s) \/ s[Len(s) - i] \notin D}
           Cut == {SubSeq(s, 1, l) : l \in 0 .. Len(s)}
           Fine(t) == (t = <<>> \/ Last(t) \notin D) /\ \A i \in Len(t) + 1 .. Len(s) : s[i] \in D
<1>1. Ends \in SUBSET Nat /\ Ends # {}
  <2>1. Len(s) \in 0 .. Len(s) /\ 0 .. Len(s) \subseteq Nat
    OBVIOUS
  <2> QED
    BY <2>1
<1>2. PICK e \in Ends : \A x \in Ends : e <= x
  <2> HIDE DEF Ends
  <2> QED
    BY <1>1, LeastNumber
<1> DEFINE b == Len(s) - e
<1>3. b \in 0 .. Len(s) /\ (b = 0 \/ s[b] \notin D)
  <2>1. e \in 0 .. Len(s) /\ Len(s) \in Nat /\ (e = Len(s) \/ s[Len(s) - e] \notin D)
    BY <1>2
  <2> QED
    BY <2>1
<1>4. \A l \in 0 .. Len(s) :
        /\ Len(SubSeq(s, 1, l)) = l /\ (l # 0 => Last(SubSeq(s, 1, l)) = s[l])
        /\ (SubSeq(s, 1, l) = <<>> <=> l = 0)
  <2> TAKE l \in 0 .. Len(s)
  <2> DEFINE t == SubSeq(s, 1, l)
  <2>1. t \in Seq(T) /\ Len(t) = l - 1 + 1 /\ \A i \in 1 .. l - 1 + 1 : t[i] = s[1 + i - 1]
    <3>1. 1 \in 1 .. Len(s) + 1 /\ 1 <= l + 1
      OBVIOUS
    <3> QED
      BY <3>1, Part
  <2> HIDE DEF t
  <2>2. l - 1 + 1 = l /\ \A i \in 1 .. l : 1 + i - 1 = i
    OBVIOUS
  <2>3. t \in Seq(T) /\ Len(t) = l /\ \A i \in 1 .. l : t[i] = s[i]
    BY <2>1, <2>2
  <2>4. (l # 0 => Last(t) = s[l]) /\ (t = <<>> <=> l = 0)
    BY <2>3, EmptySeq DEF Last
  <2> QED
    BY <2>3, <2>4 DEF t
<1>5. \A i \in b + 1 .. Len(s) : s[i] \in D
  <2> SUFFICES ASSUME NEW i \in b + 1 .. Len(s), s[i] \notin D PROVE FALSE
    OBVIOUS
  <2>1. e \in 0 .. Len(s) /\ Len(s) \in Nat
    BY <1>2
  <2>2. Len(s) - i \in 0 .. Len(s) /\ Len(s) - (Len(s) - i) = i /\ ~(e <= Len(s) - i)
    BY <2>1
  <2> QED
    BY <1>2, <2>2
<1> HIDE DEF b
<1>6. SubSeq(s, 1, b) \in Cut /\ Fine(SubSeq(s, 1, b))
  BY <1>3, <1>4, <1>5
<1>7. str_rtrim(s, D) \in Cut /\ Fine(str_rtrim(s, D))
  <2>1. str_rtrim(s, D) = CHOOSE t \in Cut : Fine(t)
    BY DEF str_rtrim
  <2> HIDE DEF Cut, Fine
  <2> QED
    BY <1>6, <2>1
<1>8. PICK l \in 0 .. Len(s) : str_rtrim(s, D) = SubSeq(s, 1, l)
  BY <1>7
<1> QED
  BY <1>4, <1>7, <1>8

LEMMA LTrimIs ==
  ASSUME NEW T, NEW s \in Seq(T), NEW D
  PROVE  \E b \in 1 .. Len(s) + 1 :
           /\ str_ltrim(s, D) = SubSeq(s, b, Len(s))
           /\ b = Len(s) + 1 \/ s[b] \notin D
           /\ \A i \in 1 .. b - 1 : s[i] \in D
<1> DEFINE Begins == {i \in 1 .. Len(s) + 1 : i = Len(s) + 1 \/ s[i] \notin D}
           Cut == {SubSeq(s, l, Len(s)) : l \in 1 .. Len(s) + 1}
           Fine(t) == (t = <<>> \/ Head(t) \notin D) /\ \A i \in 1 .. Len(s) - Len(t) : s[i] \in D
<1>0. Len(s) \in Nat
  OBVIOUS
<1>1. Begins \in SUBSET Nat /\ Begins # {}
  <2>1. Len(s) + 1 \in 1 .. Len(s) + 1 /\ 1 .. Len(s) + 1 \subseteq Nat
    OBVIOUS
  <2> QED
    BY <2>1
<1>2. PICK b \in Begins : \A x \in Begins : b <= x
  <2> HIDE DEF Begins
  <2> QED
    BY <1>1, LeastNumber
<1>3. b \in 1 .. Len(s) + 1 /\ (b = Len(s) + 1 \/ s[b] \notin D)
  BY <1>2
<1>4. \A l \in 1 .. Len(s) + 1 :
        /\ Len(SubSeq(s, l, Len(s))) = Len(s) - l + 1
        /\ l # Len(s) + 1 => Head(SubSeq(s, l, Len(s))) = s[l]
        /\ (SubSeq(s, l, Len(s)) = <<>> <=> l = Len(s) + 1)
  <2> TAKE l \in 1 .. Len(s) + 1
  <2> DEFINE t == SubSeq(s, l, Len(s))
  <2>1. t \in Seq(T) /\ Len(t) = Len(s) - l + 1 /\ \A i \in 1 .. Len(s) - l + 1 : t[i] = s[l + i - 1]
    <3>1. Len(s) \in 0 .. Len(s) /\ l <= Len(s) + 1
      OBVIOUS
    <3> QED
      BY <3>1, Part
  <2> HIDE DEF t
  <2>2. l # Len(s) + 1 => 1 \in 1 .. Len(s) - l + 1 /\ l + 1 - 1 = l
    BY <1>0
  <2>3. (l # Len(s) + 1 => Head(t) = s[l]) /\ (t = <<>> <=> l = Len(s) + 1)
    BY <1>0, <2>1, <2>2, EmptySeq
  <2> QED
    BY <2>1, <2>3 DEF t
<1>5. \A i \in 1 .. b - 1 : s[i] \in D
  <2> SUFFICES ASSUME NEW i \in 1 .. b - 1, s[i] \notin D PROVE FALSE
    OBVIOUS
  <2>1. i \in 1 .. Len(s) + 1 /\ ~(b <= i)
    BY <1>0, <1>3
  <2> QED
    BY <1>2, <2>1
<1>6. \A l \in 1 .. Len(s) + 1 : Len(s) - (Len(s) - l + 1) = l - 1
  BY <1>0
<1>7. SubSeq(s, b, Len(s)) \in Cut /\ Fine(SubSeq(s, b, Len(s)))
  BY <1>3, <1>4, <1>5, <1>6
<1>8. str_ltrim(s, D) \in Cut /\ Fine(str_ltrim(s, D))
  <2>1. str_ltrim(s, D) = CHOOSE t \in Cut : Fine(t)
    BY DEF str_ltrim
  <2> HIDE DEF Cut, Fine
  <2> QED
    BY <1>7, <2>1
<1>9. PICK l \in 1 .. Len(s) + 1 : str_ltrim(s, D) = SubSeq(s, l, Len(s))
  BY <1>8
<1>10. \A i \in 1 .. l - 1 : s[i] \in D
  <2>1. Len(s) - Len(str_ltrim(s, D)) = l - 1
    BY <1>4, <1>6, <1>9
  <2> QED
    BY <1>8, <2>1
<1>11. l = Len(s) + 1 \/ s[l] \notin D
  BY <1>4, <1>8, <1>9
<1> QED
  BY <1>9, <1>10, <1>11

(* Whatever part of a line is taken, it is made of its characters.         *)
LEMMA PartsAreStrings ==
  ASSUME NEW T, NEW s \in Seq(T), NEW d, NEW D
  PROVE  /\ Before(s, d) \in Seq(T) /\ str_rtrim(s, D) \in Seq(T) /\ str_ltrim(s, D) \in Seq(T)
         /\ \A k \in 0 .. Len(s) : From(s, k) \in Seq(T)
<1>1. \A l \in 0 .. Len(s) : SubSeq(s, 1, l) \in Seq(T)
  <2>1. \A l \in 0 .. Len(s) : 1 \in 1 .. Len(s) + 1 /\ 1 <= l + 1
    OBVIOUS
  <2> QED
    BY <2>1, Part
<1>2. \A l \in 1 .. Len(s) + 1 : SubSeq(s, l, Len(s)) \in Seq(T)
  <2>1. \A l \in 1 .. Len(s) + 1 : Len(s) \in 0 .. Len(s) /\ l <= Len(s) + 1
    OBVIOUS
  <2> QED
    BY <2>1, Part
<1>3. Before(s, d) \in Seq(T)
  BY <1>1, BeforeIs
<1>4. str_rtrim(s, D) \in Seq(T)
  BY <1>1, RTrimIs
<1>5. str_ltrim(s, D) \in Seq(T)
  <2>1. PICK b \in 1 .. Len(s) + 1 : str_ltrim(s, D) = SubSeq(s, b, Len(s))
    BY LTrimIs
  <2> QED
    BY <1>2, <2>1
<1>6. \A k \in 0 .. Len(s) : k + 1 \in 1 .. Len(s) + 1
  OBVIOUS
<1> QED
  BY <1>2, <1>3, <1>4, <1>5, <1>6 DEF From

(* What fgets reads: m characters, of which only the last may end a line.  *)
LEMMA PieceIs ==
  ASSUME NEW T, NEW s \in Seq(T), s # <<>>
  PROVE  \E m \in 1 .. Len(s) :
           /\ Piece(s) = SubSeq(s, 1, m) /\ Piece(s) \in Seq(T) /\ Len(Piece(s)) = m
           /\ \A i \in 1 .. m : Piece(s)[i] = s[i]
           /\ m < MAX_STRING_LEN /\ \A i \in 1 .. m - 1 : s[i] # NL
           /\ m = Len(s) \/ s[m] = NL \/ m + 1 = MAX_STRING_LEN
<1>1. PICK b \in 0 .. Len(s) :
        /\ Before(s, NL) = SubSeq(s, 1, b)
        /\ \A i \in 1 .. b : s[i] # NL
        /\ b = Len(s) \/ s[b + 1] = NL
  BY BeforeIs
<1>2. \A l \in 0 .. Len(s) :
        /\ SubSeq(s, 1, l) \in Seq(T) /\ Len(SubSeq(s, 1, l)) = l
        /\ \A i \in 1 .. l : SubSeq(s, 1, l)[i] = s[i]
  <2> TAKE l \in 0 .. Len(s)
  <2> DEFINE t == SubSeq(s, 1, l)
  <2>1. t \in Seq(T) /\ Len(t) = l - 1 + 1 /\ \A i \in 1 .. l - 1 + 1 : t[i] = s[1 + i - 1]
    <3>1. 1 \in 1 .. Len(s) + 1 /\ 1 <= l + 1
      OBVIOUS
    <3> QED
      BY <3>1, Part
  <2> HIDE DEF t
  <2>2. l - 1 + 1 = l /\ \A i \in 1 .. l : 1 + i - 1 = i
    OBVIOUS
  <2>3. t \in Seq(T) /\ Len(t) = l /\ \A i \in 1 .. l : t[i] = s[i]
    BY <2>1, <2>2
  <2> QED
    BY <2>3 DEF t
<1>3. Len(s) \in Nat \ {0} /\ MAX_STRING_LEN \in Nat /\ MAX_STRING_LEN > 1
  BY BufferAssumption, EmptySeq DEF BufferAssumption
<1> DEFINE Ends == {b + 1, Len(s), MAX_STRING_LEN - 1}
           m == Least(Ends)
<1>4. m \in Ends /\ \A x \in Ends : m <= x
  <2>1. Ends \in SUBSET Nat /\ Ends # {}
    BY <1>3
  <2>2. \E y \in Ends : \A x \in Ends : y <= x
    <3> HIDE DEF Ends
    <3> QED
      BY <2>1, LeastNumber
  <2> HIDE DEF Ends
  <2> QED
    BY <2>2 DEF Least
<1>5. Piece(s) = SubSeq(s, 1, m)
  BY <1>1, <1>2 DEF Piece
<1> HIDE DEF m
<1>6. m \in 1 .. Len(s) /\ m <= b + 1 /\ m < MAX_STRING_LEN
  BY <1>3, <1>4
<1>7. \A i \in 1 .. m - 1 : s[i] # NL
  BY <1>1, <1>6
<1>8. m = Len(s) \/ s[m] = NL \/ m + 1 = MAX_STRING_LEN
  BY <1>1, <1>3, <1>4, <1>6
<1> QED
  BY <1>2, <1>5, <1>6, <1>7, <1>8

-----------------------------------------------------------------------------
(* The rest of the file, of which k characters are read.                   *)
LEMMA RestIs ==
  ASSUME file \in Files, NEW k \in 0 .. Len(file)
  PROVE  /\ file \in Seq(ToSet(file)) /\ Len(file) \in Nat
         /\ From(file, k) \in Seq(ToSet(file)) /\ Len(From(file, k)) = Len(file) - k
         /\ \A i \in 1 .. Len(file) - k : From(file, k)[i] = file[k + i]
         /\ \A m \in 0 .. Len(file) - k : From(From(file, k), m) = From(file, k + m)
<1>1. file \in Seq(ToSet(file)) /\ Len(file) \in Nat
  BY FilesAssumption DEF FilesAssumption
<1> DEFINE T == ToSet(file)
           t == From(file, k)
<1>2. k + 1 \in 1 .. Len(file) + 1 /\ Len(file) \in 0 .. Len(file) /\ k + 1 <= Len(file) + 1
  BY <1>1
<1>3. /\ t \in Seq(T) /\ Len(t) = Len(file) - (k + 1) + 1
      /\ \A i \in 1 .. Len(file) - (k + 1) + 1 : t[i] = file[(k + 1) + i - 1]
  <2> DEFINE i == k + 1
             j == Len(file)
  <2>1. file \in Seq(T) /\ i \in 1 .. Len(file) + 1 /\ j \in 0 .. Len(file) /\ i <= j + 1
    BY <1>1, <1>2
  <2> HIDE DEF T, i, j
  <2>2. /\ SubSeq(file, i, j) \in Seq(T) /\ Len(SubSeq(file, i, j)) = j - i + 1
        /\ \A l \in 1 .. j - i + 1 : SubSeq(file, i, j)[l] = file[i + l - 1]
    BY <2>1, Part
  <2> QED
    BY <2>2 DEF From, i, j
<1>4. ASSUME NEW m \in 0 .. Len(file) - k PROVE From(t, m) = From(file, k + m)
  <2> DEFINE i == k + 1
             j == Len(file)
             x == m + 1
             y == Len(file) - k
  <2>1. i \in 1 .. Len(file) + 1 /\ j \in 0 .. Len(file) /\ i <= j + 1
        /\ x \in 1 .. j - i + 2 /\ y \in 0 .. j - i + 1 /\ x <= y + 1
    BY <1>1, <1>2
  <2>2. SubSeq(SubSeq(file, i, j), x, y) = SubSeq(file, i + x - 1, i + y - 1)
    <3> HIDE DEF i, j, x, y, T
    <3> QED
      BY <1>1, <2>1, PartOfPart
  <2>3. i + x - 1 = (k + m) + 1 /\ i + y - 1 = Len(file) /\ Len(t) = y
    BY <1>1, <1>3
  <2> HIDE DEF t
  <2>4. From(t, m) = SubSeq(t, x, y) /\ t = SubSeq(file, i, j)
    BY <2>3 DEF From, t
  <2> HIDE DEF i, j, x, y
  <2> QED
    BY <2>2, <2>3, <2>4 DEF From
<1> HIDE DEF t
<1>5. Len(t) = Len(file) - k /\ \A i \in 1 .. Len(file) - k : t[i] = file[k + i]
  <2>1. Len(file) - (k + 1) + 1 = Len(file) - k /\ \A i \in 1 .. Len(file) - k : (k + 1) + i - 1 = k + i
    BY <1>1
  <2> QED
    BY <1>3, <2>1
<1> QED
  BY <1>1, <1>3, <1>4, <1>5 DEF t

(* One call of fgets: the file is read further, by at least a character.   *)
LEMMA ReadOn ==
  ASSUME file \in Files, NEW k \in 0 .. Len(file), rest = From(file, k), Read
  PROVE  \E m \in 1 .. Len(file) - k :
           /\ rest' = From(file, k + m)
           /\ rest \in Seq(ToSet(file)) /\ Len(rest) = Len(file) - k
           /\ Piece(rest) \in Seq(ToSet(file)) /\ Len(Piece(rest)) = m
           /\ \A i \in 1 .. m : Piece(rest)[i] = file[k + i]
           /\ m < MAX_STRING_LEN /\ \A i \in 1 .. m - 1 : file[k + i] # NL
           /\ k + m = Len(file) \/ file[k + m] = NL \/ m + 1 = MAX_STRING_LEN
<1>1. /\ rest \in Seq(ToSet(file)) /\ Len(rest) = Len(file) - k /\ Len(file) \in Nat
      /\ \A i \in 1 .. Len(file) - k : rest[i] = file[k + i]
      /\ \A m \in 0 .. Len(file) - k : From(rest, m) = From(file, k + m)
  BY RestIs
<1>2. rest # <<>> /\ rest' = From(rest, Len(Piece(rest)))
  BY DEF Read
<1>3. PICK m \in 1 .. Len(rest) :
        /\ Piece(rest) \in Seq(ToSet(file)) /\ Len(Piece(rest)) = m
        /\ \A i \in 1 .. m : Piece(rest)[i] = rest[i]
        /\ m < MAX_STRING_LEN /\ \A i \in 1 .. m - 1 : rest[i] # NL
        /\ m = Len(rest) \/ rest[m] = NL \/ m + 1 = MAX_STRING_LEN
  <2> DEFINE T == ToSet(file)
  <2>1. rest \in Seq(T)
    BY <1>1
  <2> HIDE DEF T
  <2>2. \E m \in 1 .. Len(rest) :
        /\ Piece(rest) \in Seq(T) /\ Len(Piece(rest)) = m
        /\ \A i \in 1 .. m : Piece(rest)[i] = rest[i]
        /\ m < MAX_STRING_LEN /\ \A i \in 1 .. m - 1 : rest[i] # NL
        /\ m = Len(rest) \/ rest[m] = NL \/ m + 1 = MAX_STRING_LEN
    BY <1>2, <2>1, PieceIs
  <2> QED
    BY <2>2 DEF T
<1>4. m \in 1 .. Len(file) - k /\ rest' = From(file, k + m)
  BY <1>1, <1>2, <1>3
<1>5. \A i \in 1 .. m : Piece(rest)[i] = file[k + i] /\ rest[i] = file[k + i]
  <2>1. \A i \in 1 .. m : i \in 1 .. Len(file) - k
    BY <1>1, <1>4
  <2> QED
    BY <1>1, <1>3, <2>1
<1>6. \A i \in 1 .. m - 1 : file[k + i] # NL
  <2>1. \A i \in 1 .. m - 1 : i \in 1 .. m
    BY <1>4
  <2> QED
    BY <1>3, <1>5, <2>1
<1>7. k + m = Len(file) \/ file[k + m] = NL \/ m + 1 = MAX_STRING_LEN
  <2>1. m \in 1 .. m /\ (m = Len(rest) => k + m = Len(file))
    BY <1>1, <1>3
  <2> QED
    BY <1>3, <1>5, <2>1
<1> QED
  BY <1>1, <1>3, <1>4, <1>5, <1>6, <1>7

(* The lines counted are no more than the characters read.                 *)
LinesCounted == \E k \in 0 .. Len(file) : rest = From(file, k) /\ lineno <= k + 1
LineInv ==
  /\ file \in Files /\ LinesCounted
  /\ lineno \in Nat \ {0}
  /\ entries \in Seq(Seq(ToSet(file)) \X Seq(ToSet(file))) /\ Len(entries) < lineno
  /\ line_ret \in {"running", "non_utf8", "non_key_value", "eof"}

LEMMA LineStart == LineInit => LineInv
<1> SUFFICES ASSUME LineInit PROVE LineInv
  OBVIOUS
<1>1. file \in Files /\ rest = file /\ lineno = 1 /\ entries = <<>> /\ line_ret = "running"
  BY DEF LineInit
<1>2. file \in Seq(ToSet(file)) /\ Len(file) \in Nat
  BY <1>1, FilesAssumption DEF FilesAssumption
<1>3. From(file, 0) = file
  <2>1. SubSeq(file, 1, Len(file)) = file /\ 0 + 1 = 1
    BY <1>2, SubSeqFull
  <2> QED
    BY <2>1 DEF From
<1>4. LinesCounted
  BY <1>1, <1>2, <1>3 DEF LinesCounted
<1>5. entries \in Seq(Seq(ToSet(file)) \X Seq(ToSet(file))) /\ Len(entries) = 0
  BY <1>1, EmptySeq
<1> QED
  BY <1>1, <1>4, <1>5 DEF LineInv

LEMMA LineIsString ==
  ASSUME LineInv, Read
  PROVE  /\ line \in Seq(ToSet(file))
         /\ EQ \in ToSet(line) => <<Parameter(line), Value(line)>> \in Seq(ToSet(file)) \X Seq(ToSet(file))
<1> DEFINE T == ToSet(file)
<1>1. PICK k \in 0 .. Len(file) : rest = From(file, k)
  BY DEF LineInv, LinesCounted
<1>2. Piece(rest) \in Seq(T)
  BY <1>1, ReadOn DEF LineInv
<1> HIDE DEF T
<1>3. line \in Seq(T)
  BY <1>2, PartsAreStrings DEF line
<1>4. ASSUME EQ \in ToSet(line) PROVE Parameter(line) \in Seq(T) /\ Value(line) \in Seq(T)
  <2> HIDE DEF line
  <2>1. PICK b \in 0 .. Len(line) :
          Before(line, EQ) = SubSeq(line, 1, b) /\ (\A i \in 1 .. b : line[i] # EQ)
    BY <1>3, BeforeIs
  <2>2. b # Len(line) /\ Len(line) \in Nat
    <3>1. DOMAIN line = 1 .. Len(line) /\ Len(line) \in Nat
      BY <1>3, LenProperties
    <3>2. PICK i \in 1 .. Len(line) : line[i] = EQ
      BY <1>4, <3>1 DEF ToSet
    <3> QED
      BY <2>1, <3>1, <3>2
  <2>3. Len(Before(line, EQ)) = b
    <3>1. 1 \in 1 .. Len(line) + 1 /\ b \in 0 .. Len(line) /\ 1 <= b + 1 /\ b - 1 + 1 = b
      BY <2>2
    <3>2. Len(SubSeq(line, 1, b)) = b - 1 + 1
      BY <1>3, <3>1, Part
    <3> QED
      BY <2>1, <3>1, <3>2
  <2>4. b + 1 \in 0 .. Len(line)
    BY <2>2
  <2>5. From(line, Len(Before(line, EQ)) + 1) \in Seq(T)
    BY <1>3, <2>3, <2>4, PartsAreStrings
  <2>6. Before(line, EQ) \in Seq(T)
    BY <1>3, PartsAreStrings
  <2> QED
    BY <2>5, <2>6, PartsAreStrings DEF Parameter, Value
<1> QED
  BY <1>3, <1>4 DEF T

LEMMA LineStep == LineInv /\ [LineNext]_line_vars => LineInv'
<1> SUFFICES ASSUME LineInv, [LineNext]_line_vars PROVE LineInv'
  OBVIOUS
<1> DEFINE E == Seq(ToSet(file)) \X Seq(ToSet(file))
<1>1. PICK k \in 0 .. Len(file) : rest = From(file, k) /\ lineno <= k + 1
  BY DEF LineInv, LinesCounted
<1>2. file \in Files /\ lineno \in Nat \ {0} /\ Len(file) \in Nat
      /\ entries \in Seq(E) /\ Len(entries) < lineno /\ Len(entries) \in Nat
  <2>1. file \in Files
    BY DEF LineInv
  <2> QED
    BY <2>1, RestIs, <1>1 DEF LineInv
<1>3. ASSUME Read, file' = file, lineno' \in {lineno, lineno + 1} PROVE LinesCounted'
  <2>1. PICK m \in 1 .. Len(file) - k : rest' = From(file, k + m)
    BY <1>1, <1>2, <1>3, ReadOn
  <2>2. k + m \in 0 .. Len(file) /\ lineno' <= (k + m) + 1
    BY <1>1, <1>2, <1>3, <2>1
  <2> QED
    BY <1>3, <2>1, <2>2 DEF LinesCounted
<1>4. CASE Skip
  <2>1. Read /\ lineno' = lineno + 1 /\ UNCHANGED <<file, entries, line_ret>>
    BY <1>4 DEF Skip
  <2> QED
    BY <1>2, <1>3, <2>1 DEF LineInv
<1>5. CASE NonUtf8 \/ NonKeyValue
  <2>1. /\ Read /\ lineno' = lineno /\ UNCHANGED <<file, entries>>
        /\ line_ret' \in {"non_utf8", "non_key_value"}
    BY <1>5 DEF NonUtf8, NonKeyValue
  <2> QED
    BY <1>2, <1>3, <2>1 DEF LineInv
<1>6. CASE KeyValue
  <2>1. Read /\ lineno' = lineno + 1 /\ UNCHANGED <<file, line_ret>> /\ EQ \in ToSet(line)
        /\ entries' = Append(entries, <<Parameter(line), Value(line)>>)
    BY <1>6 DEF KeyValue
  <2>2. <<Parameter(line), Value(line)>> \in E
    BY <2>1, LineIsString
  <2>3. entries' \in Seq(E) /\ Len(entries') = Len(entries) + 1
    <3> HIDE DEF E
    <3> QED
      BY <1>2, <2>1, <2>2, AppendProperties
  <2> QED
    BY <1>2, <1>3, <2>1, <2>3 DEF LineInv
<1>7. CASE EndOfFile
  BY <1>7 DEF EndOfFile, LineInv, LinesCounted
<1>8. CASE LineStopped \/ UNCHANGED line_vars
  BY <1>8 DEF LineStopped, line_vars, LineInv, LinesCounted
<1> QED
  BY <1>4, <1>5, <1>6, <1>7, <1>8 DEF LineNext

LEMMA LineInvariant == LineSpec => []LineInv
  BY LineStart, LineStep, PTL DEF LineSpec

(* The type invariant of the loop over the lines: what is left is the end  *)
(* of the file, and there are fewer entries than lines and no more lines   *)
(* than characters.                                                        *)
THEOREM LineTypeCorrect == LineSpec => []LineTypeOK
<1>1. LineInv => LineTypeOK
  <2> SUFFICES ASSUME LineInv PROVE LineTypeOK
    OBVIOUS
  <2>1. PICK k \in 0 .. Len(file) : rest = From(file, k) /\ lineno <= k + 1
    BY DEF LineInv, LinesCounted
  <2>2. Len(file) \in Nat
    BY <2>1, RestIs DEF LineInv
  <2>3. lineno \in 1 .. Len(file) + 1
    BY <2>1, <2>2 DEF LineInv
  <2> QED
    BY <2>1, <2>3 DEF LineInv, LineTypeOK
<1> QED
  BY LineInvariant, <1>1, PTL

-----------------------------------------------------------------------------
(* A line and what is left of it when it is trimmed: its characters from   *)
(* the u-th to the v-th.                                                   *)
Trims(t, s, u, v) ==
  /\ u \in 1 .. Len(s) + 1 /\ v \in 0 .. Len(s) /\ u <= v + 1 /\ t = SubSeq(s, u, v)
  /\ \A i \in 1 .. Len(s) : i < u \/ i > v => s[i] = SP
  /\ u <= v => s[u] # SP /\ s[v] # SP

LEMMA TrimmedIs ==
  ASSUME NEW T, NEW s \in Seq(T), NEW t, NEW u, NEW v, Trims(t, s, u, v)
  PROVE  /\ t \in Seq(T) /\ Len(t) = v - u + 1 /\ Len(s) \in Nat
         /\ \A i \in 1 .. v - u + 1 : t[i] = s[u + i - 1]
         /\ \A j \in u .. v : j - u + 1 \in 1 .. v - u + 1 /\ t[j - u + 1] = s[j]
<1>1. u \in 1 .. Len(s) + 1 /\ v \in 0 .. Len(s) /\ u <= v + 1 /\ t = SubSeq(s, u, v) /\ Len(s) \in Nat
  BY DEF Trims
<1>2. t \in Seq(T) /\ Len(t) = v - u + 1 /\ \A i \in 1 .. v - u + 1 : t[i] = s[u + i - 1]
  BY <1>1, Part
<1>3. \A j \in u .. v : j - u + 1 \in 1 .. v - u + 1 /\ u + (j - u + 1) - 1 = j
  BY <1>1
<1>4. \A j \in u .. v : t[j - u + 1] = s[j]
  BY <1>2, <1>3
<1> QED
  BY <1>1, <1>2, <1>3, <1>4

LEMMA Spacing ==
  ASSUME NEW T, NEW s \in Seq(T), NEW i \in 1 .. Len(s) + 1, NEW j \in 0 .. Len(s), i <= j + 1
  PROVE  Spaces(SubSeq(s, i, j)) <=> \A d \in i .. j : s[d] = SP
<1> DEFINE t == SubSeq(s, i, j)
<1>1. t \in Seq(T) /\ Len(t) = j - i + 1 /\ \A k \in 1 .. j - i + 1 : t[k] = s[i + k - 1]
  BY Part
<1>2. /\ \A d \in i .. j : d - i + 1 \in 1 .. j - i + 1 /\ i + (d - i + 1) - 1 = d
      /\ \A k \in 1 .. j - i + 1 : i + k - 1 \in i .. j
  OBVIOUS
<1> HIDE DEF t
<1>3. DOMAIN t = 1 .. j - i + 1
  BY <1>1
<1>4. Spaces(t) <=> \A k \in 1 .. j - i + 1 : t[k] = SP
  BY <1>3 DEF Spaces, ToSet
<1>5. \A d \in i .. j : s[d] = t[d - i + 1]
  BY <1>1, <1>2
<1> QED
  BY <1>1, <1>2, <1>4, <1>5 DEF t

LEMMA Surrounded ==
  ASSUME NEW T, NEW s \in Seq(T), NEW t, NEW u, NEW v, Trims(t, s, u, v)
  PROVE  Within(t, s)
<1>1. /\ u \in 1 .. Len(s) + 1 /\ v \in 0 .. Len(s) /\ u <= v + 1 /\ t = SubSeq(s, u, v) /\ Len(s) \in Nat
      /\ \A i \in 1 .. Len(s) : i < u \/ i > v => s[i] = SP
      /\ u <= v => s[u] # SP /\ s[v] # SP
  BY DEF Trims
<1>2. t \in Seq(T) /\ Len(t) = v - u + 1 /\ \A i \in 1 .. v - u + 1 : t[i] = s[u + i - 1]
  BY TrimmedIs
<1> DEFINE k == u - 1
<1>3. k \in 0 .. Len(s) - Len(t) /\ k + 1 = u /\ k + Len(t) = v
  <2>1. u \in Int /\ v \in Int /\ Len(s) \in Nat /\ 1 <= u /\ v <= Len(s) /\ Len(t) = v - u + 1 /\ u <= v + 1
    BY <1>1, <1>2
  <2> HIDE DEF Trims
  <2> QED
    BY ONLY <2>1
<1>4. Spaces(SubSeq(s, 1, k))
  <2>1. 1 \in 1 .. Len(s) + 1 /\ k \in 0 .. Len(s) /\ 1 <= k + 1 /\ \A d \in 1 .. k : d \in 1 .. Len(s) /\ d < u
    BY <1>1
  <2> HIDE DEF k
  <2> QED
    BY <1>1, <2>1, Spacing
<1>5. Spaces(SubSeq(s, v + 1, Len(s)))
  <2> DEFINE x == v + 1
  <2>1. x \in 1 .. Len(s) + 1 /\ Len(s) \in 0 .. Len(s) /\ x <= Len(s) + 1 /\ \A d \in x .. Len(s) : d \in 1 .. Len(s) /\ d > v
    BY <1>1
  <2> HIDE DEF x
  <2>2. Spaces(SubSeq(s, x, Len(s)))
    BY <1>1, <2>1, Spacing
  <2> QED
    BY <2>2 DEF x
<1>6. t # <<>> => SP \notin {Head(t), Last(t)}
  <2> SUFFICES ASSUME t # <<>> PROVE SP \notin {Head(t), Last(t)}
    OBVIOUS
  <2>1. Len(t) # 0
    BY <1>2, EmptySeq
  <2>2. u <= v /\ 1 \in 1 .. v - u + 1 /\ v - u + 1 \in 1 .. v - u + 1 /\ u + 1 - 1 = u /\ u + (v - u + 1) - 1 = v
    BY <1>1, <1>2, <2>1
  <2>3. t[1] = s[u] /\ t[v - u + 1] = s[v]
    BY <1>2, <2>2
  <2>4. Head(t) = t[1] /\ Last(t) = t[v - u + 1]
    BY <1>2, <2>1 DEF Last
  <2> QED
    BY <1>1, <2>2, <2>3, <2>4
<1> HIDE DEF k
<1> QED
  BY <1>1, <1>3, <1>4, <1>5, <1>6 DEF Within, From

(* What C sees of a line that fits, behind which there may be a newline.   *)
LEMMA LineTrims ==
  ASSUME file \in Files, NEW T, NEW s \in Seq(T), NEW piece \in Seq(T), NUL \notin ToSet(piece),
         Len(piece) \in {Len(s), Len(s) + 1}, Len(piece) # Len(s) => piece[Len(s) + 1] = NL,
         \A i \in 1 .. Len(s) : piece[i] = s[i] /\ s[i] # NL
  PROVE  \E u, v : Trims(str_rtrim(str_ltrim(Before(piece, NUL), LTRIM_CHARS), RTRIM_CHARS), s, u, v)
<1>1. Len(s) \in Nat /\ Len(piece) \in Nat /\ NL # SP
  <2>1. NL # SP
    BY FilesAssumption DEF FilesAssumption
  <2>2. Len(s) \in Nat /\ Len(piece) \in Nat
    BY LenProperties
  <2> QED
    BY ONLY <2>1, <2>2
<1>0. /\ Len(piece) = Len(s) \/ Len(piece) = Len(s) + 1
      /\ Len(piece) # Len(s) => piece[Len(s) + 1] = NL
  OBVIOUS
<1>2. Before(piece, NUL) = piece
  <2>1. PICK b \in 0 .. Len(piece) : Before(piece, NUL) = SubSeq(piece, 1, b) /\ (b = Len(piece) \/ piece[b + 1] = NUL)
    BY BeforeIs
  <2>2. \A i \in 1 .. Len(piece) : piece[i] # NUL
    <3>1. DOMAIN piece = 1 .. Len(piece)
      BY LenProperties
    <3> QED
      BY <3>1 DEF ToSet
  <2>3. b = Len(piece)
    BY ONLY <1>1, <2>1, <2>2
  <2> QED
    BY <2>1, <2>3, SubSeqFull
<1>3. PICK u \in 1 .. Len(piece) + 1 :
        /\ str_ltrim(piece, LTRIM_CHARS) = SubSeq(piece, u, Len(piece))
        /\ u = Len(piece) + 1 \/ piece[u] # SP
        /\ \A i \in 1 .. u - 1 : piece[i] = SP
  <2>1. PICK u \in 1 .. Len(piece) + 1 :
        /\ str_ltrim(piece, LTRIM_CHARS) = SubSeq(piece, u, Len(piece))
        /\ u = Len(piece) + 1 \/ piece[u] \notin LTRIM_CHARS
        /\ \A i \in 1 .. u - 1 : piece[i] \in LTRIM_CHARS
    BY LTrimIs
  <2> QED
    BY <2>1 DEF LTRIM_CHARS
<1> DEFINE x == SubSeq(piece, u, Len(piece))
<1>4. /\ x \in Seq(T) /\ Len(x) = Len(piece) - u + 1
      /\ \A i \in 1 .. Len(piece) - u + 1 : x[i] = piece[u + i - 1]
  <2>1. Len(piece) \in 0 .. Len(piece) /\ u <= Len(piece) + 1
    BY ONLY <1>1, <1>3
  <2> QED
    BY <2>1, Part
<1> HIDE DEF x
<1>5. PICK b \in 0 .. Len(x) :
        /\ str_rtrim(x, RTRIM_CHARS) = SubSeq(x, 1, b)
        /\ b = 0 \/ x[b] \notin {SP, NL}
        /\ \A i \in b + 1 .. Len(x) : x[i] \in {SP, NL}
  <2>1. PICK b \in 0 .. Len(x) :
        /\ str_rtrim(x, RTRIM_CHARS) = SubSeq(x, 1, b)
        /\ b = 0 \/ x[b] \notin RTRIM_CHARS
        /\ \A i \in b + 1 .. Len(x) : x[i] \in RTRIM_CHARS
    BY <1>4, RTrimIs
  <2> QED
    BY <2>1 DEF RTRIM_CHARS
<1> DEFINE v == u + b - 1
<1>6. u \in 1 .. Len(s) + 1
  <2> SUFFICES ASSUME u = Len(s) + 2 PROVE FALSE
    BY ONLY <1>0, <1>1, <1>3
  <2>1. Len(s) + 1 \in 1 .. u - 1 /\ piece[Len(s) + 1] = NL
    BY ONLY <1>0, <1>1, <1>3, u = Len(s) + 2
  <2> QED
    BY <1>1, <1>3, <2>1
<1>7. b # 0 => v \in u .. Len(piece) /\ x[b] = piece[v]
  BY ONLY <1>1, <1>3, <1>4, <1>5
<1>8. v \in 0 .. Len(s) /\ u <= v + 1
  <2>1. v # Len(s) + 1
    <3> SUFFICES ASSUME v = Len(s) + 1 PROVE FALSE
      OBVIOUS
    <3>1. b # 0 /\ v \in u .. Len(piece) /\ piece[v] = NL
      BY ONLY <1>0, <1>1, <1>5, <1>6, <1>7, v = Len(s) + 1
    <3> QED
      BY <1>5, <1>7, <3>1
  <2> QED
    BY ONLY <1>0, <1>1, <1>4, <1>5, <1>6, <1>7, <2>1
<1>9. SubSeq(x, 1, b) = SubSeq(s, u, v)
  <2> DEFINE y == SubSeq(x, 1, b)
             z == SubSeq(s, u, v)
  <2>1. y \in Seq(T) /\ Len(y) = b /\ \A i \in 1 .. b : y[i] = x[i]
    <3>1. 1 \in 1 .. Len(x) + 1 /\ b \in 0 .. Len(x) /\ 1 <= b + 1 /\ b - 1 + 1 = b /\ \A i \in 1 .. b : 1 + i - 1 = i
      BY <1>4
    <3>2. y \in Seq(T) /\ Len(y) = b - 1 + 1 /\ \A i \in 1 .. b - 1 + 1 : y[i] = x[1 + i - 1]
      BY <1>4, <3>1, Part
    <3> HIDE DEF y
    <3> QED
      BY <3>1, <3>2
  <2>2. v - u + 1 = b
    BY <1>4
  <2> HIDE DEF v
  <2>3. z \in Seq(T) /\ Len(z) = b /\ \A i \in 1 .. b : z[i] = s[u + i - 1]
    <3>1. z \in Seq(T) /\ Len(z) = v - u + 1 /\ \A i \in 1 .. v - u + 1 : z[i] = s[u + i - 1]
      BY <1>6, <1>8, Part
    <3> HIDE DEF z
    <3> QED
      BY <2>2, <3>1
  <2> HIDE DEF y, z
  <2>4. ASSUME NEW i \in 1 .. b PROVE y[i] = z[i]
    <3>1. i \in 1 .. Len(piece) - u + 1 /\ u + i - 1 \in 1 .. Len(s)
      <4>1. i <= Len(piece) - u + 1
        BY ONLY <1>1, <1>4, <1>5, <1>6
      <4>2. u + i - 1 <= v
        BY ONLY <1>1, <1>4, <1>5, <1>6, <1>8, <2>2
      <4>3. u \in Nat \ {0} /\ i \in Nat \ {0} /\ v \in 0 .. Len(s)
        BY ONLY <1>3, <1>8
      <4> QED
        BY ONLY <4>1, <4>2, <4>3
    <3> QED
      BY <1>4, <2>1, <2>3, <3>1
  <2>5. y = [i \in 1 .. b |-> y[i]] /\ z = [i \in 1 .. b |-> z[i]]
    BY <2>1, <2>3
  <2>6. y = z
    BY <2>4, <2>5
  <2> QED
    BY <2>6 DEF y, z
<1>10. ASSUME NEW i \in 1 .. Len(s), i < u \/ i > v PROVE s[i] = SP
  <2>1. CASE i < u
    <3>1. i \in 1 .. u - 1
      BY <2>1
    <3> QED
      BY <1>3, <3>1
  <2>2. CASE i > v
    <3>1. i - u + 1 \in b + 1 .. Len(x) /\ u + (i - u + 1) - 1 = i
      BY ONLY <1>0, <1>1, <1>4, <1>5, <1>6, <2>2, i \in 1 .. Len(s)
    <3>2. x[i - u + 1] = piece[i]
      BY <1>4, <3>1
    <3> QED
      BY <1>5, <3>1, <3>2
  <2> QED
    BY <1>10, <2>1, <2>2
<1>11. ASSUME u <= v PROVE s[u] # SP /\ s[v] # SP
  <2>1. u \in 1 .. Len(s) /\ v \in 1 .. Len(s) /\ b # 0 /\ u # Len(piece) + 1
    BY ONLY <1>0, <1>1, <1>4, <1>5, <1>6, <1>8, <1>11
  <2> QED
    BY <1>3, <1>5, <1>7, <2>1
<1>12. str_rtrim(str_ltrim(Before(piece, NUL), LTRIM_CHARS), RTRIM_CHARS) = SubSeq(s, u, v)
  BY <1>2, <1>3, <1>5, <1>9 DEF x
<1> HIDE DEF v
<1>13. Trims(SubSeq(s, u, v), s, u, v)
  BY <1>6, <1>8, <1>10, <1>11 DEF Trims
<1> QED
  BY <1>12, <1>13

-----------------------------------------------------------------------------
(* What is left of a line tells as much about it as the line.              *)
LEMMA Members ==
  ASSUME NEW T, NEW s \in Seq(T), NEW d
  PROVE  d \in ToSet(s) <=> \E i \in 1 .. Len(s) : s[i] = d
<1>1. DOMAIN s = 1 .. Len(s)
  BY LenProperties
<1> QED
  BY <1>1 DEF ToSet

LEMMA BlankLines ==
  ASSUME file \in Files, NEW T, NEW s \in Seq(T), NEW t, NEW u, NEW v, Trims(t, s, u, v)
  PROVE  Blank(t) <=> Blanks(s)
<1>1. /\ u \in 1 .. Len(s) + 1 /\ v \in 0 .. Len(s) /\ u <= v + 1
      /\ \A i \in 1 .. Len(s) : i < u \/ i > v => s[i] = SP
      /\ u <= v => s[u] # SP /\ s[v] # SP
  BY DEF Trims
<1>2. /\ t \in Seq(T) /\ Len(t) = v - u + 1 /\ Len(s) \in Nat
      /\ \A i \in 1 .. v - u + 1 : t[i] = s[u + i - 1]
  BY TrimmedIs
<1>3. HASH # SP
  BY FilesAssumption DEF FilesAssumption
<1>4. Blank(t) <=> (u <= v => s[u] = HASH)
  <2>1. DOMAIN t = 1 .. Len(t)
    BY <1>2, LenProperties
  <2>2. Blank(t) <=> \A i \in 1 .. Len(t) : i = 1 => t[i] = HASH
    BY <2>1 DEF Blank
  <2>3. u <= v => 1 \in 1 .. v - u + 1 /\ u + 1 - 1 = u
    BY <1>1
  <2>4. u <= v => t[1] = s[u]
    BY <1>2, <2>3
  <2>5. \A i \in 1 .. v - u + 1 : u <= v
    BY <1>1
  <2> QED
    BY <1>2, <2>2, <2>3, <2>4, <2>5
<1>5. Spaces(s) <=> \A d \in 1 .. Len(s) : s[d] = SP
  <2>1. DOMAIN s = 1 .. Len(s)
    BY LenProperties
  <2> QED
    BY <2>1 DEF Spaces, ToSet
<1>6. \A i \in 1 .. Len(s) : Spaces(SubSeq(s, 1, i - 1)) <=> \A d \in 1 .. i - 1 : s[d] = SP
  <2> TAKE i \in 1 .. Len(s)
  <2> DEFINE j == i - 1
  <2>1. 1 \in 1 .. Len(s) + 1 /\ j \in 0 .. Len(s) /\ 1 <= j + 1
    BY <1>2
  <2> HIDE DEF j
  <2>2. Spaces(SubSeq(s, 1, j)) <=> \A d \in 1 .. j : s[d] = SP
    BY <2>1, Spacing
  <2> QED
    BY <2>2 DEF j
<1>7. Blanks(s) <=> \/ \A d \in 1 .. Len(s) : s[d] = SP
                    \/ \E i \in 1 .. Len(s) : s[i] = HASH /\ \A d \in 1 .. i - 1 : s[d] = SP
  <2>1. DOMAIN s = 1 .. Len(s)
    BY LenProperties
  <2>2. Blanks(s) <=> \/ Spaces(s)
                      \/ \E i \in 1 .. Len(s) : s[i] = HASH /\ Spaces(SubSeq(s, 1, i - 1))
    BY <2>1 DEF Blanks
  <2> QED
    BY <1>5, <1>6, <2>2
<1>8. CASE u > v
  <2>1. \A d \in 1 .. Len(s) : d < u \/ d > v
    BY <1>1, <1>8
  <2> QED
    BY <1>1, <1>4, <1>7, <1>8, <2>1
<1>9. CASE u <= v
  <2>1. u \in 1 .. Len(s) /\ \A d \in 1 .. u - 1 : d \in 1 .. Len(s) /\ d < u
    BY <1>1, <1>9
  <2>2. ASSUME s[u] = HASH PROVE Blanks(s)
    BY <1>1, <1>7, <2>1, <2>2
  <2>3. ASSUME NEW i \in 1 .. Len(s), s[i] = HASH, \A d \in 1 .. i - 1 : s[d] = SP
        PROVE  s[u] = HASH
    <3>1. ~(i < u)
      BY <1>1, <1>3, <2>3
    <3>2. ~(u < i)
      <4>1. u < i => u \in 1 .. i - 1
        BY <2>1
      <4> QED
        BY <1>1, <1>9, <2>3, <4>1
    <3>3. u = i
      BY <1>1, <3>1, <3>2
    <3> QED
      BY <2>3, <3>3
  <2> QED
    BY <1>1, <1>4, <1>7, <1>9, <2>1, <2>2, <2>3
<1> QED
  BY <1>1, <1>2, <1>8, <1>9

LEMMA Utf8Lines ==
  ASSUME file \in Files, NEW T, NEW s \in Seq(T), NEW t, NEW u, NEW v, Trims(t, s, u, v), IsUtf8(s)
  PROVE  IsUtf8(t)
<1>1. /\ u \in 1 .. Len(s) + 1 /\ v \in 0 .. Len(s) /\ u <= v + 1
      /\ \A i \in 1 .. Len(s) : i < u \/ i > v => s[i] = SP
  BY DEF Trims
<1>2. /\ t \in Seq(T) /\ Len(t) = v - u + 1 /\ Len(s) \in Nat
      /\ \A i \in 1 .. v - u + 1 : t[i] = s[u + i - 1]
  BY TrimmedIs
<1>3. LEAD # SP /\ CONT # SP
  BY FilesAssumption DEF FilesAssumption
<1>4. \A j \in 1 .. Len(s) :
        /\ s[j] = LEAD => j < Len(s) /\ s[j + 1] = CONT
        /\ s[j] = CONT => j > 1 /\ s[j - 1] = LEAD
  <2>1. DOMAIN s = 1 .. Len(s)
    BY LenProperties
  <2> QED
    BY <2>1 DEF IsUtf8
<1>5. ASSUME NEW i \in 1 .. v - u + 1
      PROVE  /\ t[i] = LEAD => i < Len(t) /\ t[i + 1] = CONT
             /\ t[i] = CONT => i > 1 /\ t[i - 1] = LEAD
  <2> DEFINE j == u + i - 1
  <2>1. j \in 1 .. Len(s) /\ u <= j /\ j <= v
    BY <1>1
  <2>2. t[i] = s[j]
    BY <1>2
  <2>3. i + 1 \in 1 .. v - u + 1 <=> j + 1 <= v
    BY <1>1
  <2>4. i - 1 \in 1 .. v - u + 1 <=> j - 1 >= u
    BY <1>1
  <2>5. u + (i + 1) - 1 = j + 1 /\ u + (i - 1) - 1 = j - 1
    BY <1>1
  <2>6. ASSUME t[i] = LEAD PROVE i < Len(t) /\ t[i + 1] = CONT
    <3>1. j < Len(s) /\ s[j + 1] = CONT
      BY <1>4, <2>1, <2>2, <2>6
    <3>2. j + 1 \in 1 .. Len(s) /\ ~(j + 1 > v)
      BY <1>1, <1>3, <2>1, <3>1
    <3>3. i + 1 \in 1 .. v - u + 1
      BY <1>1, <2>1, <2>3, <3>2
    <3>4. t[i + 1] = s[j + 1]
      BY <1>2, <2>5, <3>3
    <3> QED
      BY <1>2, <3>1, <3>3, <3>4
  <2>7. ASSUME t[i] = CONT PROVE i > 1 /\ t[i - 1] = LEAD
    <3>1. j > 1 /\ s[j - 1] = LEAD
      BY <1>4, <2>1, <2>2, <2>7
    <3>2. j - 1 \in 1 .. Len(s) /\ ~(j - 1 < u)
      BY <1>1, <1>3, <2>1, <3>1
    <3>3. i - 1 \in 1 .. v - u + 1
      BY <1>1, <2>1, <2>4, <3>2
    <3>4. t[i - 1] = s[j - 1]
      BY <1>2, <2>5, <3>3
    <3> QED
      BY <3>1, <3>3, <3>4
  <2> QED
    BY <2>6, <2>7
<1>6. DOMAIN t = 1 .. v - u + 1
  BY <1>2, LenProperties
<1> QED
  BY <1>5, <1>6 DEF IsUtf8

LEMMA KeyLines ==
  ASSUME file \in Files, NEW T, NEW s \in Seq(T), NEW t, NEW u, NEW v, Trims(t, s, u, v)
  PROVE  EQ \in ToSet(t) <=> EQ \in ToSet(s)
<1>1. /\ u \in 1 .. Len(s) + 1 /\ v \in 0 .. Len(s) /\ u <= v + 1
      /\ \A i \in 1 .. Len(s) : i < u \/ i > v => s[i] = SP
  BY DEF Trims
<1>2. /\ t \in Seq(T) /\ Len(t) = v - u + 1 /\ Len(s) \in Nat
      /\ \A i \in 1 .. v - u + 1 : t[i] = s[u + i - 1]
      /\ \A j \in u .. v : j - u + 1 \in 1 .. v - u + 1 /\ t[j - u + 1] = s[j]
  BY TrimmedIs
<1>3. EQ # SP
  BY FilesAssumption DEF FilesAssumption
<1>4. /\ EQ \in ToSet(t) <=> \E i \in 1 .. v - u + 1 : t[i] = EQ
      /\ EQ \in ToSet(s) <=> \E i \in 1 .. Len(s) : s[i] = EQ
  BY <1>2, Members
<1>5. \A i \in 1 .. v - u + 1 : u + i - 1 \in 1 .. Len(s)
  BY <1>1
<1>6. \A j \in 1 .. Len(s) : j \in u .. v \/ j < u \/ j > v
  BY <1>1
<1>7. (\E i \in 1 .. v - u + 1 : t[i] = EQ) => \E i \in 1 .. Len(s) : s[i] = EQ
  BY <1>2, <1>5
<1>8. ASSUME NEW j \in 1 .. Len(s), s[j] = EQ PROVE \E i \in 1 .. v - u + 1 : t[i] = EQ
  <2>1. j \in u .. v
    BY <1>1, <1>3, <1>6, <1>8
  <2> QED
    BY <1>2, <1>8, <2>1
<1> QED
  BY <1>4, <1>7, <1>8

(* A part of a part of a line is a part of the line: q is s from i on.     *)
LEMMA SameCut ==
  ASSUME NEW T, NEW s \in Seq(T), NEW q \in Seq(T), NEW i \in Int,
         NEW u \in 1 .. Len(q) + 1, NEW v \in 0 .. Len(q), u <= v + 1,
         i + u \in 1 .. Len(s) + 1, i + v \in 0 .. Len(s),
         \A d \in u .. v : q[d] = s[i + d]
  PROVE  SubSeq(q, u, v) = SubSeq(s, i + u, i + v)
<1> DEFINE y == SubSeq(q, u, v)
           j == i + u
           k == i + v
           z == SubSeq(s, j, k)
<1>1. y \in Seq(T) /\ Len(y) = v - u + 1 /\ \A d \in 1 .. v - u + 1 : y[d] = q[u + d - 1]
  BY Part
<1>2. j \in 1 .. Len(s) + 1 /\ k \in 0 .. Len(s) /\ j <= k + 1 /\ k - j + 1 = v - u + 1
  OBVIOUS
<1>3. \A d \in 1 .. v - u + 1 : u + d - 1 \in u .. v /\ i + (u + d - 1) = j + d - 1
  OBVIOUS
<1> HIDE DEF j, k
<1>4. z \in Seq(T) /\ Len(z) = k - j + 1 /\ \A d \in 1 .. k - j + 1 : z[d] = s[j + d - 1]
  BY ONLY s \in Seq(T), <1>2, Part
<1> HIDE DEF y, z
<1>5. \A d \in 1 .. Len(y) : y[d] = z[d]
  <2>1. \A d \in 1 .. v - u + 1 : z[d] = s[j + d - 1]
    BY <1>2, <1>4
  <2>2. \A d \in 1 .. v - u + 1 : q[u + d - 1] = s[j + d - 1]
    BY <1>3
  <2> QED
    BY <1>1, <2>1, <2>2
<1>6. y = z
  BY <1>1, <1>2, <1>4, <1>5, SeqEqual
<1> QED
  BY <1>6 DEF y, z, j, k

LEMMA EntryLines ==
  ASSUME file \in Files, NEW T, NEW s \in Seq(T), \A i \in 1 .. Len(s) : s[i] # NL,
         NEW t, NEW u, NEW v, Trims(t, s, u, v), EQ \in ToSet(t)
  PROVE  Says(s, Parameter(t), Value(t))
<1>1. /\ u \in 1 .. Len(s) + 1 /\ v \in 0 .. Len(s) /\ u <= v + 1
      /\ \A i \in 1 .. Len(s) : i < u \/ i > v => s[i] = SP
      /\ u <= v => s[u] # SP /\ s[v] # SP
  BY DEF Trims
<1>2. /\ t \in Seq(T) /\ Len(t) = v - u + 1 /\ Len(s) \in Nat
      /\ \A i \in 1 .. v - u + 1 : t[i] = s[u + i - 1]
      /\ \A j \in u .. v : j - u + 1 \in 1 .. v - u + 1 /\ t[j - u + 1] = s[j]
  BY TrimmedIs
<1>3. EQ # SP
  BY FilesAssumption DEF FilesAssumption
<1>4. PICK b \in 0 .. Len(t) :
        /\ Before(t, EQ) = SubSeq(t, 1, b)
        /\ \A i \in 1 .. b : t[i] # EQ
        /\ b = Len(t) \/ t[b + 1] = EQ
  BY <1>2, BeforeIs
<1>5. b < v - u + 1 /\ t[b + 1] = EQ
  <2>1. PICK i \in 1 .. Len(t) : t[i] = EQ
    BY <1>2, Members
  <2>2. b # Len(t)
    BY <1>4, <2>1
  <2> QED
    BY <1>2, <1>4, <2>2
<1> DEFINE i == u + b
<1>6. i \in 1 .. Len(s) /\ u <= i /\ i <= v /\ u <= v /\ s[i] = EQ
  <2>1. b + 1 \in 1 .. v - u + 1 /\ u + (b + 1) - 1 = i
    BY <1>1, <1>2, <1>4, <1>5
  <2>2. i \in 1 .. Len(s) /\ u <= i /\ i <= v /\ u <= v
    BY <1>1, <1>2, <1>4, <1>5
  <2> QED
    BY <1>2, <1>5, <2>1, <2>2
<1>7. \A j \in 1 .. i - 1 : s[j] # EQ
  <2> SUFFICES ASSUME NEW j \in 1 .. i - 1 PROVE s[j] # EQ
    OBVIOUS
  <2>1. CASE j < u
    BY <1>1, <1>3, <1>6, <2>1
  <2>2. CASE u <= j
    <3>1. j \in u .. v /\ j - u + 1 \in 1 .. b
      BY <1>1, <1>4, <1>6, <2>2
    <3> QED
      BY <1>2, <1>4, <3>1
  <2> QED
    BY <1>1, <2>1, <2>2
<1> DEFINE h == i - 1
           P == SubSeq(s, 1, h)
<1>8. /\ P \in Seq(T) /\ Len(P) = h /\ \A d \in 1 .. h : P[d] = s[d]
  <2>1. h \in 0 .. Len(s) /\ 1 \in 1 .. Len(s) + 1 /\ 1 <= h + 1 /\ h - 1 + 1 = h
        /\ \A d \in 1 .. h : 1 + d - 1 = d
    BY <1>1, <1>6
  <2> HIDE DEF h
  <2>2. P \in Seq(T) /\ Len(P) = h - 1 + 1 /\ \A d \in 1 .. h - 1 + 1 : P[d] = s[1 + d - 1]
    BY <2>1, Part
  <2> HIDE DEF P
  <2> QED
    BY <2>1, <2>2
<1>9. EQ \notin ToSet(P)
  <2>1. \A d \in 1 .. Len(P) : P[d] # EQ
    BY <1>7, <1>8
  <2> QED
    BY <1>8, <2>1, Members
<1> DEFINE q == SubSeq(t, 1, b)
<1>10. q \in Seq(T) /\ Len(q) = b /\ \A d \in 1 .. b : q[d] = t[d] /\ q[d] = s[u + d - 1]
  <2>1. b \in 0 .. Len(t) /\ 1 \in 1 .. Len(t) + 1 /\ 1 <= b + 1 /\ b - 1 + 1 = b
        /\ \A d \in 1 .. b : 1 + d - 1 = d /\ d \in 1 .. v - u + 1
    BY <1>1, <1>2, <1>4, <1>5
  <2>2. q \in Seq(T) /\ Len(q) = b - 1 + 1 /\ \A d \in 1 .. b - 1 + 1 : q[d] = t[1 + d - 1]
    BY <1>2, <2>1, Part
  <2> HIDE DEF q
  <2> QED
    BY <1>2, <2>1, <2>2
<1> HIDE DEF P, q
<1>11. PICK w \in 0 .. b :
         /\ Parameter(t) = SubSeq(q, 1, w)
         /\ w = 0 \/ q[w] \notin {SP, NL}
         /\ \A d \in w + 1 .. b : q[d] \in {SP, NL}
  <2>1. \E w \in 0 .. Len(q) :
         /\ str_rtrim(q, RTRIM_CHARS) = SubSeq(q, 1, w)
         /\ w = 0 \/ q[w] \notin RTRIM_CHARS
         /\ \A d \in w + 1 .. Len(q) : q[d] \in RTRIM_CHARS
    BY <1>10, RTrimIs
  <2>2. Parameter(t) = str_rtrim(q, RTRIM_CHARS)
    BY <1>4 DEF Parameter, q
  <2> QED
    BY <1>10, <2>1, <2>2 DEF RTRIM_CHARS
<1>12. Within(Parameter(t), P)
  <2> DEFINE x == u + w - 1
  <2>1. u \in 1 .. Len(P) + 1 /\ x \in 0 .. Len(P) /\ u <= x + 1
    BY <1>1, <1>4, <1>8
  <2>2. SubSeq(q, 1, w) = SubSeq(P, u, x)
    <3> DEFINE g == u - 1
    <3>1. g \in Int /\ g + 1 = u /\ g + w = x /\ 1 \in 1 .. Len(q) + 1 /\ w \in 0 .. Len(q) /\ 1 <= w + 1
      BY <1>1, <1>10
    <3>2. \A d \in 1 .. w : d \in 1 .. b /\ g + d = u + d - 1 /\ g + d \in 1 .. h
      BY <1>1, <1>4
    <3>3. \A d \in 1 .. w : q[d] = P[g + d]
      BY <1>8, <1>10, <3>2
    <3> HIDE DEF g, x, h, i
    <3>4. g + 1 \in 1 .. Len(P) + 1 /\ g + w \in 0 .. Len(P)
      BY <2>1, <3>1
    <3>5. SubSeq(q, 1, w) = SubSeq(P, g + 1, g + w)
      BY <1>8, <1>10, <3>1, <3>3, <3>4, SameCut
    <3> QED
      BY <3>1, <3>5
  <2>3. ASSUME NEW j \in 1 .. Len(P), j < u \/ j > x PROVE P[j] = SP
    <3>1. P[j] = s[j] /\ j \in 1 .. Len(s) /\ s[j] # NL
      BY <1>1, <1>6, <1>8
    <3>2. CASE j < u
      BY <1>1, <3>1, <3>2
    <3>3. CASE j > x
      <4>1. j - u + 1 \in w + 1 .. b /\ u + (j - u + 1) - 1 = j /\ j - u + 1 \in 1 .. b
        BY <1>1, <1>4, <1>8, <3>3
      <4> QED
        BY <1>10, <1>11, <3>1, <4>1
    <3> QED
      BY <2>3, <3>2, <3>3
  <2>4. ASSUME u <= x PROVE P[u] # SP /\ P[x] # SP
    <3>1. w \in 1 .. b /\ u \in 1 .. h /\ x \in 1 .. h
      BY <1>1, <1>4, <2>4
    <3>2. P[u] = s[u] /\ P[x] = s[x] /\ q[w] = s[x]
      BY <1>8, <1>10, <3>1
    <3> QED
      BY <1>1, <1>6, <1>11, <3>1, <3>2
  <2> HIDE DEF x
  <2>5. Trims(Parameter(t), P, u, x)
    BY <1>11, <2>1, <2>2, <2>3, <2>4 DEF Trims
  <2> QED
    BY <1>8, <2>5, Surrounded
<1> DEFINE r == From(t, b + 1)
           V == From(s, i)
<1>13. r \in Seq(T) /\ Len(r) = v - i /\ \A d \in 1 .. v - i : r[d] = s[i + d]
  <2> DEFINE x == b + 2
             y == Len(t)
  <2>1. x \in 1 .. Len(t) + 1 /\ y \in 0 .. Len(t) /\ x <= y + 1 /\ y - x + 1 = v - i /\ (b + 1) + 1 = x
        /\ \A d \in 1 .. v - i : x + d - 1 \in 1 .. v - u + 1 /\ u + (x + d - 1) - 1 = i + d
    BY <1>1, <1>2, <1>4, <1>5
  <2>2. r = SubSeq(t, x, y)
    BY <2>1 DEF From
  <2> HIDE DEF x, y, i, r
  <2>3. r \in Seq(T) /\ Len(r) = y - x + 1 /\ \A d \in 1 .. y - x + 1 : r[d] = t[x + d - 1]
    BY <1>2, <2>1, <2>2, Part
  <2> QED
    BY <1>2, <2>1, <2>3
<1>14. V \in Seq(T) /\ Len(V) = Len(s) - i /\ \A d \in 1 .. Len(s) - i : V[d] = s[i + d]
  <2> DEFINE x == i + 1
             y == Len(s)
  <2>0. Len(s) \in Nat /\ i \in 1 .. Len(s)
    BY <1>2, <1>6
  <2> HIDE DEF i
  <2>1. x \in 1 .. Len(s) + 1 /\ y \in 0 .. Len(s) /\ x <= y + 1 /\ y - x + 1 = Len(s) - i
        /\ \A d \in 1 .. Len(s) - i : x + d - 1 = i + d
    BY ONLY <2>0
  <2>2. V = SubSeq(s, x, y)
    BY DEF From
  <2> HIDE DEF x, y, i, V
  <2>3. V \in Seq(T) /\ Len(V) = y - x + 1 /\ \A d \in 1 .. y - x + 1 : V[d] = s[x + d - 1]
    BY ONLY s \in Seq(T), <2>1, <2>2, Part
  <2> QED
    BY <2>1, <2>3
<1> HIDE DEF r, V
<1>15. PICK x \in 1 .. Len(r) + 1 :
         /\ Value(t) = SubSeq(r, x, Len(r))
         /\ x = Len(r) + 1 \/ r[x] # SP
         /\ \A d \in 1 .. x - 1 : r[d] = SP
  <2>1. \E x \in 1 .. Len(r) + 1 :
         /\ str_ltrim(r, LTRIM_CHARS) = SubSeq(r, x, Len(r))
         /\ x = Len(r) + 1 \/ r[x] \notin LTRIM_CHARS
         /\ \A d \in 1 .. x - 1 : r[d] \in LTRIM_CHARS
    BY <1>13, LTrimIs
  <2>2. Value(t) = str_ltrim(r, LTRIM_CHARS)
    BY <1>4, <1>10 DEF Value, q, r
  <2> QED
    BY <2>1, <2>2 DEF LTRIM_CHARS
<1>16. Within(Value(t), V)
  <2> DEFINE y == v - i
  <2>1. y \in 0 .. Len(V) /\ x \in 1 .. Len(V) + 1 /\ x <= y + 1 /\ Len(r) = y /\ Len(V) \in Nat
    BY <1>1, <1>6, <1>13, <1>14, <1>15
  <2>2. SubSeq(r, x, y) = SubSeq(V, x, y)
    <3>1. \A d \in x .. y : d \in 1 .. v - i /\ d \in 1 .. Len(s) - i
      <4>1. y = v - i
        OBVIOUS
      <4> HIDE DEF y, i
      <4>2. Len(s) \in Nat
        BY ONLY <1>2
      <4>3. v \in Nat /\ v <= Len(s)
        BY ONLY <1>1, <4>2
      <4>4. i \in Nat
        BY ONLY <1>6
      <4>5. x \in Nat \ {0}
        BY ONLY <1>15
      <4> QED
        BY ONLY <4>1, <4>2, <4>3, <4>4, <4>5
    <3>2. \A d \in x .. y : r[d] = V[0 + d]
      BY <1>13, <1>14, <3>1
    <3> HIDE DEF y, i
    <3>3. /\ 0 \in Int /\ x \in 1 .. Len(r) + 1 /\ y \in 0 .. Len(r)
          /\ 0 + x \in 1 .. Len(V) + 1 /\ 0 + y \in 0 .. Len(V)
      BY <2>1
    <3>4. SubSeq(r, x, y) = SubSeq(V, 0 + x, 0 + y)
      BY <1>13, <1>14, <2>1, <3>2, <3>3, SameCut
    <3>5. 0 + x = x /\ 0 + y = y
      BY <2>1
    <3> QED
      BY <3>4, <3>5
  <2>3. ASSUME NEW j \in 1 .. Len(V), j < x \/ j > y PROVE V[j] = SP
    <3>1. V[j] = s[i + j] /\ i + j \in 1 .. Len(s)
      BY <1>6, <1>14
    <3>2. CASE j <= y
      <4>1. j \in 1 .. x - 1 /\ j \in 1 .. v - i
        BY <2>1, <2>3, <3>2
      <4> QED
        BY <1>13, <1>15, <3>1, <4>1
    <3>3. CASE j > y
      <4>1. i + j > v
        BY <1>1, <1>6, <3>3
      <4> QED
        BY <1>1, <3>1, <4>1
    <3> QED
      BY <2>1, <3>2, <3>3
  <2>4. ASSUME x <= y PROVE V[x] # SP /\ V[y] # SP
    <3>1. /\ x \in 1 .. v - i /\ y \in 1 .. v - i /\ i + y = v /\ x # Len(r) + 1
          /\ x \in 1 .. Len(s) - i /\ y \in 1 .. Len(s) - i
      BY <1>1, <1>6, <1>15, <2>1, <2>4
    <3>2. V[x] = r[x] /\ V[y] = s[v]
      BY <1>13, <1>14, <3>1
    <3> QED
      BY <1>1, <1>6, <1>15, <3>1, <3>2
  <2> HIDE DEF y
  <2>5. Trims(Value(t), V, x, y)
    BY <1>15, <2>1, <2>2, <2>3, <2>4 DEF Trims
  <2> QED
    BY <1>14, <2>5, Surrounded
<1>17. DOMAIN s = 1 .. Len(s)
  BY LenProperties
<1> HIDE DEF i
<1>18. i \in DOMAIN s /\ s[i] = EQ
  BY <1>6, <1>17
<1>19. P = SubSeq(s, 1, i - 1) /\ V = From(s, i)
  BY DEF P, V
<1> QED
  BY <1>9, <1>12, <1>16, <1>18, <1>19 DEF Says

-----------------------------------------------------------------------------
(* The lines of the file begin at its starts: q full buffers behind the    *)
(* place where the file or the character after an NL begins.               *)
StartsFrom(i, s, q) ==
  /\ i \in 0 .. Len(file) /\ s \in 0 .. i /\ q \in 0 .. i /\ BeginsAt(s)
  /\ \A j \in s + 1 .. i : file[j] # NL
  /\ i = s + q * (MAX_STRING_LEN - 1)

LEMMA StartIs == \A i : i \in Starts <=> \E s, q : StartsFrom(i, s, q)
  BY DEF Starts, StartsFrom

LEMMA BufferApart ==
  ASSUME NEW B \in Nat \ {0}, NEW q \in Nat, NEW r \in Nat, q * B < r * B
  PROVE  q * B + B <= r * B
<1>1. q < r
  <2> SUFFICES ASSUME r <= q PROVE FALSE
    OBVIOUS
  <2>1. PICK d \in Nat : q = r + d
    <3>1. q - r \in Nat /\ q = r + (q - r)
      OBVIOUS
    <3> QED
      BY <3>1
  <2>2. q * B = r * B + d * B /\ d * B \in Nat /\ r * B \in Nat
    BY <2>1
  <2> QED
    BY <2>2
<1>2. PICK d \in Nat : r = q + 1 + d
  <2>1. r - q - 1 \in Nat /\ r = q + 1 + (r - q - 1)
    BY <1>1
  <2> QED
    BY <2>1
<1>3. r * B = q * B + B + d * B /\ d * B \in Nat /\ q * B \in Nat
  BY <1>2
<1> QED
  BY <1>3

(* Behind a start, as far as no line ends, the next start is a buffer away. *)
LEMMA StartsApart ==
  ASSUME file \in Files, NEW k \in Starts, NEW d \in Starts, k < d, \A j \in k + 1 .. d : file[j] # NL
  PROVE  k + (MAX_STRING_LEN - 1) <= d
<1>1. PICK s, q : StartsFrom(k, s, q)
  BY StartIs
<1>2. PICK t, r : StartsFrom(d, t, r)
  BY StartIs
<1> DEFINE B == MAX_STRING_LEN - 1
<1>3. B \in Nat \ {0} /\ Len(file) \in Nat
  <2>1. Len(file) \in Nat
    BY FilesAssumption, LenProperties DEF FilesAssumption
  <2> QED
    BY <2>1, BufferAssumption DEF BufferAssumption
<1>4. /\ k \in Nat /\ s \in 0 .. k /\ q \in Nat /\ (s = 0 \/ file[s] = NL)
      /\ \A j \in s + 1 .. k : file[j] # NL
      /\ k = s + q * B
  BY <1>1, <1>3 DEF StartsFrom, BeginsAt
<1>5. /\ d \in Nat /\ t \in 0 .. d /\ r \in Nat /\ (t = 0 \/ file[t] = NL)
      /\ \A j \in t + 1 .. d : file[j] # NL
      /\ d = t + r * B
  BY <1>2, <1>3 DEF StartsFrom, BeginsAt
<1> HIDE DEF B
<1>6. \A j \in s + 1 .. d : file[j] # NL
  <2>1. \A j \in s + 1 .. d : j \in s + 1 .. k \/ j \in k + 1 .. d
    BY <1>4, <1>5
  <2> QED
    BY <1>4, <2>1
<1>7. s = t
  <2>1. ~(s < t)
    <3> SUFFICES ASSUME s < t PROVE FALSE
      OBVIOUS
    <3>1. t \in s + 1 .. d /\ t # 0
      BY <1>4, <1>5
    <3> QED
      BY <1>5, <1>6, <3>1
  <2>2. ~(t < s)
    <3> SUFFICES ASSUME t < s PROVE FALSE
      OBVIOUS
    <3>1. s \in t + 1 .. d /\ s # 0
      BY <1>4, <1>5
    <3> QED
      BY <1>4, <1>5, <3>1
  <2> QED
    BY <1>4, <1>5, <2>1, <2>2
<1>8. q * B \in Nat /\ r * B \in Nat
  BY <1>3, <1>4, <1>5
<1>9. q * B < r * B
  BY <1>4, <1>5, <1>7, <1>8
<1>10. q * B + B <= r * B
  BY <1>3, <1>4, <1>5, <1>9, BufferApart
<1>11. k + B <= d
  BY <1>3, <1>4, <1>5, <1>7, <1>8, <1>10
<1> QED
  BY <1>11 DEF B

Earlier(k) == {j \in Starts : j < k}
NextStart(i) == Least({j \in Starts : j > i} \cup {Len(file)})

LEMMA StartsFinite ==
  ASSUME file \in Files
  PROVE  /\ Starts \subseteq 0 .. Len(file) /\ IsFiniteSet(Starts) /\ Cardinality(Starts) \in Nat
         /\ \A k : IsFiniteSet(Earlier(k)) /\ Cardinality(Earlier(k)) \in Nat
<1>1. Len(file) \in Nat /\ DOMAIN file = 1 .. Len(file)
  <2>1. file \in Seq(ToSet(file))
    BY FilesAssumption DEF FilesAssumption
  <2> QED
    BY <2>1, LenProperties
<1>2. Starts \subseteq 0 .. Len(file)
  BY <1>1 DEF Starts
<1>3. IsFiniteSet(0 .. Len(file))
  BY <1>1, FS_Interval
<1>4. \A S \in SUBSET (0 .. Len(file)) : IsFiniteSet(S) /\ Cardinality(S) \in Nat
  BY <1>3, FS_Subset, FS_CardinalityType
<1>5. \A k : Earlier(k) \in SUBSET (0 .. Len(file))
  BY <1>2 DEF Earlier
<1> QED
  BY <1>2, <1>4, <1>5

(* A line begins after those that begin earlier.                           *)
LEMMA EarlierStarts ==
  ASSUME file \in Files, NEW i \in Starts, NEW j \in Int, i < j
  PROVE  /\ Cardinality(Earlier(i)) < Cardinality(Earlier(j))
         /\ (\A d \in Starts : ~(i < d /\ d < j)) => Cardinality(Earlier(j)) = Cardinality(Earlier(i)) + 1
<1> DEFINE S == Earlier(i) \cup {i}
<1>1. Starts \subseteq 0 .. Len(file) /\ \A k : IsFiniteSet(Earlier(k)) /\ Cardinality(Earlier(k)) \in Nat
  BY StartsFinite
<1>2. i \notin Earlier(i)
  BY <1>1 DEF Earlier
<1>3. Cardinality(S) = Cardinality(Earlier(i)) + 1
  BY <1>1, <1>2, FS_AddElement
<1>4. \A d \in Starts : d \in Int
  BY <1>1
<1>5. S \subseteq Earlier(j)
  BY <1>4 DEF Earlier
<1>6. Cardinality(S) <= Cardinality(Earlier(j))
  BY <1>1, <1>5, FS_Subset
<1>7. ASSUME \A d \in Starts : ~(i < d /\ d < j) PROVE Earlier(j) = S
  <2>1. \A d \in Earlier(j) : d \in S
    BY <1>4, <1>7 DEF Earlier
  <2> QED
    BY <1>5, <2>1
<1>8. Cardinality(Earlier(i)) \in Nat /\ Cardinality(Earlier(j)) \in Nat
  BY <1>1
<1> HIDE DEF S
<1> QED
  BY <1>3, <1>6, <1>7, <1>8

LEMMA LineAt ==
  ASSUME file \in Files, NEW i \in Starts, NEW k, k = Cardinality(Earlier(i)) + 1
  PROVE  /\ k \in 1 .. Len(Lines) /\ DOMAIN Lines = 1 .. Len(Lines) /\ Len(Lines) = Cardinality(Starts)
         /\ Lines[k] = Before(SubSeq(file, i + 1, NextStart(i)), NL)
<1>1. /\ Starts \subseteq 0 .. Len(file) /\ IsFiniteSet(Starts) /\ Cardinality(Starts) \in Nat
      /\ \A j : IsFiniteSet(Earlier(j)) /\ Cardinality(Earlier(j)) \in Nat
  BY StartsFinite
<1>2. DOMAIN Lines = 1 .. Cardinality(Starts) /\ Len(Lines) = Cardinality(Starts)
  BY <1>1 DEF Lines
<1>3. k \in 1 .. Cardinality(Starts)
  <2> DEFINE S == Earlier(i) \cup {i}
  <2>1. i \notin Earlier(i) /\ S \subseteq Starts
    BY <1>1 DEF Earlier
  <2>2. Cardinality(S) = Cardinality(Earlier(i)) + 1
    BY <1>1, <2>1, FS_AddElement
  <2>3. Cardinality(S) <= Cardinality(Starts)
    BY <1>1, <2>1, FS_Subset
  <2>4. Cardinality(Earlier(i)) \in Nat
    BY <1>1
  <2> HIDE DEF S
  <2> QED
    BY <1>1, <2>2, <2>3, <2>4
<1> DEFINE x == CHOOSE j \in Starts : Cardinality({d \in Starts : d < j}) = k - 1
<1>4. \A j \in Starts : Cardinality({d \in Starts : d < j}) = Cardinality(Earlier(j))
  BY DEF Earlier
<1>5. k - 1 = Cardinality(Earlier(i))
  BY <1>1
<1>6. x \in Starts /\ Cardinality(Earlier(x)) = Cardinality(Earlier(i))
  <2>1. \E j \in Starts : Cardinality({d \in Starts : d < j}) = k - 1
    BY <1>4, <1>5
  <2>2. x \in Starts /\ Cardinality({d \in Starts : d < x}) = k - 1
    BY <2>1
  <2> HIDE DEF x
  <2> QED
    BY <1>4, <1>5, <2>2
<1> HIDE DEF x
<1>7. x = i
  <2>1. x \in Int /\ i \in Int /\ Cardinality(Earlier(i)) \in Nat
    BY <1>1, <1>6
  <2>2. ~(x < i)
    <3> SUFFICES ASSUME x < i PROVE FALSE
      OBVIOUS
    <3>1. Cardinality(Earlier(x)) < Cardinality(Earlier(i))
      BY <1>6, <2>1, EarlierStarts
    <3> QED
      BY <1>6, <2>1, <3>1
  <2>3. ~(i < x)
    <3> SUFFICES ASSUME i < x PROVE FALSE
      OBVIOUS
    <3>1. Cardinality(Earlier(i)) < Cardinality(Earlier(x))
      BY <2>1, EarlierStarts
    <3> QED
      BY <1>6, <2>1, <3>1
  <2> QED
    BY <2>1, <2>2, <2>3
<1>8. Line(Starts, k) = Before(SubSeq(file, x + 1, NextStart(x)), NL)
  BY DEF Line, NextStart, x
<1>9. Lines[k] = Line(Starts, k)
  BY <1>3 DEF Lines
<1> QED
  BY <1>2, <1>3, <1>7, <1>8, <1>9

-----------------------------------------------------------------------------
(* The reading stands, after each line, at the start of the next one, and  *)
(* counts it.                                                              *)
NoNul == NUL \notin ToSet(file)

Standing(k) ==
  /\ rest = From(file, k) /\ (k \in Starts \/ k = Len(file))
  /\ Cardinality(Earlier(k)) = lineno - 1

EntriesRight ==
  /\ Len(entries) = Cardinality(ToRead(lineno))
  /\ \A k \in ToRead(lineno) :
       LET entry == entries[Cardinality(ToRead(k)) + 1] IN Says(Lines[k], entry[1], entry[2])

LinesRead ==
  NoNul =>
    /\ line_ret = "running" => \E k \in 0 .. Len(file) : Standing(k)
    /\ line_ret = "eof" => rest = <<>> /\ \E k \in 0 .. Len(file) : Standing(k)
    /\ EntriesRight
    /\ line_ret = "non_utf8" => ~IsUtf8(Lines[lineno])
    /\ line_ret = "non_key_value" => EQ \notin ToSet(Lines[lineno]) /\ ~Blanks(Lines[lineno])

LEMMA NextLine ==
  ASSUME LineInv, NoNul, Read, NEW k \in 0 .. Len(file), Standing(k)
  PROVE  /\ lineno \in 1 .. Len(Lines) /\ DOMAIN Lines = 1 .. Len(Lines)
         /\ Lines[lineno] \in Seq(ToSet(file)) /\ \A i \in 1 .. Len(Lines[lineno]) : Lines[lineno][i] # NL
         /\ \E u, v : Trims(line, Lines[lineno], u, v)
         /\ \E j \in 0 .. Len(file) :
              rest' = From(file, j) /\ (j \in Starts \/ j = Len(file)) /\ Cardinality(Earlier(j)) = lineno
<1> DEFINE T == ToSet(file)
<1>1. /\ file \in Files /\ lineno \in Nat \ {0}
      /\ rest = From(file, k) /\ (k \in Starts \/ k = Len(file)) /\ Cardinality(Earlier(k)) = lineno - 1
  BY DEF LineInv, Standing
<1>2. /\ file \in Seq(T) /\ Len(file) \in Nat /\ rest \in Seq(T) /\ Len(rest) = Len(file) - k
      /\ \A i \in 1 .. Len(file) - k : rest[i] = file[k + i]
  BY <1>1, RestIs
<1>3. PICK m \in 1 .. Len(file) - k :
           /\ rest' = From(file, k + m)
           /\ Piece(rest) \in Seq(T) /\ Len(Piece(rest)) = m
           /\ \A i \in 1 .. m : Piece(rest)[i] = file[k + i]
           /\ m < MAX_STRING_LEN /\ \A i \in 1 .. m - 1 : file[k + i] # NL
           /\ k + m = Len(file) \/ file[k + m] = NL \/ m + 1 = MAX_STRING_LEN
  BY <1>1, ReadOn
<1>4. k \in Starts /\ k < Len(file)
  BY <1>1, <1>2, <1>3
<1> DEFINE j == k + m
<1>5. j \in 0 .. Len(file) /\ k < j /\ k \in Nat /\ m \in Nat \ {0} /\ m <= Len(file) - k
  BY <1>2, <1>3
<1>6. ASSUME NEW d \in k + 1 .. j - 1 PROVE file[d] # NL
  <2>1. d - k \in 1 .. m - 1 /\ k + (d - k) = d
    BY <1>5
  <2> QED
    BY <1>3, <2>1
<1>13. j \in Starts \/ j = Len(file)
  <2>1. CASE file[j] = NL
    <3>1. StartsFrom(j, j, 0)
      <4>1. MAX_STRING_LEN - 1 \in Nat
        BY BufferAssumption DEF BufferAssumption
      <4>2. j \in Nat /\ j = j + 0 * (MAX_STRING_LEN - 1)
        BY <1>5, <4>1
      <4> HIDE DEF j
      <4> QED
        BY <1>5, <2>1, <4>2 DEF StartsFrom, BeginsAt
    <3> QED
      BY <3>1, StartIs
  <2>2. CASE file[j] # NL /\ m + 1 = MAX_STRING_LEN
    <3>1. PICK s, q : StartsFrom(k, s, q)
      BY <1>4, StartIs
    <3>2. /\ s \in 0 .. k /\ q \in 0 .. k /\ BeginsAt(s) /\ (\A i \in s + 1 .. k : file[i] # NL)
          /\ k = s + q * m
      <4>1. MAX_STRING_LEN - 1 = m
        BY <1>5, <2>2
      <4> QED
        BY <3>1, <4>1 DEF StartsFrom
    <3>3. \A i \in s + 1 .. j : file[i] # NL
      <4>1. \A i \in s + 1 .. j : i \in s + 1 .. k \/ i \in k + 1 .. j - 1 \/ i = j
        BY <1>5, <3>2
      <4> QED
        BY <1>6, <2>2, <3>2, <4>1
    <3>4. j = s + (q + 1) * m
      <4>1. (q + 1) * m = q * m + m /\ q * m \in Nat /\ s \in Nat
        BY <1>5, <3>2
      <4> QED
        BY <1>5, <3>2, <4>1
    <3>5. s \in 0 .. j /\ q + 1 \in 0 .. j
      BY <1>5, <3>2
    <3>6. MAX_STRING_LEN - 1 = m
      BY <1>5, <2>2
    <3> HIDE DEF j
    <3>7. StartsFrom(j, s, q + 1)
      BY <1>5, <3>2, <3>3, <3>4, <3>5, <3>6 DEF StartsFrom
    <3> QED
      BY <3>7, StartIs
  <2>3. CASE k + m = Len(file)
    BY <2>3
  <2> QED
    BY <1>3, <2>1, <2>2, <2>3
<1>14. \A d \in Starts : ~(k < d /\ d < j)
  <2> SUFFICES ASSUME NEW d \in Starts, k < d, d < j PROVE FALSE
    OBVIOUS
  <2>1. d \in 0 .. Len(file)
    BY <1>1, StartsFinite
  <2>2. \A i \in k + 1 .. d : i \in k + 1 .. j - 1
    BY <1>5, <2>1
  <2>3. k + (MAX_STRING_LEN - 1) <= d
    BY <1>1, <1>4, <1>6, <2>2, StartsApart
  <2>4. MAX_STRING_LEN \in Nat
    BY BufferAssumption DEF BufferAssumption
  <2> QED
    BY <1>3, <1>5, <2>1, <2>3, <2>4
<1>8. NextStart(k) = j
  <2> DEFINE S == {d \in Starts : d > k} \cup {Len(file)}
  <2>1. \A d \in Starts : d \in 0 .. Len(file)
    BY <1>1, StartsFinite
  <2>2. j \in S
    BY <1>5, <1>13
  <2>3. \A d \in S : j <= d
    <3>1. j \in Int /\ k \in Int /\ Len(file) \in Int /\ j <= Len(file)
      BY <1>2, <1>5
    <3>2. \A d \in S : d = Len(file) \/ (d \in Starts /\ k < d)
      BY <2>1, <3>1
    <3> HIDE DEF S, j
    <3> QED
      BY <1>14, <2>1, <3>1, <3>2
  <2>4. S \subseteq Int
    BY <1>2, <2>1
  <2>5. NextStart(k) = Least(S)
    BY DEF NextStart
  <2> HIDE DEF S, j
  <2>6. Least(S) \in S /\ \A y \in S : Least(S) <= y
    BY <2>2, <2>3 DEF Least
  <2>7. j <= Least(S) /\ Least(S) <= j /\ j \in Int /\ Least(S) \in Int
    BY <2>2, <2>3, <2>4, <2>6
  <2> QED
    BY <2>5, <2>7
<1> DEFINE x == SubSeq(file, k + 1, j)
           s == Before(x, NL)
<1>9. /\ lineno \in 1 .. Len(Lines) /\ DOMAIN Lines = 1 .. Len(Lines)
      /\ Lines[lineno] = s
  <2>1. lineno = Cardinality(Earlier(k)) + 1
    <3>1. Cardinality(Earlier(k)) \in Nat
      BY <1>1, StartsFinite
    <3> QED
      BY <1>1, <3>1
  <2> HIDE DEF j
  <2> QED
    BY <1>1, <1>4, <1>8, <2>1, LineAt
<1>10. x \in Seq(T) /\ Len(x) = m /\ \A i \in 1 .. m : x[i] = file[k + i]
  <2> DEFINE o == k + 1
  <2>1. /\ o \in 1 .. Len(file) + 1 /\ j \in 0 .. Len(file) /\ o <= j + 1 /\ j - o + 1 = m
        /\ \A i \in 1 .. m : o + i - 1 = k + i
    BY <1>2, <1>5
  <2>2. x = SubSeq(file, o, j)
    OBVIOUS
  <2> HIDE DEF T, j, o, x
  <2>3. x \in Seq(T) /\ Len(x) = j - o + 1 /\ \A i \in 1 .. j - o + 1 : x[i] = file[o + i - 1]
    BY <1>2, <2>1, <2>2, Part
  <2> QED
    BY <2>1, <2>3
<1> HIDE DEF x
<1>7. PICK b \in 0 .. m :
        /\ s = SubSeq(x, 1, b)
        /\ \A i \in 1 .. b : x[i] # NL
        /\ b = m \/ x[b + 1] = NL
  <2> HIDE DEF T
  <2> QED
    BY <1>10, BeforeIs
<1>18. s \in Seq(T) /\ Len(s) = b /\ \A i \in 1 .. b : s[i] = x[i] /\ x[i] # NL /\ i \in 1 .. m
  <2>1. /\ 1 \in 1 .. Len(x) + 1 /\ b \in 0 .. Len(x) /\ 1 <= b + 1 /\ b - 1 + 1 = b
        /\ \A i \in 1 .. b : 1 + i - 1 = i /\ i \in 1 .. m
    BY <1>10, <1>5
  <2> DEFINE t == SubSeq(x, 1, b)
  <2> HIDE DEF T
  <2>2. t \in Seq(T) /\ Len(t) = b - 1 + 1 /\ \A i \in 1 .. b - 1 + 1 : t[i] = x[1 + i - 1]
    BY <1>10, <2>1, Part
  <2> HIDE DEF t
  <2>3. t \in Seq(T) /\ Len(t) = b /\ \A i \in 1 .. b : t[i] = x[i]
    BY <2>1, <2>2
  <2>4. s = t
    BY <1>7 DEF t
  <2> HIDE DEF s
  <2> QED
    BY <1>7, <2>1, <2>3, <2>4
<1> HIDE DEF s
<1>12. m = b \/ (m = b + 1 /\ file[k + m] = NL)
  <2> SUFFICES ASSUME b # m PROVE m = b + 1 /\ file[k + m] = NL
    OBVIOUS
  <2>1. b + 1 \in 1 .. m /\ x[b + 1] = NL
    BY <1>5, <1>7
  <2>2. file[k + (b + 1)] = NL
    BY <1>10, <2>1
  <2>3. ~(b + 1 \in 1 .. m - 1)
    BY <1>3, <2>2
  <2>4. b + 1 = m
    BY <1>5, <2>1, <2>3
  <2> QED
    BY <2>2, <2>4
<1>11. \E u, v : Trims(line, s, u, v)
  <2> DEFINE piece == Piece(rest)
  <2>2. \A i \in 1 .. Len(s) : piece[i] = s[i] /\ s[i] # NL
    BY <1>3, <1>10, <1>18
  <2>3. Len(piece) \in {Len(s), Len(s) + 1} /\ (Len(piece) # Len(s) => piece[Len(s) + 1] = NL)
    <3>1. m \in 1 .. m
      BY <1>5
    <3> QED
      BY <1>3, <1>12, <1>18, <3>1
  <2>4. NUL \notin ToSet(piece)
    <3>1. \A i \in 1 .. Len(piece) : k + i \in 1 .. Len(file) /\ piece[i] = file[k + i]
      BY <1>2, <1>3
    <3>2. \A i \in 1 .. Len(file) : file[i] # NUL
      <4>1. NUL \notin T
        BY DEF NoNul
      <4> HIDE DEF T
      <4> QED
        BY <1>2, <4>1, ElementOfSeq
    <3>3. \A i \in 1 .. Len(piece) : piece[i] # NUL
      BY <3>1, <3>2
    <3>4. piece \in Seq(T)
      BY <1>3
    <3> HIDE DEF T, piece
    <3> QED
      BY <3>3, <3>4, Members
  <2>5. piece \in Seq(T) /\ s \in Seq(T)
    BY <1>3, <1>18
  <2>6. line = str_rtrim(str_ltrim(Before(piece, NUL), LTRIM_CHARS), RTRIM_CHARS)
    BY DEF line
  <2> HIDE DEF piece, T
  <2> QED
    BY <1>1, <2>2, <2>3, <2>4, <2>5, <2>6, LineTrims
<1>15. Cardinality(Earlier(j)) = lineno
  <2>1. j \in Int
    BY <1>5
  <2> HIDE DEF j
  <2>2. Cardinality(Earlier(j)) = Cardinality(Earlier(k)) + 1
    BY <1>1, <1>4, <1>5, <1>14, <2>1, EarlierStarts
  <2>3. Cardinality(Earlier(k)) \in Nat
    BY <1>1, StartsFinite
  <2> QED
    BY <1>1, <2>2, <2>3
<1>17. rest' = From(file, j)
  BY <1>3
<1>16. \A i \in 1 .. Len(s) : s[i] # NL
  BY <1>18
<1> HIDE DEF j
<1> QED
  BY <1>5, <1>9, <1>11, <1>13, <1>15, <1>16, <1>17, <1>18

(* One line more has been read.                                            *)
LEMMA ToReadNext ==
  ASSUME file \in Files, NEW k \in 1 .. Len(Lines), DOMAIN Lines = 1 .. Len(Lines)
  PROVE  /\ ToRead(k + 1) = IF Blanks(Lines[k]) THEN ToRead(k) ELSE ToRead(k) \cup {k}
         /\ k \notin ToRead(k) /\ IsFiniteSet(ToRead(k)) /\ Cardinality(ToRead(k)) \in Nat
         /\ \A j \in ToRead(k) : j \in 1 .. Len(Lines) /\ Cardinality(ToRead(j)) < Cardinality(ToRead(k))
         /\ Cardinality(ToRead(k + 1)) =
              IF Blanks(Lines[k]) THEN Cardinality(ToRead(k)) ELSE Cardinality(ToRead(k)) + 1
<1>1. Len(Lines) = Cardinality(Starts) /\ Cardinality(Starts) \in Nat
  BY StartsFinite DEF Lines
<1>2. \A j \in 1 .. Len(Lines) : j < k + 1 <=> j < k \/ j = k
  BY <1>1
<1>3. ToRead(k + 1) = IF Blanks(Lines[k]) THEN ToRead(k) ELSE ToRead(k) \cup {k}
  BY <1>2 DEF ToRead
<1>4. \A j : IsFiniteSet(ToRead(j)) /\ Cardinality(ToRead(j)) \in Nat
  <2>1. IsFiniteSet(1 .. Len(Lines))
    BY <1>1, FS_Interval
  <2>2. \A j : ToRead(j) \in SUBSET (1 .. Len(Lines))
    BY DEF ToRead
  <2> QED
    BY <2>1, <2>2, FS_Subset, FS_CardinalityType
<1>5. k \notin ToRead(k)
  BY <1>1 DEF ToRead
<1>6. ASSUME NEW j \in ToRead(k) PROVE j \in 1 .. Len(Lines) /\ Cardinality(ToRead(j)) < Cardinality(ToRead(k))
  <2>1. j \in 1 .. Len(Lines) /\ j < k /\ ~Blanks(Lines[j])
    BY DEF ToRead
  <2> DEFINE S == ToRead(j) \cup {j}
  <2>2. j \notin ToRead(j) /\ S \subseteq ToRead(k)
    BY <1>1, <2>1 DEF ToRead
  <2>3. Cardinality(S) = Cardinality(ToRead(j)) + 1
    BY <1>4, <2>2, FS_AddElement
  <2>4. Cardinality(S) <= Cardinality(ToRead(k))
    BY <1>4, <2>2, FS_Subset
  <2>5. Cardinality(ToRead(j)) \in Nat /\ Cardinality(ToRead(k)) \in Nat
    BY <1>4
  <2> HIDE DEF S
  <2> QED
    BY <2>1, <2>3, <2>4, <2>5
<1>7. Cardinality(ToRead(k) \cup {k}) = Cardinality(ToRead(k)) + 1
  BY <1>4, <1>5, FS_AddElement
<1> QED
  BY <1>3, <1>4, <1>5, <1>6, <1>7

(* Nothing comes before anything in the empty sequence.                    *)
LEMMA NoneBefore ==
  ASSUME NEW T, NEW s \in Seq(T), NEW d
  PROVE  Len(s) = 0 => Before(s, d) = <<>>
<1>1. PICK b \in 0 .. Len(s) : Before(s, d) = SubSeq(s, 1, b)
  BY BeforeIs
<1>2. Len(s) = 0 => b = 0
  OBVIOUS
<1> QED
  BY <1>1, <1>2, SubSeqEmpty

LEMMA LinesStart == LineInit => LinesRead
<1> SUFFICES ASSUME LineInit PROVE LinesRead
  OBVIOUS
<1>1. file \in Files /\ rest = file /\ lineno = 1 /\ entries = <<>> /\ line_ret = "running"
  BY DEF LineInit
<1>2. file \in Seq(ToSet(file)) /\ Len(file) \in Nat
  BY <1>1, RestIs, FilesAssumption DEF FilesAssumption
<1>3. From(file, 0) = file
  <2>1. SubSeq(file, 1, Len(file)) = file /\ 0 + 1 = 1
    BY <1>2, SubSeqFull
  <2> QED
    BY <2>1 DEF From
<1>4. Standing(0)
  <2>1. Earlier(0) = {}
    <3>1. \A i \in Starts : i \in 0 .. Len(file)
      BY <1>1, StartsFinite
    <3> QED
      BY <1>2, <3>1 DEF Earlier
  <2>2. Cardinality(Earlier(0)) = 0
    BY <2>1, FS_EmptySet
  <2>3. 0 \in Starts
    <3>1. 0 = 0 + 0 * (MAX_STRING_LEN - 1)
      BY BufferAssumption DEF BufferAssumption
    <3>2. StartsFrom(0, 0, 0)
      BY <1>2, <3>1 DEF StartsFrom, BeginsAt
    <3> QED
      BY <3>2, StartIs
  <2> QED
    BY <1>1, <1>3, <2>2, <2>3 DEF Standing
<1>5. EntriesRight
  <2>1. Len(Lines) \in Nat /\ DOMAIN Lines = 1 .. Len(Lines)
    BY <1>1, StartsFinite DEF Lines
  <2>2. ToRead(1) = {}
    BY <2>1 DEF ToRead
  <2> QED
    BY <1>1, <2>2, FS_EmptySet DEF EntriesRight
<1>6. 0 \in 0 .. Len(file)
  BY <1>2
<1> QED
  BY <1>1, <1>4, <1>5, <1>6 DEF LinesRead

LEMMA LinesStep ==
  LineInv /\ LinesRead /\ [LineNext]_line_vars => LinesRead'
<1> SUFFICES ASSUME LineInv, LinesRead, [LineNext]_line_vars, NoNul'
             PROVE  LinesRead'
  BY DEF LinesRead
<1>0. file' = file /\ file \in Files /\ entries \in Seq(Seq(ToSet(file)) \X Seq(ToSet(file)))
      /\ lineno \in Nat \ {0}
  BY DEF LineInv, LineNext, Skip, NonUtf8, NonKeyValue, KeyValue, EndOfFile, LineStopped, line_vars
<1>1. Starts' = Starts
  BY <1>0 DEF Starts, BeginsAt
<1>2. Lines' = Lines
  BY <1>0, <1>1 DEF Lines, Line
<1>3. NoNul
  BY <1>0, <1>2 DEF NoNul
<1>4. /\ line_ret = "running" => \E k \in 0 .. Len(file) : Standing(k)
      /\ line_ret = "eof" => rest = <<>> /\ \E k \in 0 .. Len(file) : Standing(k)
      /\ EntriesRight
  BY <1>3 DEF LinesRead
<1>5. \A k : ToRead(k)' = ToRead(k)
  BY <1>2 DEF ToRead
<1>6. \A k : Earlier(k)' = Earlier(k)
  BY <1>1 DEF Earlier
<1>7. ASSUME UNCHANGED <<lineno, entries>> PROVE EntriesRight'
  <2>1. ToRead(lineno)' = ToRead(lineno)
    BY <1>2, <1>7 DEF ToRead
  <2> QED
    BY <1>2, <1>4, <1>5, <1>7, <2>1 DEF EntriesRight
<1>8. ASSUME Read
      PROVE  /\ lineno \in 1 .. Len(Lines) /\ DOMAIN Lines = 1 .. Len(Lines)
             /\ Blank(line) <=> Blanks(Lines[lineno])
             /\ IsUtf8(Lines[lineno]) => IsUtf8(line)
             /\ EQ \in ToSet(line) <=> EQ \in ToSet(Lines[lineno])
             /\ EQ \in ToSet(line) => Says(Lines[lineno], Parameter(line), Value(line))
             /\ lineno' = lineno + 1 => \E j \in 0 .. Len(file) : Standing(j)'
  <2> DEFINE T == ToSet(file)
             s == Lines[lineno]
  <2>1. PICK k \in 0 .. Len(file) : Standing(k)
    BY <1>4, <1>8 DEF Read
  <2>2. /\ lineno \in 1 .. Len(Lines) /\ DOMAIN Lines = 1 .. Len(Lines)
        /\ s \in Seq(T) /\ \A i \in 1 .. Len(s) : s[i] # NL
        /\ \E u, v : Trims(line, s, u, v)
        /\ \E j \in 0 .. Len(file) :
              rest' = From(file, j) /\ (j \in Starts \/ j = Len(file)) /\ Cardinality(Earlier(j)) = lineno
    BY <1>3, <1>8, <2>1, NextLine
  <2>3. PICK u, v : Trims(line, s, u, v)
    BY <2>2
  <2>4. ASSUME lineno' = lineno + 1 PROVE \E j \in 0 .. Len(file) : Standing(j)'
    <3>1. PICK j \in 0 .. Len(file) :
            rest' = From(file, j) /\ (j \in Starts \/ j = Len(file)) /\ Cardinality(Earlier(j)) = lineno
      BY <2>2
    <3>2. lineno' - 1 = lineno
      BY <1>0, <2>4
    <3>3. Standing(j)'
      BY <1>0, <1>1, <1>6, <3>1, <3>2 DEF Standing
    <3> QED
      BY <3>3
  <2> HIDE DEF T, s
  <2>5. Blank(line) <=> Blanks(s)
    BY <1>0, <2>2, <2>3, BlankLines
  <2>6. IsUtf8(s) => IsUtf8(line)
    BY <1>0, <2>2, <2>3, Utf8Lines
  <2>7. EQ \in ToSet(line) <=> EQ \in ToSet(s)
    BY <1>0, <2>2, <2>3, KeyLines
  <2>8. EQ \in ToSet(line) => Says(s, Parameter(line), Value(line))
    BY <1>0, <2>2, <2>3, EntryLines
  <2> QED
    BY <2>2, <2>4, <2>5, <2>6, <2>7, <2>8 DEF s
<1>9. Len(file)' = Len(file)
  BY <1>0
<1>10. CASE Skip
  <2>1. /\ Read /\ Blank(line) /\ lineno' = lineno + 1 /\ UNCHANGED <<file, entries, line_ret>>
        /\ line_ret = "running"
    BY <1>10 DEF Skip, Read
  <2>2. Blanks(Lines[lineno]) /\ \E j \in 0 .. Len(file) : Standing(j)'
    BY <1>8, <2>1
  <2>3. ToRead(lineno + 1) = ToRead(lineno)
    BY <1>0, <1>8, <2>1, <2>2, ToReadNext
  <2>4. ToRead(lineno)' = ToRead(lineno)
    BY <1>2, <2>1, <2>3 DEF ToRead
  <2>5. EntriesRight'
    BY <1>2, <1>4, <1>5, <2>1, <2>4 DEF EntriesRight
  <2> QED
    BY <1>9, <2>1, <2>2, <2>5 DEF LinesRead
<1>11. CASE KeyValue
  <2>1. /\ Read /\ ~Blank(line) /\ EQ \in ToSet(line) /\ lineno' = lineno + 1
        /\ UNCHANGED <<file, line_ret>> /\ line_ret = "running"
        /\ entries' = Append(entries, <<Parameter(line), Value(line)>>)
    BY <1>11 DEF KeyValue, Read
  <2>2. /\ ~Blanks(Lines[lineno]) /\ \E j \in 0 .. Len(file) : Standing(j)'
        /\ Says(Lines[lineno], Parameter(line), Value(line))
        /\ lineno \in 1 .. Len(Lines) /\ DOMAIN Lines = 1 .. Len(Lines)
    BY <1>8, <2>1
  <2>3. /\ ToRead(lineno + 1) = ToRead(lineno) \cup {lineno}
        /\ Cardinality(ToRead(lineno)) \in Nat
        /\ \A j \in ToRead(lineno) : Cardinality(ToRead(j)) < Cardinality(ToRead(lineno))
        /\ Cardinality(ToRead(lineno + 1)) = Cardinality(ToRead(lineno)) + 1
        /\ \A j : Cardinality(ToRead(j)) \in Nat
    <3>1. \A j : Cardinality(ToRead(j)) \in Nat
      <4>1. IsFiniteSet(1 .. Len(Lines))
        <5>1. Len(Lines) \in Int
          BY <1>0, StartsFinite DEF Lines
        <5> QED
          BY <5>1, FS_Interval
      <4>2. \A j : ToRead(j) \in SUBSET (1 .. Len(Lines))
        BY <2>2 DEF ToRead
      <4> QED
        BY <4>1, <4>2, FS_Subset, FS_CardinalityType
    <3> QED
      BY <1>0, <2>2, <3>1, ToReadNext
  <2>4. ToRead(lineno)' = ToRead(lineno) \cup {lineno}
    BY <1>2, <2>1, <2>3 DEF ToRead
  <2>5. /\ Len(entries') = Len(entries) + 1 /\ Len(entries) \in Nat
        /\ \A i \in 1 .. Len(entries) : entries'[i] = entries[i]
        /\ entries'[Len(entries) + 1] = <<Parameter(line), Value(line)>>
    <3> DEFINE E == Seq(ToSet(file)) \X Seq(ToSet(file))
               e == <<Parameter(line), Value(line)>>
    <3>1. entries \in Seq(E) /\ e \in E
      BY <1>0, <2>1, LineIsString
    <3> HIDE DEF E, e
    <3>2. entries' = Append(entries, e)
      BY <2>1 DEF e
    <3>3. /\ Len(entries') = Len(entries) + 1 /\ Len(entries) \in Nat
          /\ \A i \in 1 .. Len(entries) : entries'[i] = entries[i]
          /\ entries'[Len(entries) + 1] = e
      BY <3>1, <3>2, AppendProperties, LenProperties
    <3> QED
      BY <3>3 DEF e
  <2>6. Len(entries) = Cardinality(ToRead(lineno))
    BY <1>4 DEF EntriesRight
  <2>7. Len(entries') = Cardinality(ToRead(lineno)')
    BY <2>3, <2>4, <2>5, <2>6
  <2>8. ASSUME NEW j \in ToRead(lineno)'
        PROVE  LET entry == entries'[Cardinality(ToRead(j)) + 1] IN Says(Lines[j], entry[1], entry[2])
    <3>1. CASE j = lineno
      <4>1. Cardinality(ToRead(j)) + 1 = Len(entries) + 1
        BY <2>6, <3>1
      <4>2. entries'[Cardinality(ToRead(j)) + 1] = <<Parameter(line), Value(line)>>
        BY <2>5, <4>1
      <4> QED
        BY <2>2, <3>1, <4>2
    <3>2. CASE j # lineno
      <4>1. j \in ToRead(lineno)
        BY <2>4, <2>8, <3>2
      <4>2. Cardinality(ToRead(j)) + 1 \in 1 .. Len(entries)
        BY <2>3, <2>5, <2>6, <4>1
      <4>3. entries'[Cardinality(ToRead(j)) + 1] = entries[Cardinality(ToRead(j)) + 1]
        BY <2>5, <4>2
      <4> QED
        BY <1>4, <4>1, <4>3 DEF EntriesRight
    <3> QED
      BY <3>1, <3>2
  <2>9. EntriesRight'
    BY <1>2, <1>5, <2>7, <2>8 DEF EntriesRight
  <2> QED
    BY <1>9, <2>1, <2>2, <2>9 DEF LinesRead
<1>12. CASE NonUtf8
  <2>1. /\ Read /\ ~IsUtf8(line) /\ line_ret' = "non_utf8" /\ UNCHANGED <<lineno, entries>>
    BY <1>12 DEF NonUtf8
  <2>2. ~IsUtf8(Lines[lineno])
    BY <1>8, <2>1
  <2> QED
    BY <1>2, <1>7, <2>1, <2>2 DEF LinesRead
<1>13. CASE NonKeyValue
  <2>1. /\ Read /\ ~Blank(line) /\ EQ \notin ToSet(line)
        /\ line_ret' = "non_key_value" /\ UNCHANGED <<lineno, entries>>
    BY <1>13 DEF NonKeyValue
  <2>2. EQ \notin ToSet(Lines[lineno]) /\ ~Blanks(Lines[lineno])
    BY <1>8, <2>1
  <2> QED
    BY <1>2, <1>7, <2>1, <2>2 DEF LinesRead
<1>14. CASE EndOfFile
  <2>1. /\ line_ret = "running" /\ rest = <<>> /\ line_ret' = "eof"
        /\ UNCHANGED <<file, rest, lineno, entries>>
    BY <1>14 DEF EndOfFile
  <2>2. PICK k \in 0 .. Len(file) : Standing(k)
    BY <1>4, <2>1
  <2>3. Standing(k)'
    BY <1>1, <1>6, <2>1, <2>2 DEF Standing
  <2> QED
    BY <1>7, <1>9, <2>1, <2>3 DEF LinesRead
<1>15. CASE LineStopped \/ UNCHANGED line_vars
  <2>1. UNCHANGED line_vars
    BY <1>15 DEF LineStopped
  <2>2. UNCHANGED <<file, rest, lineno, entries, line_ret>>
    BY <2>1 DEF line_vars
  <2>3. \A k : Standing(k)' <=> Standing(k)
    BY <1>1, <1>6, <2>2 DEF Standing
  <2> QED
    BY <1>2, <1>3, <1>4, <1>7, <1>9, <2>2, <2>3 DEF LinesRead
<1> QED
  BY <1>10, <1>11, <1>12, <1>13, <1>14, <1>15 DEF LineNext

(* For files of any length and a buffer of any size the lines that are not *)
(* blank yield their parameter and value in order, and a message names its *)
(* line, where the rest of a line that does not fit is a line of its own.  *)
THEOREM LinesAreRead == LineSpec => []ReadsLines
<1>1. LineInv /\ LinesRead => ReadsLines
  <2> SUFFICES ASSUME LineInv, LinesRead, NoNul PROVE
        /\ EntriesRight
        /\ line_ret = "eof" => \A k \in lineno .. Len(Lines) : Lines[k] = <<>>
        /\ line_ret = "non_utf8" => ~IsUtf8(Lines[lineno])
        /\ line_ret = "non_key_value" => EQ \notin ToSet(Lines[lineno]) /\ ~Blanks(Lines[lineno])
    BY DEF ReadsLines, NoNul, EntriesRight
  <2>1. ASSUME line_ret = "eof", NEW k \in lineno .. Len(Lines) PROVE Lines[k] = <<>>
    <3>1. rest = <<>> /\ \E j \in 0 .. Len(file) : Standing(j)
      BY <2>1 DEF LinesRead
    <3>2. PICK j \in 0 .. Len(file) : Standing(j)
      BY <3>1
    <3>3. file \in Files /\ lineno \in Nat \ {0}
      BY DEF LineInv
    <3>4. j = Len(file) /\ Len(file) \in Nat
      <4>1. Len(rest) = Len(file) - j /\ Len(file) \in Nat /\ Len(rest) = 0
        BY <3>1, <3>2, <3>3, RestIs DEF Standing
      <4> QED
        BY <4>1
    <3>5. /\ Starts \subseteq 0 .. Len(file) /\ IsFiniteSet(Starts) /\ Cardinality(Starts) \in Nat
          /\ Len(Lines) = Cardinality(Starts) /\ IsFiniteSet(Earlier(j))
          /\ Cardinality(Earlier(j)) = lineno - 1
      BY <3>2, <3>3, StartsFinite DEF Lines, Standing
    <3>6. Starts = Earlier(j) \cup {j}
      <4>1. Earlier(j) \subseteq Starts /\ \A d \in Starts : d = j \/ d \in Earlier(j)
        BY <3>4, <3>5 DEF Earlier
      <4>2. j \in Starts
        <5> SUFFICES ASSUME j \notin Starts PROVE FALSE
          OBVIOUS
        <5>1. Starts = Earlier(j)
          BY <4>1
        <5>2. Cardinality(Starts) = lineno - 1
          BY <3>5, <5>1
        <5> QED
          BY <2>1, <3>3, <3>5, <5>2
      <4> QED
        BY <4>1, <4>2
    <3>7. Cardinality(Starts) = lineno
      <4>1. j \notin Earlier(j)
        BY <3>4 DEF Earlier
      <4>2. Cardinality(Earlier(j) \cup {j}) = Cardinality(Earlier(j)) + 1
        BY <3>5, <4>1, FS_AddElement
      <4> QED
        BY <3>3, <3>5, <3>6, <4>2
    <3>8. k = lineno /\ k = Cardinality(Earlier(j)) + 1
      BY <2>1, <3>3, <3>5, <3>7
    <3>9. Lines[k] = Before(SubSeq(file, j + 1, NextStart(j)), NL)
      <4>1. j \in Starts
        BY <3>6
      <4> QED
        BY <3>3, <3>8, <4>1, LineAt
    <3>10. NextStart(j) = j
      <4>1. {d \in Starts : d > j} = {}
        <5>1. \A d \in Starts : ~(d > j)
          <6>1. \A d \in 0 .. Len(file) : ~(d > j)
            BY <3>4
          <6> QED
            BY <3>5, <6>1
        <5> QED
          BY <5>1
      <4>2. NextStart(j) = Least({j})
        BY <3>4, <4>1 DEF NextStart
      <4>3. j <= j
        BY <3>4
      <4> QED
        BY <4>2, <4>3 DEF Least
    <3>11. SubSeq(file, j + 1, j) = <<>>
      BY <3>4, SubSeqEmpty
    <3>12. Before(<<>>, NL) = <<>>
      <4>1. <<>> \in Seq({}) /\ Len(<<>>) = 0
        BY EmptySeq
      <4> QED
        BY <4>1, NoneBefore
    <3> QED
      BY <3>9, <3>10, <3>11, <3>12
  <2> QED
    BY <2>1 DEF LinesRead
<1>2. LineInv /\ LinesRead /\ [LineNext]_line_vars => LinesRead'
  BY LinesStep
<1> QED
  BY LineInvariant, LinesStart, <1>1, <1>2, PTL DEF LineSpec


-----------------------------------------------------------------------------
(* The items of a list: TrimList.  A text without the white space at its   *)
(* ends.                                                                   *)
Bare(x, u, v) ==
  /\ u \in 0 .. Len(x) /\ v \in u .. Len(x)
  /\ \A i \in 1 .. Len(x) : i <= u \/ i > v => x[i] \in WHITESPACE
  /\ u < v => x[u + 1] \notin WHITESPACE /\ x[v] \notin WHITESPACE

LEMMA BareExists ==
  ASSUME NEW T, NEW x \in Seq(T)
  PROVE  \E u, v : Bare(x, u, v)
<1>1. PICK v \in 0 .. Len(x) : /\ v = 0 \/ x[v] \notin WHITESPACE
                               /\ \A i \in v + 1 .. Len(x) : x[i] \in WHITESPACE
  BY RTrimIs
<1> DEFINE y == SubSeq(x, 1, v)
<1>2. y \in Seq(T) /\ Len(y) = v /\ \A i \in 1 .. v : y[i] = x[i]
  <2>1. 1 \in 1 .. Len(x) + 1 /\ v \in 0 .. Len(x) /\ 1 <= v + 1 /\ v - 1 + 1 = v /\ \A i \in 1 .. v : 1 + i - 1 = i
    BY <1>1
  <2>2. y \in Seq(T) /\ Len(y) = v - 1 + 1 /\ \A i \in 1 .. v - 1 + 1 : y[i] = x[1 + i - 1]
    BY <2>1, Part
  <2> HIDE DEF y
  <2> QED
    BY <2>1, <2>2
<1> HIDE DEF y
<1>3. PICK k \in 1 .. Len(y) + 1 : /\ k = Len(y) + 1 \/ y[k] \notin WHITESPACE
                                   /\ \A i \in 1 .. k - 1 : y[i] \in WHITESPACE
  BY <1>2, LTrimIs
<1>4. k \in 1 .. v + 1 /\ (k = v + 1 \/ x[k] \notin WHITESPACE) /\ \A i \in 1 .. k - 1 : x[i] \in WHITESPACE
  BY <1>2, <1>3
<1>5. Len(x) \in Nat
  OBVIOUS
<1>6. Bare(x, k - 1, v)
  <2>1. k - 1 \in 0 .. Len(x) /\ v \in k - 1 .. Len(x) /\ (k - 1) + 1 = k
    BY <1>1, <1>4, <1>5
  <2>2. \A i \in 1 .. Len(x) : i <= k - 1 \/ i > v => i \in 1 .. k - 1 \/ i \in v + 1 .. Len(x)
    BY <1>1, <1>4, <1>5
  <2>3. k - 1 < v => x[k] \notin WHITESPACE /\ x[v] \notin WHITESPACE
    BY <1>1, <1>4, <1>5
  <2> QED
    BY <1>1, <1>4, <2>1, <2>2, <2>3 DEF Bare
<1> QED
  BY <1>6

LEMMA TrimIs ==
  ASSUME NEW T, NEW x \in Seq(T), NEW u, NEW v, Bare(x, u, v)
  PROVE  Trim(x) = SubSeq(x, u + 1, v)
<1> DEFINE Cuts == {SubSeq(x, j, k) : j \in 1 .. Len(x) + 1, k \in 0 .. Len(x)}
           IsAt(t, j) == /\ t = SubSeq(x, j + 1, j + Len(t))
                       /\ \A i \in DOMAIN x : i \notin j + 1 .. j + Len(t) => x[i] \in WHITESPACE
           Fine(t) == /\ \A i \in {1, Len(t)} \cap DOMAIN t : t[i] \notin WHITESPACE
                      /\ \E j \in 0 .. Len(x) - Len(t) : IsAt(t, j)
           w == SubSeq(x, u + 1, v)
<1>1. /\ u \in 0 .. Len(x) /\ v \in u .. Len(x) /\ Len(x) \in Nat
      /\ \A i \in 1 .. Len(x) : i <= u \/ i > v => x[i] \in WHITESPACE
      /\ u < v => x[u + 1] \notin WHITESPACE /\ x[v] \notin WHITESPACE
  BY DEF Bare
<1>2. w \in Seq(T) /\ Len(w) = v - u /\ \A k \in 1 .. v - u : w[k] = x[u + k]
  <2> DEFINE a == u + 1
  <2>1. a \in 1 .. Len(x) + 1 /\ v \in 0 .. Len(x) /\ a <= v + 1 /\ v - a + 1 = v - u /\ \A k \in 1 .. v - u : a + k - 1 = u + k
    BY <1>1
  <2> HIDE DEF a
  <2>2. /\ SubSeq(x, a, v) \in Seq(T) /\ Len(SubSeq(x, a, v)) = v - a + 1
        /\ \A k \in 1 .. v - a + 1 : SubSeq(x, a, v)[k] = x[a + k - 1]
    BY <2>1, Part
  <2> QED
    BY <2>1, <2>2 DEF a
<1>3. w \in Cuts
  <2>1. u + 1 \in 1 .. Len(x) + 1 /\ v \in 0 .. Len(x)
    BY <1>1
  <2> DEFINE a == u + 1
  <2> HIDE DEF a
  <2>2. SubSeq(x, a, v) \in Cuts
    <3>1. a \in 1 .. Len(x) + 1
      BY <2>1 DEF a
    <3> QED
      BY <2>1, <3>1
  <2> QED
    <3> HIDE DEF Cuts
    <3> QED
      BY <2>2 DEF a
<1>4. Fine(w)
  <2>1. u \in 0 .. Len(x) - Len(w) /\ u + Len(w) = v
    BY <1>1, <1>2
  <2>2. IsAt(w, u)
    <3>1. \A i \in 1 .. Len(x) : i \notin u + 1 .. v => i <= u \/ i > v
      BY <1>1
    <3>2. DOMAIN x = 1 .. Len(x)
      BY LenProperties
    <3> QED
      BY <1>1, <2>1, <3>1, <3>2
  <2>3. \A i \in {1, Len(w)} \cap DOMAIN w : w[i] \notin WHITESPACE
    <3>1. DOMAIN w = 1 .. v - u
      BY <1>2, LenProperties
    <3>2. ASSUME NEW i \in 1 .. v - u, i = 1 \/ i = v - u PROVE w[i] \notin WHITESPACE
      <4>1. w[i] = x[u + i] /\ u < v /\ (u + i = u + 1 \/ u + i = v)
        BY <1>1, <1>2, <3>2
      <4> QED
        BY <1>1, <4>1
    <3> QED
      BY <1>2, <3>1, <3>2
  <2> HIDE DEF w, IsAt
  <2> QED
    BY <2>1, <2>2, <2>3
<1>5. ASSUME NEW t \in Cuts, Fine(t) PROVE t = w
  <2> HIDE DEF IsAt, Cuts
  <2>1. PICK j \in 0 .. Len(x) - Len(t) : IsAt(t, j)
    BY <1>5
  <2>2. PICK m \in 1 .. Len(x) + 1, k \in 0 .. Len(x) : t = SubSeq(x, m, k)
    BY <1>5 DEF Cuts
  <2>3. t \in Seq(T)
    <3>1. \A i \in m .. k : i \in 1 .. Len(x)
      BY <1>1, <2>2
    <3>2. \A i \in m .. k : x[i] \in T
      BY <3>1, ElementOfSeq
    <3> QED
      BY <2>2, <3>2, SubSeqProperties
  <2>4. Len(t) \in Nat
    BY <2>3, LenProperties
  <2> DEFINE l == Len(t)
  <2>5. l \in Nat /\ j \in 0 .. Len(x) /\ j + l <= Len(x)
    BY <1>1, <2>1, <2>4
  <2>6. \A i \in 1 .. Len(x) : i \notin j + 1 .. j + l => x[i] \in WHITESPACE
    <3>1. DOMAIN x = 1 .. Len(x)
      BY LenProperties
    <3> QED
      BY <2>1, <3>1 DEF IsAt
  <2>7. t = SubSeq(x, j + 1, j + l)
    BY <2>1 DEF IsAt
  <2>8. \A i \in 1 .. l : t[i] = x[j + i]
    <3> DEFINE a == j + 1
               b == j + l
    <3>1. a \in 1 .. Len(x) + 1 /\ b \in 0 .. Len(x) /\ a <= b + 1 /\ b - a + 1 = l /\ \A i \in 1 .. l : a + i - 1 = j + i
      <4>1. Len(x) \in Nat
        BY <1>1
      <4> HIDE DEF l
      <4>2. l \in Nat /\ j \in Nat /\ j + l <= Len(x)
        BY <2>5
      <4>3. a \in 1 .. Len(x) + 1 /\ b \in 0 .. Len(x)
        BY ONLY <4>1, <4>2 DEF a, b
      <4>4. a <= b + 1 /\ b - a + 1 = l
        BY ONLY <4>2 DEF a, b
      <4>5. \A i \in 1 .. l : a + i - 1 = j + i
        BY ONLY <4>2 DEF a
      <4> QED
        BY <4>3, <4>4, <4>5
    <3>2. t = SubSeq(x, a, b)
      BY <2>7
    <3> HIDE DEF a, b, l
    <3>3. \A i \in 1 .. b - a + 1 : SubSeq(x, a, b)[i] = x[a + i - 1]
      BY <3>1, Part
    <3> QED
      BY <3>1, <3>2, <3>3
  <2>9. l > 0 => t[1] \notin WHITESPACE /\ t[l] \notin WHITESPACE
    <3>1. l > 0 => 1 \in DOMAIN t /\ l \in DOMAIN t
      <4>1. DOMAIN t = 1 .. l
        BY <2>3, LenProperties
      <4> QED
        BY <2>4, <4>1
    <3>2. \A i \in {1, l} \cap DOMAIN t : t[i] \notin WHITESPACE
      BY <1>5
    <3> QED
      BY <3>1, <3>2
  <2> HIDE DEF l
  <2>10. CASE l = 0
    <3>1. \A i \in 1 .. Len(x) : x[i] \in WHITESPACE
      BY <2>5, <2>6, <2>10
    <3>2. u = v
      <4> SUFFICES ASSUME u < v PROVE FALSE
        BY <1>1
      <4>1. u + 1 \in 1 .. Len(x)
        BY <1>1
      <4> QED
        BY <1>1, <3>1, <4>1
    <3>3. w = <<>> /\ t = <<>>
      <4>1. j + 1 \in Int /\ j + l \in Int /\ j + l < j + 1 /\ u + 1 \in Int /\ v \in Int /\ v < u + 1
        BY <1>1, <2>5, <2>10, <3>2
      <4> QED
        BY <2>7, <4>1, SubSeqEmpty
    <3> QED
      BY <3>3
  <2>11. CASE l > 0
    <3>1. x[j + 1] \notin WHITESPACE /\ x[j + l] \notin WHITESPACE /\ j + 1 \in 1 .. Len(x) /\ j + l \in 1 .. Len(x)
      <4>1. 1 \in 1 .. l /\ l \in 1 .. l /\ j + 1 \in 1 .. Len(x) /\ j + l \in 1 .. Len(x)
        BY <1>1, <2>5, <2>11
      <4> QED
        BY <2>8, <2>9, <2>11, <4>1
    <3>2. u < j + 1 /\ j + l <= v
      BY <1>1, <2>5, <3>1
    <3>3. u < v /\ u + 1 \in 1 .. Len(x) /\ v \in 1 .. Len(x)
      BY <1>1, <2>5, <2>11, <3>2
    <3>4. u + 1 \in j + 1 .. j + l /\ v \in j + 1 .. j + l
      BY <1>1, <2>6, <3>3
    <3>5. j = u /\ j + l = v
      BY <1>1, <2>5, <3>2, <3>4
    <3> QED
      BY <2>7, <3>5
  <2> QED
    BY <2>5, <2>10, <2>11
<1>6. Trim(x) = CHOOSE t \in Cuts : Fine(t)
  BY DEF Trim
<1> HIDE DEF Cuts, Fine, w
<1>7. Trim(x) \in Cuts /\ Fine(Trim(x))
  BY <1>3, <1>4, <1>6
<1> QED
  BY <1>5, <1>7 DEF w

LEMMA TrimIsString ==
  ASSUME NEW T, NEW x \in Seq(T)
  PROVE  Trim(x) \in Seq(T)
<1>1. PICK u, v : Bare(x, u, v)
  BY BareExists
<1>2. Trim(x) = SubSeq(x, u + 1, v)
  BY <1>1, TrimIs
<1>3. u + 1 \in Int /\ v \in Int /\ \A i \in u + 1 .. v : i \in 1 .. Len(x)
  BY <1>1 DEF Bare
<1>4. \A i \in u + 1 .. v : x[i] \in T
  BY <1>3, ElementOfSeq
<1> QED
  BY <1>2, <1>3, <1>4, SubSeqProperties

(* An item that ends at e begins after the last delimiter before e.        *)
Begins(s, e, b) ==
  b \in 0 .. e - 1 /\ (b = 0 \/ s[b] = DELIMITER) /\ \A i \in b + 1 .. e - 1 : s[i] # DELIMITER

LEMMA BeginsOnce ==
  ASSUME NEW s, NEW e \in Nat, NEW b, NEW m, Begins(s, e, b), Begins(s, e, m)
  PROVE  b = m
<1>1. b \in Nat /\ m \in Nat /\ b <= e - 1 /\ m <= e - 1
  BY DEF Begins
<1>2. ~(b < m)
  <2> SUFFICES ASSUME b < m PROVE FALSE
    OBVIOUS
  <2>1. m \in b + 1 .. e - 1 /\ m # 0
    BY <1>1
  <2> QED
    BY <2>1 DEF Begins
<1>3. ~(m < b)
  <2> SUFFICES ASSUME m < b PROVE FALSE
    OBVIOUS
  <2>1. b \in m + 1 .. e - 1 /\ b # 0
    BY <1>1
  <2> QED
    BY <2>1 DEF Begins
<1> QED
  BY <1>1, <1>2, <1>3

LEMMA ItemStartIs ==
  ASSUME NEW T, NEW s \in Seq(T), NEW e \in 1 .. Len(s) + 1
  PROVE  Begins(s, e, ItemStart(s, e))
<1> DEFINE m == Len(s)
           Back == {k \in Nat : k < e /\ (e - 1 - k = 0 \/ s[e - 1 - k] = DELIMITER)}
           Last1(d) == d \in ItemEnds(s) /\ d < e /\ \A x \in ItemEnds(s) : x < e => x <= d
<1>1. m \in Nat /\ e \in Nat \ {0} /\ e <= m + 1
  OBVIOUS
<1>2. DOMAIN s = 1 .. m
  BY LenProperties
<1>3. \A d : d \in ItemEnds(s) /\ d < e <=> d \in 1 .. e - 1 /\ s[d] = DELIMITER
  BY <1>1, <1>2 DEF ItemEnds
<1> HIDE DEF m
<1>4. Back \in SUBSET Nat /\ Back # {}
  <2>1. e - 1 \in Back
    BY <1>1
  <2> QED
    BY <2>1
<1>5. PICK k \in Back : \A l \in Back : k <= l
  <2> HIDE DEF Back
  <2> QED
    BY <1>4, LeastNumber
<1> DEFINE b == e - 1 - k
<1>6. b \in 0 .. e - 1 /\ (b = 0 \/ s[b] = DELIMITER)
  BY <1>1, <1>5
<1>7. \A i \in b + 1 .. e - 1 : s[i] # DELIMITER
  <2> SUFFICES ASSUME NEW i \in b + 1 .. e - 1, s[i] = DELIMITER PROVE FALSE
    OBVIOUS
  <2>1. e - 1 - i \in Nat /\ e - 1 - i < k /\ e - 1 - (e - 1 - i) = i /\ e - 1 - i < e
    BY <1>1, <1>6
  <2>2. e - 1 - i \in Back
    BY <2>1
  <2> HIDE DEF Back
  <2>3. k <= e - 1 - i
    BY <1>5, <2>2
  <2> QED
    BY <1>1, <1>4, <1>5, <2>1, <2>3
<1> HIDE DEF b, Back
<1>8. CASE b = 0
  <2>1. ~\E d \in ItemEnds(s) : d < e
    <3> SUFFICES ASSUME NEW d \in ItemEnds(s), d < e PROVE FALSE
      OBVIOUS
    <3>1. d \in 1 .. e - 1 /\ s[d] = DELIMITER
      BY <1>3
    <3>2. d \in b + 1 .. e - 1
      BY <1>8, <3>1
    <3> QED
      BY <1>7, <3>1, <3>2
  <2>2. ItemStart(s, e) = b
    BY <1>8, <2>1 DEF ItemStart
  <2> QED
    BY <1>6, <1>7, <2>2 DEF Begins
<1>9. CASE b # 0
  <2>1. b \in 1 .. e - 1 /\ s[b] = DELIMITER
    BY <1>1, <1>6, <1>9
  <2>2. b \in ItemEnds(s) /\ b < e
    BY <1>3, <2>1
  <2>3. Last1(b)
    <3> SUFFICES ASSUME NEW x \in ItemEnds(s), x < e PROVE x <= b
      BY <2>2
    <3>1. x \in 1 .. e - 1 /\ s[x] = DELIMITER
      BY <1>3
    <3>2. x \notin b + 1 .. e - 1
      BY <1>7, <3>1
    <3> QED
      BY <1>1, <2>1, <3>1, <3>2
  <2>4. \A d : Last1(d) => d = b
    <3> SUFFICES ASSUME NEW d, Last1(d) PROVE d = b
      OBVIOUS
    <3>1. d <= b /\ b <= d
      BY <2>2, <2>3
    <3>2. d \in 1 .. e - 1
      BY <1>3
    <3> QED
      BY <2>1, <3>1, <3>2
  <2>5. ItemStart(s, e) = CHOOSE d \in ItemEnds(s) : d < e /\ \A x \in ItemEnds(s) : x < e => x <= d
    BY <2>2 DEF ItemStart
  <2>6. ItemStart(s, e) = b
    BY <2>3, <2>4, <2>5
  <2> QED
    BY <1>6, <1>7, <2>6 DEF Begins
<1> QED
  BY <1>8, <1>9

LEMMA ItemIsString ==
  ASSUME NEW T, NEW s \in Seq(T), NEW e \in 1 .. Len(s) + 1
  PROVE  Item(s, e) \in Seq(T)
<1> DEFINE b == ItemStart(s, e)
           x == SubSeq(s, b + 1, e - 1)
<1>1. b \in 0 .. e - 1
  BY ItemStartIs DEF Begins
<1>2. b + 1 \in Int /\ e - 1 \in Int /\ \A i \in b + 1 .. e - 1 : i \in 1 .. Len(s)
  <2> HIDE DEF b
  <2> QED
    BY <1>1
<1>3. \A i \in b + 1 .. e - 1 : s[i] \in T
  BY <1>2, ElementOfSeq
<1>4. x \in Seq(T)
  <2> HIDE DEF b
  <2> QED
    BY <1>2, <1>3, SubSeqProperties
<1>5. Item(s, e) = Trim(x)
  BY DEF Item
<1> HIDE DEF x
<1> QED
  BY <1>4, <1>5, TrimIsString

(* The items that end up to e, joined.                                     *)
Joint(s, e, w) ==
  IF e \notin ItemEnds(s) THEN w
  ELSE w \o (IF ItemStart(s, e) = 0 THEN <<>> ELSE <<DELIMITER>>) \o Item(s, e)
Joins(J, T, s) ==
  /\ J \in [0 .. Len(s) + 1 -> Seq(T)] /\ J[0] = <<>>
  /\ \A e \in 1 .. Len(s) + 1 : J[e] = Joint(s, e, J[e - 1])

LEMMA JointIsString ==
  ASSUME NEW T, NEW s \in Seq(T), DELIMITER \in T, NEW e \in 1 .. Len(s) + 1, NEW w \in Seq(T)
  PROVE  Joint(s, e, w) \in Seq(T)
<1> DEFINE d == IF ItemStart(s, e) = 0 THEN <<>> ELSE <<DELIMITER>>
<1>1. Item(s, e) \in Seq(T)
  BY ItemIsString
<1>2. d \in Seq(T)
  OBVIOUS
<1> HIDE DEF d
<1>3. w \o d \in Seq(T)
  BY <1>2, ConcatProperties
<1>4. (w \o d) \o Item(s, e) \in Seq(T)
  BY <1>1, <1>3, ConcatProperties
<1> QED
  BY <1>4 DEF Joint, d

LEMMA ItemsAre ==
  ASSUME NEW T, NEW s \in Seq(T), DELIMITER \in T
  PROVE  \E J : Joins(J, T, s) /\ Items(s) = J[Len(s) + 1]
<1> DEFINE m == Len(s) + 1
           step == [e \in 1 .. m |-> [w \in Seq(T) |-> Joint(s, e, w)]]
           Equation(g) == g = [e \in 0 .. m |-> IF e = 0 THEN <<>> ELSE Joint(s, e, g[e - 1])]
           J == CHOOSE g : Equation(g)
<1>1. m \in Nat \ {0} /\ <<>> \in Seq(T)
  BY EmptySeq
<1>2. \A e \in 0 + 1 .. m : step[e] \in [Seq(T) -> Seq(T)]
  BY <1>1, JointIsString
<1>3. PICK g : Solves(g, 0, m, Seq(T), <<>>, step)
  <2> HIDE DEF m, step
  <2>1. 0 \in Int /\ m \in Int /\ 0 <= m
    BY <1>1
  <2> QED
    BY ONLY <1>1, <1>2, <2>1, Recursion
<1>4. g \in [0 .. m -> Seq(T)] /\ g[0] = <<>> /\ \A e \in 0 + 1 .. m : g[e] = step[e][g[e - 1]]
  BY <1>3 DEF Solves
<1>5. ASSUME NEW e \in 1 .. m PROVE e - 1 \in 0 .. m /\ g[e] = Joint(s, e, g[e - 1])
  <2>1. e - 1 \in 0 .. m /\ e \in 0 + 1 .. m
    BY <1>1
  <2>2. g[e - 1] \in Seq(T)
    BY <1>4, <2>1
  <2>3. g[e] = step[e][g[e - 1]]
    BY <1>4, <2>1
  <2>4. step[e] = [w \in Seq(T) |-> Joint(s, e, w)]
    OBVIOUS
  <2> QED
    BY <2>1, <2>2, <2>3, <2>4
<1>6. Equation(g)
  <2> HIDE DEF m
  <2>1. g = [e \in 0 .. m |-> g[e]]
    BY <1>4
  <2>2. \A e \in 0 .. m : e # 0 => e \in 1 .. m
    BY <1>1
  <2>3. \A e \in 0 .. m : g[e] = IF e = 0 THEN <<>> ELSE Joint(s, e, g[e - 1])
    BY <1>4, <1>5, <2>2
  <2> QED
    BY <2>1, <2>3
<1>7. Equation(J)
  BY <1>6
<1>8. Items(s) = J[m]
  BY DEF Items, Joint
<1> HIDE DEF J
<1>9. J[0] = <<>> /\ \A e \in 1 .. m : J[e] = Joint(s, e, J[e - 1])
  <2>1. ASSUME NEW e \in 0 .. m PROVE J[e] = IF e = 0 THEN <<>> ELSE Joint(s, e, J[e - 1])
    BY <1>7
  <2>2. 0 \in 0 .. m /\ \A e \in 1 .. m : e \in 0 .. m /\ e # 0
    BY <1>1
  <2> HIDE DEF m, Equation
  <2> QED
    BY <2>1, <2>2
<1> DEFINE S == {k \in Nat : k <= m => J[k] \in Seq(T)}
<1>10. \A k \in Nat : k \in S
  <2>1. 0 \in S
    BY <1>1, <1>9
  <2>2. ASSUME NEW k \in Nat, k \in S PROVE k + 1 \in S
    <3> SUFFICES ASSUME k + 1 <= m PROVE J[k + 1] \in Seq(T)
      OBVIOUS
    <3>1. k + 1 \in 1 .. m /\ (k + 1) - 1 = k /\ J[k] \in Seq(T)
      BY <1>1, <2>2
    <3>2. J[k + 1] = Joint(s, k + 1, J[k])
      BY <1>9, <3>1
    <3> QED
      BY <3>1, <3>2, JointIsString
  <2> HIDE DEF S
  <2> QED
    BY <2>1, <2>2, InductionOnSet
<1>11. J = [e \in 0 .. m |-> J[e]]
  BY <1>7
<1>12. \A e \in 0 .. m : J[e] \in Seq(T)
  BY <1>1, <1>10
<1>13. J \in [0 .. m -> Seq(T)]
  BY <1>11, <1>12
<1> QED
  BY <1>8, <1>9, <1>13 DEF Joins

-----------------------------------------------------------------------------
(* The characters of the list.                                             *)
Letters == {original[i] : i \in Positions} \cup {DELIMITER}

LEMMA TextIs ==
  ASSUME original \in Lists
  PROVE  \E z \in Nat :
           /\ Positions = 0 .. z /\ Last0(original) = z
           /\ \A i \in 0 .. z : original[i] = ZERO <=> i = z
           /\ Text(original) \in Seq(Letters) /\ Len(Text(original)) = z
           /\ \A i \in 1 .. z : Text(original)[i] = original[i - 1]
<1>1. PICK z \in Nat : Positions = 0 .. z /\ \A i \in 0 .. z : original[i] = ZERO <=> i = z
  BY ListShape
<1>2. DOMAIN original = 0 .. z
  BY <1>1 DEF Positions
<1>3. Last0(original) = z
  <2>1. z \in DOMAIN original /\ z + 1 \notin DOMAIN original
    BY <1>2
  <2>2. \A d \in DOMAIN original : d + 1 \notin DOMAIN original => d = z
    BY <1>2
  <2> QED
    BY <2>1, <2>2 DEF Last0
<1>4. Text(original) = [i \in 1 .. z |-> original[i - 1]]
  BY <1>3 DEF Text
<1>5. \A i \in 1 .. z : original[i - 1] \in Letters
  <2> SUFFICES ASSUME NEW i \in 1 .. z PROVE original[i - 1] \in Letters
    OBVIOUS
  <2>1. i - 1 \in Positions
    BY <1>1
  <2> QED
    BY <2>1 DEF Letters
<1>6. Text(original) \in Seq(Letters) /\ Len(Text(original)) = z
  BY <1>4, <1>5, IsASeq
<1> QED
  BY <1>1, <1>3, <1>4, <1>6

(* What has been written: w, and the characters read from u to v.          *)
Written(w, u, v) ==
  /\ w \in Seq(Letters) /\ out = Len(w) + (v - u)
  /\ \A i \in 1 .. Len(w) : list[i - 1] = w[i]
  /\ \A k \in 0 .. v - u - 1 : list[Len(w) + k] = original[u + k]

(* What comes before the item that begins at b.                            *)
Was(J, b) == IF b = 0 THEN <<>> ELSE J[b] \o <<DELIMITER>>

(* The item being read begins at b.                                        *)
AtItem(J, b) ==
  /\ b \in 0 .. in /\ (b = 0 \/ original[b - 1] = DELIMITER)
  /\ \A i \in b .. in - 1 : original[i] # DELIMITER
  /\ J[in] = J[b]

(* How much of it has been read, and what has been kept of that.           *)
Kept(J, b, u, v) ==
  /\ AtItem(J, b) /\ u \in b .. in /\ v \in u .. in
  /\ \A i \in b .. in - 1 : i < u \/ i >= v => original[i] \in WHITESPACE
  /\ Written(Was(J, b), u, v)

Joining(J) ==
  /\ trim_pc = "item" =>
       \/ (in = 0 \/ original[in - 1] = DELIMITER) /\ Written(Was(J, in), 0, 0)
       \/ original[in] = ZERO /\ Written(J[in + 1], 0, 0)
  /\ trim_pc = "leading" => \E b : Kept(J, b, in, in)
  /\ trim_pc = "copy" => \E b, u : Kept(J, b, u, in) /\ original[u] \notin WHITESPACE
  /\ trim_pc = "trailing" =>
       /\ original[in] \in {DELIMITER, ZERO}
       /\ \E b, u, v : Kept(J, b, u, v) /\ original[u] \notin WHITESPACE
  /\ trim_pc = "delimiter" => original[in] \in {DELIMITER, ZERO} /\ Written(J[in + 1], 0, 0)
  /\ trim_pc = "done" => Written(J[Last0(original) + 1], 0, 0) /\ list[out] = ZERO

TrimJoins == \A J : Joins(J, Letters, Text(original)) => Joining(J)

(* An item that has been read to its end is joined to those before it.     *)
LEMMA ItemJoined ==
  ASSUME TrimInv, NEW J, Joins(J, Letters, Text(original)), NEW b, NEW u, NEW v,
         Kept(J, b, u, v), original[in] \in {DELIMITER, ZERO},
         u < v => original[u] \notin WHITESPACE /\ original[v - 1] \notin WHITESPACE
  PROVE  Written(J[in + 1], 0, 0)
<1> DEFINE s == Text(original)
           x == SubSeq(s, b + 1, in)
           e == in + 1
<1>1. PICK z \in Nat :
        /\ Positions = 0 .. z /\ \A i \in 0 .. z : original[i] = ZERO <=> i = z
        /\ s \in Seq(Letters) /\ Len(s) = z /\ \A i \in 1 .. z : s[i] = original[i - 1]
  BY TextIs DEF TrimInv
<1>2. in \in 0 .. z /\ e \in 1 .. z + 1 /\ e - 1 = in
  BY <1>1 DEF TrimInv, TrimTypeOK
<1>3. /\ b \in 0 .. in /\ (b = 0 \/ original[b - 1] = DELIMITER) /\ J[in] = J[b]
      /\ \A i \in b .. in - 1 : original[i] # DELIMITER
      /\ u \in b .. in /\ v \in u .. in
      /\ \A i \in b .. in - 1 : i < u \/ i >= v => original[i] \in WHITESPACE
      /\ Written(Was(J, b), u, v)
  BY DEF Kept, AtItem
<1>0. /\ b \in Nat /\ u \in Nat /\ v \in Nat /\ in \in Nat
      /\ b <= u /\ u <= v /\ v <= in
  BY <1>2, <1>3
<1>4. /\ J \in [0 .. z + 1 -> Seq(Letters)] /\ J[0] = <<>>
      /\ J[e] = Joint(s, e, J[in])
  BY <1>1, <1>2 DEF Joins
<1> HIDE DEF s, e
<1>5. ItemStart(s, e) = b
  <2>1. Begins(s, e, b)
    <3>1. b # 0 => b \in 1 .. z /\ s[b] = original[b - 1]
      BY <1>1, <1>2, <1>3
    <3>2. \A i \in b + 1 .. e - 1 : i \in 1 .. z /\ i - 1 \in b .. in - 1
      BY <1>2, <1>3
    <3>3. \A i \in b + 1 .. e - 1 : s[i] # DELIMITER
      BY <1>1, <1>3, <3>2
    <3> QED
      BY <1>2, <1>3, <3>1, <3>3 DEF Begins
  <2>2. Begins(s, e, ItemStart(s, e))
    BY <1>1, <1>2, ItemStartIs
  <2> QED
    BY <1>2, <2>1, <2>2, BeginsOnce
<1>6. e \in ItemEnds(s)
  <2>1. CASE in = z
    BY <1>1, <2>1 DEF ItemEnds, e
  <2>2. CASE in # z
    <3>1. e \in 1 .. z /\ s[e] = original[in] /\ original[in] = DELIMITER
      BY <1>1, <1>2, <2>2
    <3>2. DOMAIN s = 1 .. z
      BY <1>1, LenProperties
    <3> QED
      BY <3>1, <3>2 DEF ItemEnds
  <2> QED
    BY <2>1, <2>2
<1>7. x \in Seq(Letters) /\ Len(x) = in - b /\ \A k \in 1 .. in - b : x[k] = original[b + k - 1]
  <2> DEFINE a == b + 1
  <2>1. a \in 1 .. z + 1 /\ in \in 0 .. z /\ a <= in + 1 /\ in - a + 1 = in - b
        /\ \A k \in 1 .. in - b : a + k - 1 = b + k /\ b + k \in 1 .. z
    BY <1>2, <1>3
  <2> HIDE DEF a
  <2>2. /\ SubSeq(s, a, in) \in Seq(Letters) /\ Len(SubSeq(s, a, in)) = in - a + 1
        /\ \A k \in 1 .. in - a + 1 : SubSeq(s, a, in)[k] = s[a + k - 1]
    BY <1>1, <2>1, Part
  <2>3. x = SubSeq(s, a, in)
    BY DEF a
  <2> HIDE DEF x
  <2>4. \A k \in 1 .. in - b : x[k] = s[b + k]
    BY <2>1, <2>2, <2>3
  <2>5. ASSUME NEW k \in 1 .. in - b PROVE s[b + k] = original[b + k - 1]
    <3> DEFINE i == b + k
    <3>1. i \in 1 .. z /\ i - 1 = b + k - 1
      BY <1>0, <2>1
    <3> HIDE DEF i
    <3>2. s[i] = original[i - 1]
      BY <1>1, <3>1
    <3> QED
      BY <3>1, <3>2 DEF i
  <2> QED
    BY <2>1, <2>2, <2>3, <2>4, <2>5
<1>8. Item(s, e) = Trim(x)
  BY <1>2, <1>5 DEF Item
<1> HIDE DEF x
<1> DEFINE from == u - b
           to == v - b
           t == SubSeq(x, from + 1, to)
<1>9. Bare(x, from, to)
  <2>1. from \in 0 .. Len(x) /\ to \in from .. Len(x)
    BY <1>0, <1>7
  <2>2. ASSUME NEW i \in 1 .. Len(x), i <= from \/ i > to PROVE x[i] \in WHITESPACE
    <3>1. i \in 1 .. in - b
      BY <1>7
    <3>2. b + i - 1 \in b .. in - 1 /\ (b + i - 1 < u \/ b + i - 1 >= v)
      BY <1>0, <2>2, <3>1
    <3> QED
      BY <1>3, <1>7, <3>1, <3>2
  <2>3. from < to => x[from + 1] \notin WHITESPACE /\ x[to] \notin WHITESPACE
    <3> SUFFICES ASSUME from < to PROVE x[from + 1] \notin WHITESPACE /\ x[to] \notin WHITESPACE
      OBVIOUS
    <3>1. u < v /\ from + 1 \in 1 .. in - b /\ to \in 1 .. in - b /\ b + (from + 1) - 1 = u /\ b + to - 1 = v - 1
      BY <1>0
    <3>2. x[from + 1] = original[u] /\ x[to] = original[v - 1]
      BY <1>7, <3>1
    <3> QED
      BY <3>1, <3>2
  <2> HIDE DEF from, to
  <2> QED
    BY <2>1, <2>2, <2>3 DEF Bare
<1>10. t \in Seq(Letters) /\ Len(t) = v - u /\ \A k \in 1 .. v - u : t[k] = original[u + k - 1]
  <2> DEFINE a == from + 1
  <2>1. a \in 1 .. Len(x) + 1 /\ to \in 0 .. Len(x) /\ a <= to + 1 /\ to - a + 1 = v - u
        /\ \A k \in 1 .. v - u : a + k - 1 \in 1 .. in - b /\ b + (a + k - 1) - 1 = u + k - 1
    BY <1>0, <1>7
  <2>2. t = SubSeq(x, a, to)
    OBVIOUS
  <2> HIDE DEF a, from, to, t
  <2>3. t \in Seq(Letters) /\ Len(t) = to - a + 1 /\ \A k \in 1 .. to - a + 1 : t[k] = x[a + k - 1]
    BY <1>7, <2>1, <2>2, Part
  <2>4. \A k \in 1 .. v - u : t[k] = x[a + k - 1]
    BY <2>1, <2>3
  <2> QED
    BY <1>7, <2>1, <2>3, <2>4
<1>11. Trim(x) = t
  <2> HIDE DEF from, to
  <2> QED
    BY <1>7, <1>9, TrimIs
<1> HIDE DEF from, to, t
<1> DEFINE w == Was(J, b)
<1>12. w \in Seq(Letters) /\ J[e] = w \o t
  <2>1. J[b] \in Seq(Letters) /\ <<DELIMITER>> \in Seq(Letters) /\ <<>> \in Seq(Letters)
    <3>1. b \in 0 .. z + 1 /\ DELIMITER \in Letters
      BY <1>2, <1>3 DEF Letters
    <3> QED
      BY <1>4, <3>1
  <2>2. J[e] = (J[b] \o (IF b = 0 THEN <<>> ELSE <<DELIMITER>>)) \o t
    BY <1>3, <1>4, <1>5, <1>6, <1>8, <1>11 DEF Joint
  <2>3. w = J[b] \o (IF b = 0 THEN <<>> ELSE <<DELIMITER>>)
    <3>1. CASE b = 0
      BY <1>4, <2>1, <3>1, ConcatEmptySeq DEF Was
    <3>2. CASE b # 0
      BY <3>2 DEF Was
    <3> QED
      BY <3>1, <3>2
  <2> QED
    BY <1>3, <2>2, <2>3 DEF Written
<1> HIDE DEF w
<1>13. /\ out = Len(w) + (v - u) /\ (\A i \in 1 .. Len(w) : list[i - 1] = w[i])
       /\ \A k \in 0 .. v - u - 1 : list[Len(w) + k] = original[u + k]
  BY <1>3 DEF Written, w
<1> DEFINE y == w \o t
<1>14. /\ y \in Seq(Letters) /\ Len(y) = Len(w) + Len(t)
       /\ \A i \in 1 .. Len(w) + Len(t) : y[i] = IF i <= Len(w) THEN w[i] ELSE t[i - Len(w)]
  BY <1>10, <1>12, ConcatProperties
<1> HIDE DEF y
<1>15. Len(y) = out /\ Len(w) \in Nat
  BY <1>10, <1>12, <1>13, <1>14
<1>16. ASSUME NEW i \in 1 .. Len(y) PROVE list[i - 1] = y[i]
  <2>1. CASE i <= Len(w)
    <3>1. i \in 1 .. Len(w) /\ i \in 1 .. Len(w) + Len(t)
      BY <1>14, <1>15, <2>1
    <3> QED
      BY <1>13, <1>14, <2>1, <3>1
  <2>2. CASE i > Len(w)
    <3> DEFINE k == i - Len(w) - 1
    <3>1. /\ k \in 0 .. v - u - 1 /\ Len(w) + k = i - 1 /\ i - Len(w) = k + 1
          /\ k + 1 \in 1 .. v - u /\ u + (k + 1) - 1 = u + k /\ i \in 1 .. Len(w) + Len(t) /\ ~(i <= Len(w))
      BY <1>3, <1>10, <1>14, <1>15, <2>2
    <3> HIDE DEF k
    <3>2. list[i - 1] = original[u + k]
      BY <1>13, <3>1
    <3>3. y[i] = t[k + 1]
      BY <1>14, <3>1
    <3>4. t[k + 1] = original[u + k]
      BY <1>10, <3>1
    <3> QED
      BY <3>2, <3>3, <3>4
  <2> QED
    BY <1>15, <2>1, <2>2
<1>17. J[in + 1] = y
  BY <1>12 DEF y, e
<1> QED
  BY <1>14, <1>15, <1>16, <1>17 DEF Written

(* No item ends at a character that is neither a delimiter nor the NUL.    *)
LEMMA NoItemEnds ==
  ASSUME TrimInv, NEW J, Joins(J, Letters, Text(original)), original[in] \notin {DELIMITER, ZERO}
  PROVE  J[in + 1] = J[in]
<1> DEFINE s == Text(original)
           e == in + 1
<1>1. PICK z \in Nat :
        /\ Positions = 0 .. z /\ \A i \in 0 .. z : original[i] = ZERO <=> i = z
        /\ Len(s) = z /\ \A i \in 1 .. z : s[i] = original[i - 1]
  BY TextIs DEF TrimInv
<1>2. in \in 0 .. z /\ in # z
  BY <1>1 DEF TrimInv, TrimTypeOK
<1>3. e \in 1 .. z /\ e # z + 1 /\ e - 1 = in
  BY <1>1, <1>2
<1> HIDE DEF s, e
<1>4. s[e] # DELIMITER
  BY <1>1, <1>3
<1>5. e \notin ItemEnds(s)
  BY <1>1, <1>3, <1>4 DEF ItemEnds
<1>6. e \in 1 .. Len(s) + 1
  BY <1>1, <1>3
<1>7. J[e] = Joint(s, e, J[e - 1])
  BY <1>6 DEF Joins, s
<1> QED
  BY <1>3, <1>5, <1>7 DEF Joint, e

(* A step that copies a character of an item.                              *)
LEMMA KeptCopied ==
  ASSUME TrimInv, trim_pc # "done", NEW J, Joins(J, Letters, Text(original)),
         NEW b, NEW u, Kept(J, b, u, in),
         list[in] \notin {DELIMITER, ZERO}, CopyChar, original' = original
  PROVE  Kept(J, b, u, in)'
<1>1. PICK z \in Nat : Positions = 0 .. z
  BY ListShape DEF TrimInv
<1> DEFINE w == Was(J, b)
<1>2. /\ in \in 0 .. z /\ out \in 0 .. z /\ DOMAIN list = 0 .. z
      /\ list[in] = original[in]
  BY <1>1 DEF TrimInv, TrimTypeOK, InPlace
<1>3. /\ list' = [list EXCEPT ![out] = list[in]] /\ in' = in + 1 /\ out' = out + 1
  BY DEF CopyChar
<1>4. /\ b \in 0 .. in /\ (b = 0 \/ original[b - 1] = DELIMITER) /\ J[in] = J[b]
      /\ \A i \in b .. in - 1 : original[i] # DELIMITER
      /\ u \in b .. in
      /\ \A i \in b .. in - 1 : i < u \/ i >= in => original[i] \in WHITESPACE
      /\ w \in Seq(Letters) /\ out = Len(w) + (in - u)
      /\ \A i \in 1 .. Len(w) : list[i - 1] = w[i]
      /\ \A k \in 0 .. in - u - 1 : list[Len(w) + k] = original[u + k]
  BY DEF Kept, AtItem, Written
<1>5. J[in + 1] = J[in]
  BY <1>2, NoItemEnds
<1>6. AtItem(J, b)'
  <2>0. in' = in + 1
    BY <1>3
  <2>1. b \in 0 .. in' /\ \A i \in b .. in' - 1 : i \in b .. in - 1 \/ i = in
    BY <1>2, <1>4, <2>0
  <2>2. \A i \in b .. in' - 1 : original[i] # DELIMITER
    BY <1>2, <1>4, <2>1
  <2>3. J[in'] = J[b]
    BY <1>4, <1>5, <2>0
  <2> QED
    BY <1>4, <2>1, <2>2, <2>3 DEF AtItem
<1>7. u \in b .. in' /\ in' \in u .. in'
  BY <1>2, <1>3, <1>4
<1>8. \A i \in b .. in' - 1 : i < u \/ i >= in' => original'[i] \in WHITESPACE
  <2> SUFFICES ASSUME NEW i \in b .. in' - 1, i < u \/ i >= in' PROVE original[i] \in WHITESPACE
    OBVIOUS
  <2>1. i \in b .. in - 1 /\ i < u
    BY <1>2, <1>3, <1>4
  <2> QED
    BY <1>4, <2>1
<1>9. Letters' = Letters
  BY DEF Letters, Positions
<1> HIDE DEF w
<1>10. Len(w) \in Nat /\ Len(w) <= out /\ u \in Nat /\ in \in Nat /\ u <= in
  BY <1>2, <1>4
<1>11. out' = Len(w) + (in' - u)
  BY <1>3, <1>4, <1>10
<1>12. \A i \in 1 .. Len(w) : list'[i - 1] = w[i]
  <2> SUFFICES ASSUME NEW i \in 1 .. Len(w) PROVE list'[i - 1] = w[i]
    OBVIOUS
  <2>1. i - 1 \in 0 .. z /\ i - 1 # out
    BY <1>2, <1>10
  <2> QED
    BY <1>2, <1>3, <1>4, <2>1
<1>13. \A k \in 0 .. in' - u - 1 : list'[Len(w) + k] = original'[u + k]
  <2> SUFFICES ASSUME NEW k \in 0 .. in' - u - 1 PROVE list'[Len(w) + k] = original[u + k]
    OBVIOUS
  <2>1. CASE k = in - u
    <3>1. Len(w) + k = out /\ u + k = in
      BY <1>4, <1>10, <2>1
    <3> QED
      BY <1>2, <1>3, <3>1
  <2>2. CASE k # in - u
    <3>0. in' = in + 1 /\ out = Len(w) + (in - u) /\ out <= z
      BY <1>2, <1>3, <1>4
    <3>1. k \in 0 .. in - u - 1 /\ Len(w) + k \in 0 .. z /\ Len(w) + k # out
      BY <1>1, <1>10, <2>2, <3>0
    <3>2. list[Len(w) + k] = original[u + k]
      BY <1>4, <3>1
    <3> QED
      BY <1>2, <1>3, <3>1, <3>2
  <2> QED
    BY <2>1, <2>2
<1>14. Written(w, u, in)'
  BY <1>4, <1>9, <1>11, <1>12, <1>13 DEF Written
<1> QED
  BY <1>6, <1>7, <1>8, <1>14 DEF Kept, w

(* A step over white space before an item.                                 *)
LEMMA KeptSkipped ==
  ASSUME TrimInv, trim_pc # "done", NEW J, Joins(J, Letters, Text(original)),
         NEW b, Kept(J, b, in, in), list[in] \in WHITESPACE, list[in] # ZERO,
         in' = in + 1, UNCHANGED <<original, list, out>>
  PROVE  Kept(J, b, in, in)'
<1>1. PICK z \in Nat : Positions = 0 .. z
  BY ListShape DEF TrimInv
<1> DEFINE w == Was(J, b)
<1>2. in \in 0 .. z /\ list[in] = original[in]
  BY <1>1 DEF TrimInv, TrimTypeOK, InPlace
<1>3. original[in] \notin {DELIMITER, ZERO}
  BY <1>2, CharsAssumption DEF CharsAssumption
<1>4. /\ b \in 0 .. in /\ (b = 0 \/ original[b - 1] = DELIMITER) /\ J[in] = J[b]
      /\ \A i \in b .. in - 1 : original[i] # DELIMITER
      /\ \A i \in b .. in - 1 : original[i] \in WHITESPACE
      /\ w \in Seq(Letters) /\ out = Len(w) + (in - in)
      /\ \A i \in 1 .. Len(w) : list[i - 1] = w[i]
  <2>1. \A i \in b .. in - 1 : i < in \/ i >= in
    BY <1>2 DEF Kept, AtItem
  <2> QED
    BY <2>1 DEF Kept, AtItem, Written
<1>5. J[in + 1] = J[in]
  BY <1>3, NoItemEnds
<1>6. b \in 0 .. in' /\ J[in'] = J[b] /\ \A i \in b .. in' - 1 : i \in b .. in - 1 \/ i = in
  BY <1>2, <1>4, <1>5
<1>7. \A i \in b .. in' - 1 : original[i] # DELIMITER /\ original[i] \in WHITESPACE
  BY <1>2, <1>3, <1>4, <1>6
<1>8. AtItem(J, b)'
  BY <1>4, <1>6, <1>7 DEF AtItem
<1>9. in' \in b .. in' /\ in' \in in' .. in'
  BY <1>2, <1>4
<1>10. Letters' = Letters
  BY DEF Letters, Positions
<1> HIDE DEF w
<1>11. Len(w) \in Nat /\ out = Len(w)
  BY <1>2, <1>4
<1>12. out' = Len(w) + (in' - in') /\ \A k : k \notin 0 .. in' - in' - 1
  BY <1>2, <1>11
<1>13. Written(w, in, in)'
  BY <1>4, <1>10, <1>12 DEF Written
<1> QED
  BY <1>7, <1>8, <1>9, <1>13 DEF Kept, w

-----------------------------------------------------------------------------
LEMMA JoinsStart == TrimInit => TrimJoins
<1> SUFFICES ASSUME TrimInit, NEW J, Joins(J, Letters, Text(original)) PROVE Joining(J)
  BY DEF TrimJoins
<1>1. trim_pc = "item" /\ in = 0 /\ out = 0
  BY DEF TrimInit
<1>2. <<>> \in Seq(Letters) /\ Len(<<>>) = 0 /\ \A i : i \notin 1 .. 0 /\ i \notin 0 .. 0 - 0 - 1
  BY EmptySeq
<1>3. Written(<<>>, 0, 0)
  BY <1>1, <1>2 DEF Written
<1>4. Was(J, in) = <<>>
  BY <1>1 DEF Was
<1> QED
  BY <1>1, <1>3, <1>4 DEF Joining

(* What an item kept from u on, or nothing of it, still to be trimmed at   *)
(* its end, looks like.                                                    *)
LEMMA KeptEnds ==
  ASSUME TrimInv, NEW J, NEW b, NEW u, NEW v, Kept(J, b, u, v)
  PROVE  /\ b \in Nat /\ u \in Nat /\ v \in Nat /\ in \in Nat /\ b <= u /\ u <= v /\ v <= in
         /\ u < v => list[out - 1] = original[v - 1] /\ v - 1 \in Positions /\ v - 1 < in
         /\ u = v /\ out > 0 => list[out - 1] = DELIMITER
         /\ u < v => out > 0
<1> DEFINE w == Was(J, b)
<1>1. PICK z \in Nat : Positions = 0 .. z
  BY ListShape DEF TrimInv
<1>2. in \in 0 .. z
  BY <1>1 DEF TrimInv, TrimTypeOK
<1>3. /\ b \in 0 .. in /\ u \in b .. in /\ v \in u .. in
      /\ w \in Seq(Letters) /\ out = Len(w) + (v - u)
      /\ \A i \in 1 .. Len(w) : list[i - 1] = w[i]
      /\ \A k \in 0 .. v - u - 1 : list[Len(w) + k] = original[u + k]
  BY DEF Kept, AtItem, Written
<1>4. b \in Nat /\ u \in Nat /\ v \in Nat /\ in \in Nat /\ b <= u /\ u <= v /\ v <= in
  BY <1>2, <1>3
<1>5. ASSUME u < v
      PROVE  list[out - 1] = original[v - 1] /\ v - 1 \in Positions /\ v - 1 < in /\ out > 0
  <2> DEFINE k == v - u - 1
  <2> HIDE DEF w
  <2>1. Len(w) \in Nat
    BY <1>3
  <2>2. /\ k \in 0 .. v - u - 1 /\ Len(w) + k = out - 1 /\ u + k = v - 1 /\ out > 0
        /\ v - 1 \in 0 .. z /\ v - 1 < in
    BY <1>2, <1>3, <1>4, <1>5, <2>1
  <2> HIDE DEF k
  <2> QED
    BY <1>1, <1>3, <2>2
<1>6. ASSUME u = v, out > 0 PROVE list[out - 1] = DELIMITER
  <2> HIDE DEF w
  <2>1. Len(w) \in Nat /\ out = Len(w) /\ Len(w) \in 1 .. Len(w)
    BY <1>3, <1>4, <1>6
  <2>2. list[out - 1] = w[Len(w)]
    BY <1>3, <2>1
  <2>3. w[Len(w)] = DELIMITER
    <3>1. b # 0
      <4> SUFFICES ASSUME b = 0 PROVE FALSE
        OBVIOUS
      <4>1. w = <<>>
        BY DEF w, Was
      <4> QED
        BY <2>1, <4>1, <1>6
    <3> QED
      BY <2>1, <3>1 DEF w, Was
  <2> QED
    BY <2>2, <2>3
<1> QED
  BY <1>4, <1>5, <1>6

LEMMA KeptStill ==
  ASSUME UNCHANGED <<original, list, in, out>>, NEW J
  PROVE  /\ \A b, u, v : Kept(J, b, u, v) => Kept(J, b, u, v)'
         /\ \A b, u : Kept(J, b, u, in) => Kept(J, b, u, in)'
         /\ Written(J[in + 1], 0, 0) => Written(J[in + 1], 0, 0)'
<1>1. Letters' = Letters
  BY DEF Letters, Positions
<1>2. ASSUME NEW b, NEW u, NEW v, Kept(J, b, u, v) PROVE Kept(J, b, u, v)'
  BY <1>1, <1>2 DEF Kept, AtItem, Written
<1>3. ASSUME NEW b, NEW u, Kept(J, b, u, in) PROVE Kept(J, b, u, in)'
  BY <1>1, <1>3 DEF Kept, AtItem, Written
<1>4. Written(J[in + 1], 0, 0) => Written(J[in + 1], 0, 0)'
  BY <1>1 DEF Written
<1> QED
  BY <1>2, <1>3, <1>4

(* Before an item nothing of it has been read.                             *)
LEMMA ItemOpens ==
  ASSUME TrimInv, NEW J, NEW b, b = in, in = 0 \/ original[in - 1] = DELIMITER,
         Written(Was(J, in), 0, 0)
  PROVE  Kept(J, b, b, b)
<1>1. PICK z \in Nat : Positions = 0 .. z
  BY ListShape DEF TrimInv
<1>2. b \in 0 .. z
  BY <1>1 DEF TrimInv, TrimTypeOK
<1>3. AtItem(J, b)
  <2>1. b \in 0 .. in /\ \A i : i \notin b .. in - 1
    BY <1>2
  <2> QED
    BY <2>1 DEF AtItem
<1>4. Written(Was(J, b), b, b)
  <2> DEFINE w == Was(J, b)
  <2>1. w \in Seq(Letters) /\ out = Len(w) + (0 - 0) /\ \A i \in 1 .. Len(w) : list[i - 1] = w[i]
    BY DEF Written
  <2> HIDE DEF w
  <2>2. 0 - 0 = b - b /\ \A k : k \notin 0 .. b - b - 1
    BY <1>2
  <2> QED
    BY <2>1, <2>2 DEF Written, w
<1>5. b \in b .. in /\ b \in b .. b /\ \A i : i \notin b .. in - 1
  BY <1>2
<1> QED
  BY <1>3, <1>4, <1>5 DEF Kept

(* A step back over the white space after an item.                         *)
LEMMA KeptTrimmed ==
  ASSUME TrimInv, NEW J, NEW b, NEW u, NEW v, Kept(J, b, u, v), u < v,
         original[v - 1] \in WHITESPACE,
         out' = out - 1, UNCHANGED <<original, list, in>>
  PROVE  Kept(J, b, u, v - 1)'
<1> DEFINE w == Was(J, b)
           x == v - 1
<1>1. b \in Nat /\ u \in Nat /\ v \in Nat /\ in \in Nat /\ b <= u /\ u <= v /\ v <= in
  BY KeptEnds
<1>2. /\ AtItem(J, b) /\ u \in b .. in
      /\ \A i \in b .. in - 1 : i < u \/ i >= v => original[i] \in WHITESPACE
      /\ w \in Seq(Letters) /\ out = Len(w) + (v - u)
      /\ \A i \in 1 .. Len(w) : list[i - 1] = w[i]
      /\ \A k \in 0 .. v - u - 1 : list[Len(w) + k] = original[u + k]
  BY DEF Kept, Written
<1>3. AtItem(J, b)' /\ Letters' = Letters
  BY <1>2 DEF AtItem, Letters, Positions
<1>4. x \in u .. in
  BY <1>1
<1>5. \A i \in b .. in - 1 : i < u \/ i >= x => original[i] \in WHITESPACE
  <2> SUFFICES ASSUME NEW i \in b .. in - 1, i < u \/ i >= x PROVE original[i] \in WHITESPACE
    OBVIOUS
  <2>1. i = v - 1 \/ i < u \/ i >= v
    BY <1>1
  <2> QED
    BY <1>2, <2>1
<1> HIDE DEF w
<1>6. out - 1 = Len(w) + (x - u)
  <2>1. Len(w) \in Nat
    BY <1>2
  <2> QED
    BY <1>1, <1>2, <2>1
<1>7. \A k \in 0 .. x - u - 1 : list[Len(w) + k] = original[u + k]
  <2> SUFFICES ASSUME NEW k \in 0 .. x - u - 1 PROVE list[Len(w) + k] = original[u + k]
    OBVIOUS
  <2>1. k \in 0 .. v - u - 1
    BY <1>1
  <2> QED
    BY <1>2, <2>1
<1> HIDE DEF x
<1>8. Written(w, u, x)'
  BY <1>2, <1>3, <1>6, <1>7 DEF Written
<1>9. Kept(J, b, u, x)'
  BY <1>2, <1>3, <1>4, <1>5, <1>8 DEF Kept, w
<1> QED
  BY <1>9 DEF x

(* The delimiter behind an item.                                           *)
LEMMA DelimiterKept ==
  ASSUME TrimInv, trim_pc # "done", NEW J, Written(J[in + 1], 0, 0), list[in] = DELIMITER,
         CopyChar, original' = original
  PROVE  (in' = 0 \/ original'[in' - 1] = DELIMITER) /\ Written(Was(J, in), 0, 0)'
<1>1. PICK z \in Nat : Positions = 0 .. z
  BY ListShape DEF TrimInv
<1>2. /\ in \in 0 .. z /\ out \in 0 .. z /\ DOMAIN list = 0 .. z /\ list[in] = original[in]
  BY <1>1 DEF TrimInv, TrimTypeOK, InPlace
<1>3. /\ list' = [list EXCEPT ![out] = list[in]] /\ in' = in + 1 /\ out' = out + 1
  BY DEF CopyChar
<1> DEFINE w == J[in + 1]
           y == w \o <<DELIMITER>>
<1>4. w \in Seq(Letters) /\ out = Len(w) + (0 - 0) /\ \A i \in 1 .. Len(w) : list[i - 1] = w[i]
  BY DEF Written
<1> HIDE DEF w
<1>5. Len(w) \in Nat /\ out = Len(w)
  BY <1>4
<1>6. /\ y \in Seq(Letters) /\ Len(y) = Len(w) + 1
      /\ \A i \in 1 .. Len(w) + 1 : y[i] = IF i <= Len(w) THEN w[i] ELSE DELIMITER
  <2>1. <<DELIMITER>> \in Seq(Letters) /\ Len(<<DELIMITER>>) = 1
    BY DEF Letters
  <2>2. /\ y \in Seq(Letters) /\ Len(y) = Len(w) + Len(<<DELIMITER>>)
        /\ \A i \in 1 .. Len(w) + Len(<<DELIMITER>>) :
             y[i] = IF i <= Len(w) THEN w[i] ELSE <<DELIMITER>>[i - Len(w)]
    BY <1>4, <2>1, ConcatProperties
  <2> HIDE DEF y
  <2>3. \A i \in 1 .. Len(w) + 1 : ~(i <= Len(w)) => i - Len(w) = 1
    BY <1>5
  <2> QED
    BY <2>1, <2>2, <2>3
<1> HIDE DEF y
<1>7. \A i \in 1 .. Len(y) : list'[i - 1] = y[i]
  <2> SUFFICES ASSUME NEW i \in 1 .. Len(y) PROVE list'[i - 1] = y[i]
    OBVIOUS
  <2>1. CASE i <= Len(w)
    <3>1. i \in 1 .. Len(w) /\ i \in 1 .. Len(w) + 1 /\ i - 1 \in 0 .. z /\ i - 1 # out
      BY <1>2, <1>5, <1>6, <2>1
    <3> QED
      BY <1>2, <1>3, <1>4, <1>6, <2>1, <3>1
  <2>2. CASE i > Len(w)
    <3>1. i \in 1 .. Len(w) + 1 /\ ~(i <= Len(w)) /\ i - 1 = out
      BY <1>5, <1>6, <2>2
    <3> QED
      BY <1>2, <1>3, <1>6, <3>1
  <2> QED
    BY <1>5, <1>6, <2>1, <2>2
<1>8. Was(J, in') = y /\ in' - 1 = in
  <2>1. in' # 0 /\ in' - 1 = in
    BY <1>2, <1>3
  <2> QED
    BY <1>3, <2>1 DEF Was, y, w
<1>9. Letters' = Letters /\ out' = Len(y) + (0 - 0) /\ \A k : k \notin 0 .. 0 - 0 - 1
  BY <1>3, <1>5, <1>6 DEF Letters, Positions
<1> QED
  BY <1>2, <1>6, <1>7, <1>8, <1>9 DEF Written

LEMMA JoinsStep == TrimInv /\ TrimInv' /\ TrimJoins /\ [TrimNext]_trim_vars => TrimJoins'
<1> SUFFICES ASSUME TrimInv, TrimInv', TrimJoins, [TrimNext]_trim_vars,
                    NEW J, Joins(J, Letters', Text(original'))
             PROVE  Joining(J)'
  BY DEF TrimJoins
<1>1. original' = original
  BY DEF TrimNext, trim_vars, NextItem, SkipLeading, EndLeading, Copy, EndCopy, SkipTrailing,
         EndTrailing, Delimiter, Finish, TrimStopped, Goto
<1>2. Joins(J, Letters, Text(original)) /\ Joining(J)
  <2>1. Letters' = Letters
    BY <1>1 DEF Letters, Positions
  <2> QED
    BY <1>1, <2>1 DEF TrimJoins
<1>3. PICK z \in Nat :
        /\ Positions = 0 .. z /\ Last0(original) = z
        /\ \A i \in 0 .. z : original[i] = ZERO <=> i = z
  BY TextIs DEF TrimInv
<1>4. /\ in \in 0 .. z /\ out \in 0 .. z /\ DOMAIN list = 0 .. z
      /\ trim_pc # "done" => list[in] = original[in]
      /\ trim_pc = "trailing" => out > 0
  BY <1>3 DEF TrimInv, TrimTypeOK, InPlace
<1>5. DELIMITER # ZERO /\ DELIMITER \notin WHITESPACE /\ ZERO \notin WHITESPACE
  BY CharsAssumption DEF CharsAssumption
<1>6. CASE NextItem
  <2>1. /\ trim_pc = "item" /\ list[in] # ZERO /\ trim_pc' = "leading"
        /\ UNCHANGED <<original, list, in, out>>
    BY <1>6 DEF NextItem, Goto
  <2>2. (in = 0 \/ original[in - 1] = DELIMITER) /\ Written(Was(J, in), 0, 0)
    BY <1>2, <1>4, <2>1 DEF Joining
  <2>3. PICK b : b = in
    OBVIOUS
  <2>4. Kept(J, b, b, b)'
    <3>1. Kept(J, b, b, b)
      BY <2>2, <2>3, ItemOpens
    <3> QED
      BY <2>1, <3>1, KeptStill
  <2>5. Kept(J, b, in, in)'
    <3>1. in' = b
      BY <2>1, <2>3
    <3> QED
      BY <2>4, <3>1 DEF Kept, AtItem, Written
  <2> QED
    BY <2>1, <2>5 DEF Joining
<1>7. CASE SkipLeading
  <2>1. /\ trim_pc = "leading" /\ list[in] \in WHITESPACE /\ list[in] # ZERO /\ trim_pc' = "leading"
        /\ in' = in + 1 /\ UNCHANGED <<original, list, out>>
    BY <1>7 DEF SkipLeading, strchr
  <2>2. PICK b : Kept(J, b, in, in)
    BY <1>2, <2>1 DEF Joining
  <2>3. Kept(J, b, in, in)'
    BY <1>2, <2>1, <2>2, KeptSkipped
  <2> QED
    BY <2>1, <2>3 DEF Joining
<1>8. CASE EndLeading
  <2>1. /\ trim_pc = "leading" /\ list[in] \notin WHITESPACE /\ trim_pc' = "copy"
        /\ UNCHANGED <<original, list, in, out>>
    BY <1>5, <1>8 DEF EndLeading, Goto, strchr
  <2>2. PICK b : Kept(J, b, in, in)
    BY <1>2, <2>1 DEF Joining
  <2>3. PICK u : u = in
    OBVIOUS
  <2>4. Kept(J, b, u, in)'
    <3>1. Kept(J, b, u, in)
      BY <2>2, <2>3
    <3> QED
      BY <2>1, <3>1, KeptStill
  <2>5. original'[u] \notin WHITESPACE
    BY <1>4, <2>1, <2>3
  <2> QED
    BY <2>1, <2>4, <2>5 DEF Joining
<1>9. CASE Copy
  <2>1. /\ trim_pc = "copy" /\ list[in] \notin {DELIMITER, ZERO} /\ trim_pc' = "copy" /\ CopyChar
    BY <1>9 DEF Copy
  <2>2. PICK b, u : Kept(J, b, u, in) /\ original[u] \notin WHITESPACE
    BY <1>2, <2>1 DEF Joining
  <2>3. Kept(J, b, u, in)'
    BY <1>1, <1>2, <2>1, <2>2, KeptCopied
  <2> QED
    BY <1>1, <2>1, <2>2, <2>3 DEF Joining
<1>10. CASE EndCopy
  <2>1. /\ trim_pc = "copy" /\ list[in] \in {DELIMITER, ZERO}
        /\ trim_pc' = IF out > 0 THEN "trailing" ELSE "delimiter"
        /\ UNCHANGED <<original, list, in, out>>
    BY <1>10 DEF EndCopy, Goto
  <2>2. PICK b, u : Kept(J, b, u, in) /\ original[u] \notin WHITESPACE
    BY <1>2, <2>1 DEF Joining
  <2>3. PICK v : v = in
    OBVIOUS
  <2>4. Kept(J, b, u, v) /\ Kept(J, b, u, v)'
    <3>1. Kept(J, b, u, v)
      BY <2>2, <2>3
    <3> QED
      BY <2>1, <3>1, KeptStill
  <2>5. original[in] \in {DELIMITER, ZERO}
    BY <1>4, <2>1
  <2>6. CASE out > 0
    BY <2>1, <2>2, <2>4, <2>5, <2>6 DEF Joining
  <2>7. CASE ~(out > 0)
    <3>1. ~(u < v)
      BY <2>4, <2>7, KeptEnds
    <3>2. Written(J[in + 1], 0, 0)
      BY <1>2, <2>4, <2>5, <3>1, ItemJoined
    <3>3. Written(J[in + 1], 0, 0)'
      BY <2>1, <3>2, KeptStill
    <3> QED
      BY <2>1, <2>5, <2>7, <3>3 DEF Joining
  <2> QED
    BY <2>6, <2>7
<1>11. CASE SkipTrailing
  <2>1. /\ trim_pc = "trailing" /\ list[out - 1] \in WHITESPACE \cup {ZERO} /\ trim_pc' = "trailing"
        /\ out' = out - 1 /\ UNCHANGED <<original, list, in>>
    BY <1>11 DEF SkipTrailing, strchr
  <2>2. original[in] \in {DELIMITER, ZERO}
    BY <1>2, <2>1 DEF Joining
  <2>3. PICK b, u, v : Kept(J, b, u, v) /\ original[u] \notin WHITESPACE
    BY <1>2, <2>1 DEF Joining
  <2>4. u < v /\ list[out - 1] = original[v - 1] /\ v - 1 \in 0 .. z /\ v - 1 < in
    BY <1>3, <1>4, <1>5, <2>1, <2>3, KeptEnds
  <2>5. original[v - 1] \in WHITESPACE
    <3>1. v - 1 # z
      BY <1>4, <2>4
    <3> QED
      BY <1>3, <2>1, <2>4, <3>1
  <2>6. Kept(J, b, u, v - 1)'
    BY <2>1, <2>3, <2>4, <2>5, KeptTrimmed
  <2> QED
    BY <2>1, <2>2, <2>3, <2>6 DEF Joining
<1>12. CASE EndTrailing
  <2>1. /\ trim_pc = "trailing" /\ list[out - 1] \notin WHITESPACE /\ trim_pc' = "delimiter"
        /\ UNCHANGED <<original, list, in, out>>
    BY <1>12 DEF EndTrailing, strchr, Goto
  <2>2. original[in] \in {DELIMITER, ZERO}
    BY <1>2, <2>1 DEF Joining
  <2>3. PICK b, u, v : Kept(J, b, u, v) /\ original[u] \notin WHITESPACE
    BY <1>2, <2>1 DEF Joining
  <2>4. u < v => original[v - 1] \notin WHITESPACE
    BY <2>1, <2>3, KeptEnds
  <2>5. Written(J[in + 1], 0, 0)
    BY <1>2, <2>2, <2>3, <2>4, ItemJoined
  <2>6. Written(J[in + 1], 0, 0)'
    BY <2>1, <2>5, KeptStill
  <2> QED
    BY <2>1, <2>2, <2>6 DEF Joining
<1>13. CASE Delimiter
  <2>1. trim_pc = "delimiter" /\ trim_pc' = "item" /\ trim_pc # "done"
    BY <1>13 DEF Delimiter
  <2>2. original[in] \in {DELIMITER, ZERO} /\ Written(J[in + 1], 0, 0)
    BY <1>2, <2>1 DEF Joining
  <2>3. CASE list[in] = DELIMITER
    <3>1. CopyChar
      BY <1>13, <2>3 DEF Delimiter
    <3>2. (in' = 0 \/ original'[in' - 1] = DELIMITER) /\ Written(Was(J, in), 0, 0)'
      BY <1>1, <2>1, <2>2, <2>3, <3>1, DelimiterKept
    <3> QED
      BY <2>1, <3>2 DEF Joining
  <2>4. CASE list[in] # DELIMITER
    <3>1. UNCHANGED <<original, list, in, out>>
      BY <1>1, <1>13, <2>4 DEF Delimiter
    <3>2. Written(J[in + 1], 0, 0)' /\ original'[in'] = ZERO
      BY <1>4, <2>1, <2>2, <2>4, <3>1, KeptStill
    <3> QED
      BY <2>1, <3>2 DEF Joining
  <2> QED
    BY <2>3, <2>4
<1>14. CASE Finish
  <2>1. /\ trim_pc = "item" /\ list[in] = ZERO /\ trim_pc' = "done"
        /\ list' = [list EXCEPT ![out] = ZERO] /\ UNCHANGED <<original, in, out>>
    BY <1>14 DEF Finish
  <2>2. original[in] = ZERO /\ in = z
    BY <1>3, <1>4, <2>1
  <2>3. Written(J[in + 1], 0, 0)
    <3>1. CASE Written(J[in + 1], 0, 0)
      BY <3>1
    <3>2. CASE (in = 0 \/ original[in - 1] = DELIMITER) /\ Written(Was(J, in), 0, 0)
      <4>1. PICK b : b = in
        OBVIOUS
      <4>2. Kept(J, b, b, b)
        BY <3>2, <4>1, ItemOpens
      <4>3. ~(b < b)
        BY <1>4, <4>1
      <4> QED
        BY <1>2, <2>2, <4>2, <4>3, ItemJoined
    <3> QED
      BY <1>2, <2>1, <3>1, <3>2 DEF Joining
  <2> DEFINE w == J[z + 1]
  <2>4. w \in Seq(Letters) /\ out = Len(w) + (0 - 0) /\ \A i \in 1 .. Len(w) : list[i - 1] = w[i]
    BY <2>2, <2>3 DEF Written
  <2> HIDE DEF w
  <2>5. \A i \in 1 .. Len(w) : list'[i - 1] = w[i]
    <3> SUFFICES ASSUME NEW i \in 1 .. Len(w) PROVE list'[i - 1] = w[i]
      OBVIOUS
    <3>1. Len(w) \in Nat /\ out = Len(w)
      BY <2>4
    <3>2. i - 1 \in 0 .. z /\ i - 1 # out
      BY <1>4, <3>1
    <3> QED
      BY <1>4, <2>1, <2>4, <3>2
  <2>6. list'[out] = ZERO
    BY <1>4, <2>1
  <2>7. Letters' = Letters /\ \A k : k \notin 0 .. 0 - 0 - 1
    BY <1>1 DEF Letters, Positions
  <2>8. Written(w, 0, 0)'
    BY <2>1, <2>4, <2>5, <2>7 DEF Written
  <2> QED
    BY <1>1, <1>3, <2>1, <2>6, <2>8 DEF Joining, w
<1>15. CASE UNCHANGED trim_vars
  <2>1. UNCHANGED <<original, list, in, out, trim_pc>>
    BY <1>15 DEF trim_vars
  <2>2. Letters' = Letters
    BY <2>1 DEF Letters, Positions
  <2> QED
    BY <1>2, <2>1, <2>2 DEF Joining, Kept, AtItem, Written
<1> QED
  BY <1>6, <1>7, <1>8, <1>9, <1>10, <1>11, <1>12, <1>13, <1>14, <1>15 DEF TrimNext, TrimStopped

(* A list of any length, of any characters, is the items it was made of,   *)
(* each without the white space around it, when the function returns.      *)
THEOREM ItemsAreTrimmed == TrimSpec => []TrimsItems
<1>1. TrimInv /\ TrimJoins => TrimsItems
  <2> SUFFICES ASSUME TrimInv, TrimJoins, trim_pc = "done"
               PROVE  [i \in 1 .. out |-> list[i - 1]] = Items(Text(original)) /\ list[out] = ZERO
    BY DEF TrimsItems
  <2>1. PICK z \in Nat : Last0(original) = z /\ Text(original) \in Seq(Letters) /\ Len(Text(original)) = z
    BY TextIs DEF TrimInv
  <2>2. DELIMITER \in Letters
    BY DEF Letters
  <2>3. PICK J : Joins(J, Letters, Text(original)) /\ Items(Text(original)) = J[z + 1]
    <3> DEFINE s == Text(original)
    <3>1. s \in Seq(Letters) /\ Len(s) = z
      BY <2>1
    <3> HIDE DEF s
    <3>2. \E J : Joins(J, Letters, s) /\ Items(s) = J[Len(s) + 1]
      BY <2>2, <3>1, ItemsAre
    <3> QED
      BY <3>1, <3>2 DEF s
  <2>4. Written(J[z + 1], 0, 0) /\ list[out] = ZERO
    BY <2>1, <2>3 DEF TrimJoins, Joining
  <2> DEFINE w == J[z + 1]
  <2>5. w \in Seq(Letters) /\ out = Len(w) + (0 - 0) /\ \A i \in 1 .. Len(w) : list[i - 1] = w[i]
    BY <2>4 DEF Written
  <2> HIDE DEF w
  <2>6. Len(w) \in Nat /\ out = Len(w)
    BY <2>5
  <2>7. [i \in 1 .. out |-> list[i - 1]] = w
    <3>1. w = [i \in 1 .. Len(w) |-> w[i]]
      BY <2>5
    <3> QED
      BY <2>5, <2>6, <3>1
  <2> QED
    BY <2>3, <2>4, <2>7 DEF w
<1> QED
  BY TrimInvariant, TrimStart, JoinsStart, JoinsStep, <1>1, PTL DEF TrimSpec

-----------------------------------------------------------------------------
(* The arguments of Include: Glob.  t[i] are the places of s from where it *)
(* is what the pattern g means from i on; MeansFrom is one step of it.     *)
MeansFrom(g, s, i, v) ==
  IF g[i + 1] = STAR
  THEN {j \in 0 .. Len(s) : \E k \in v : j <= k /\ \A l \in j + 1 .. k : s[l] # SLASH}
  ELSE {j \in 0 .. Len(s) - 1 : s[j + 1] = g[i + 1] /\ j + 1 \in v}

Matches(t, g, s) ==
  /\ t \in [0 .. Len(g) -> SUBSET (0 .. Len(s))]
  /\ t[Len(g)] = {Len(s)}
  /\ \A i \in 0 .. Len(g) - 1 : t[i] = MeansFrom(g, s, i, t[i + 1])

(* The recursive definition of Means has a solution.                       *)
LEMMA MeansIs ==
  ASSUME NEW T, NEW g \in Seq(T), NEW s \in Seq(T)
  PROVE  \E t : Matches(t, g, s) /\ (Means(g, s) <=> 0 \in t[0])
<1> DEFINE a == Len(g)
           b == Len(s)
           V == SUBSET (0 .. b)
           step == [i \in 1 .. a |-> [v \in V |-> MeansFrom(g, s, a - i, v)]]
           Equation(q) == q = [i \in 0 .. a |->
                                 IF i = a THEN {b}
                                 ELSE IF g[i + 1] = STAR
                                      THEN {j \in 0 .. b :
                                              \E k \in q[i + 1] : j <= k /\ \A l \in j + 1 .. k : s[l] # SLASH}
                                      ELSE {j \in 0 .. b - 1 : s[j + 1] = g[i + 1] /\ j + 1 \in q[i + 1]}]
           m == CHOOSE q : Equation(q)
<1>1. a \in Nat /\ b \in Nat
  OBVIOUS
<1>2. \A i \in Int, v \in V : MeansFrom(g, s, i, v) \in V
  BY <1>1 DEF MeansFrom
<1>3. \A i \in 0 + 1 .. a : step[i] \in [V -> V]
  BY <1>1, <1>2
<1>4. PICK h : Solves(h, 0, a, V, {b}, step)
  <2> HIDE DEF step
  <2>1. 0 \in Int /\ a \in Int /\ 0 <= a /\ {b} \in V
    BY <1>1
  <2> HIDE DEF a, V, b
  <2> QED
    BY ONLY <1>3, <2>1, Recursion
<1> DEFINE t == [i \in 0 .. a |-> h[a - i]]
<1>5. /\ h \in [0 .. a -> V] /\ h[0] = {b}
      /\ \A i \in 0 + 1 .. a : h[i] = MeansFrom(g, s, a - i, h[i - 1])
  <2>1. h \in [0 .. a -> V] /\ h[0] = {b} /\ \A i \in 0 + 1 .. a : h[i] = step[i][h[i - 1]]
    BY <1>4 DEF Solves
  <2>2. \A i \in 0 + 1 .. a : i \in 1 .. a /\ i - 1 \in 0 .. a
    BY <1>1
  <2> HIDE DEF V, a
  <2> QED
    BY <2>1, <2>2
<1>6. t \in [0 .. a -> V] /\ t[a] = {b} /\ \A i \in 0 .. a - 1 : t[i] = MeansFrom(g, s, i, t[i + 1])
  <2>1. \A i \in 0 .. a : a - i \in 0 .. a /\ t[i] = h[a - i]
    BY <1>1
  <2>2. \A i \in 0 .. a - 1 : /\ a - i \in 0 + 1 .. a /\ a - (a - i) = i /\ (a - i) - 1 = a - (i + 1)
                              /\ i \in 0 .. a /\ i + 1 \in 0 .. a
    BY <1>1
  <2>3. a - a = 0 /\ a \in 0 .. a
    BY <1>1
  <2>4. t \in [0 .. a -> V]
    BY <1>5, <2>1
  <2> HIDE DEF t, V, a
  <2>5. ASSUME NEW i \in 0 .. a - 1 PROVE t[i] = MeansFrom(g, s, i, t[i + 1])
    <3>1. h[a - i] = MeansFrom(g, s, a - (a - i), h[(a - i) - 1])
      BY <1>5, <2>2
    <3>2. a - (a - i) = i /\ (a - i) - 1 = a - (i + 1) /\ t[i] = h[a - i] /\ t[i + 1] = h[a - (i + 1)]
      BY <2>1, <2>2
    <3> QED
      BY <3>1, <3>2
  <2>6. t[a] = h[0]
    BY <2>1, <2>3
  <2> QED
    BY <1>5, <2>4, <2>5, <2>6
<1> HIDE DEF t
<1>7. Equation(t)
  <2>1. \A i \in 0 .. a : t[i] = IF i = a THEN {b}
                                 ELSE IF g[i + 1] = STAR
                                      THEN {j \in 0 .. b :
                                              \E k \in t[i + 1] : j <= k /\ \A l \in j + 1 .. k : s[l] # SLASH}
                                      ELSE {j \in 0 .. b - 1 : s[j + 1] = g[i + 1] /\ j + 1 \in t[i + 1]}
    <3>1. \A i \in 0 .. a : i # a => i \in 0 .. a - 1
      BY <1>1
    <3> HIDE DEF a
    <3> QED
      BY <1>6, <3>1 DEF MeansFrom
  <2>2. t = [i \in 0 .. a |-> t[i]]
    BY <1>6
  <2> QED
    BY <2>1, <2>2
<1>8. Equation(m)
  <2>1. \E q : Equation(q)
    BY <1>7
  <2> HIDE DEF Equation
  <2> QED
    BY <2>1
<1>9. Means(g, s) <=> 0 \in m[0]
  BY DEF Means
<1> HIDE DEF m
<1>10. /\ DOMAIN m = 0 .. a /\ m = [i \in 0 .. a |-> m[i]] /\ m[a] = {b}
       /\ \A i \in 0 .. a - 1 : m[i] = MeansFrom(g, s, i, m[i + 1])
  <2>1. DOMAIN m = 0 .. a /\ m = [i \in 0 .. a |-> m[i]]
    BY <1>8
  <2>2. ASSUME NEW i \in 0 .. a
        PROVE  m[i] = IF i = a THEN {b} ELSE MeansFrom(g, s, i, m[i + 1])
    BY <1>8 DEF MeansFrom
  <2>3. a \in 0 .. a /\ \A i \in 0 .. a - 1 : i \in 0 .. a /\ i # a
    BY <1>1
  <2> QED
    BY <2>1, <2>2, <2>3
<1>11. \A i \in 0 .. a : m[i] \in V
  <2>1. ASSUME NEW i \in 0 .. a PROVE m[i] \in V
    <3>1. i = a \/ i \in 0 .. a - 1
      BY <1>1
    <3>2. \A v : MeansFrom(g, s, i, v) \subseteq 0 .. b
      BY <1>1 DEF MeansFrom
    <3>3. m[a] \subseteq 0 .. b
      BY <1>1, <1>10
    <3>4. m[i] \subseteq 0 .. b
      BY <1>10, <3>1, <3>2, <3>3
    <3> QED
      BY <3>4
  <2> QED
    BY <2>1
<1> QED
  BY <1>9, <1>10, <1>11 DEF Matches

-----------------------------------------------------------------------------
(* match_glob.  Its state, and where the literal characters are.           *)
GlobOn ==
  /\ pattern \in Seq(Characters) /\ name \in Seq(Characters)
  /\ \A i \in 1 .. Len(name) : name[i] # SLASH
  /\ f \in 0 .. Len(name) /\ p \in 0 .. Len(pattern)
  /\ p = 0 \/ p = Len(pattern) \/ pattern[p + 1] = STAR

LEMMA BeginIs ==
  ASSUME GlobOn
  PROVE  /\ Begin \in p .. Len(pattern)
         /\ \A j \in p + 1 .. Begin : pattern[j] = STAR
         /\ Begin = Len(pattern) \/ pattern[Begin + 1] # STAR
<1> DEFINE z == Len(pattern)
           Ends == {i \in p .. z : i = z \/ pattern[i + 1] # STAR}
           Fine(i) == (\A j \in p + 1 .. i : pattern[j] = STAR) /\ (i = z \/ pattern[i + 1] # STAR)
<1>1. z \in Nat /\ p \in Nat /\ p <= z
  BY DEF GlobOn
<1>2. Ends \in SUBSET Nat /\ Ends # {}
  <2>1. z \in Ends
    BY <1>1
  <2> QED
    BY <1>1, <2>1
<1>3. PICK b \in Ends : \A x \in Ends : b <= x
  <2> HIDE DEF Ends
  <2> QED
    BY <1>2, LeastNumber
<1>4. \A j \in p + 1 .. b : pattern[j] = STAR
  <2> SUFFICES ASSUME NEW j \in p + 1 .. b, pattern[j] # STAR PROVE FALSE
    OBVIOUS
  <2>1. j - 1 \in p .. z /\ (j - 1) + 1 = j /\ ~(b <= j - 1)
    BY <1>1, <1>3
  <2> QED
    BY <1>3, <2>1
<1>5. b \in p .. z /\ Fine(b)
  BY <1>3, <1>4
<1>6. Begin = CHOOSE i \in p .. z : Fine(i)
  BY DEF Begin
<1>7. Begin \in p .. z /\ Fine(Begin)
  <2> HIDE DEF Fine, z
  <2> QED
    BY <1>5, <1>6
<1> QED
  BY <1>7

LEMMA EndIs ==
  ASSUME GlobOn
  PROVE  /\ End \in Begin .. Len(pattern)
         /\ \A j \in Begin + 1 .. End : pattern[j] # STAR
         /\ End = Len(pattern) \/ pattern[End + 1] = STAR
<1> DEFINE z == Len(pattern)
           o == Begin
           Ends == {i \in o .. z : i = z \/ pattern[i + 1] = STAR}
           Fine(i) == (\A j \in o + 1 .. i : pattern[j] # STAR) /\ (i = z \/ pattern[i + 1] = STAR)
<1>1. z \in Nat /\ o \in Nat /\ o <= z
  <2>1. z \in Nat /\ p \in Nat
    BY DEF GlobOn
  <2>2. o \in p .. z
    BY BeginIs
  <2> HIDE DEF o, z
  <2> QED
    BY <2>1, <2>2
<1>6. End = CHOOSE i \in o .. z : Fine(i)
  BY DEF End
<1> HIDE DEF o
<1>2. Ends \in SUBSET Nat /\ Ends # {}
  <2>1. z \in Ends
    BY <1>1
  <2> QED
    BY <1>1, <2>1
<1>3. PICK b \in Ends : \A x \in Ends : b <= x
  <2> HIDE DEF Ends
  <2> QED
    BY <1>2, LeastNumber
<1>4. \A j \in o + 1 .. b : pattern[j] # STAR
  <2> SUFFICES ASSUME NEW j \in o + 1 .. b, pattern[j] = STAR PROVE FALSE
    OBVIOUS
  <2>1. j - 1 \in o .. z /\ (j - 1) + 1 = j /\ ~(b <= j - 1)
    BY <1>1, <1>3
  <2> QED
    BY <1>3, <2>1
<1>5. b \in o .. z /\ Fine(b)
  BY <1>3, <1>4
<1>7. End \in o .. z /\ Fine(End)
  <2> HIDE DEF Fine, z
  <2> QED
    BY <1>5, <1>6
<1> QED
  BY <1>7 DEF o

(* The literal characters stand in the name behind the place j.            *)
Stand(j) ==
  /\ j + (End - Begin) <= Len(name)
  /\ \A i \in 1 .. End - Begin : name[j + i] = pattern[Begin + i]

LEMMA OccursIs ==
  ASSUME GlobOn, NEW j \in 0 .. Len(name)
  PROVE  /\ Literal \in Seq(Characters) /\ Len(Literal) = End - Begin
         /\ Occurs(j) <=> Stand(j)
<1> DEFINE o == Begin
           e == End
           z == Len(pattern)
           y == Len(name)
           u == SubSeq(pattern, o + 1, e)
           v == SubSeq(name, j + 1, y)
<1>1. /\ o \in Nat /\ e \in Nat /\ z \in Nat /\ y \in Nat /\ o <= e /\ e <= z /\ j \in Nat /\ j <= y
      /\ pattern \in Seq(Characters) /\ name \in Seq(Characters)
  <2>1. /\ z \in Nat /\ y \in Nat /\ p \in Nat /\ j \in Nat /\ j <= y
        /\ pattern \in Seq(Characters) /\ name \in Seq(Characters)
    BY DEF GlobOn
  <2>2. o \in p .. z /\ e \in o .. z
    BY BeginIs, EndIs
  <2> HIDE DEF o, e, z, y
  <2> QED
    BY <2>1, <2>2
<1>2. Literal = u /\ (Occurs(j) <=> IsPrefix(u, v))
  BY DEF Literal, Occurs
<1>3. Stand(j) <=> j + (e - o) <= y /\ \A i \in 1 .. e - o : name[j + i] = pattern[o + i]
  BY DEF Stand
<1> HIDE DEF o, e
<1>4. u \in Seq(Characters) /\ Len(u) = e - o /\ \A i \in 1 .. e - o : u[i] = pattern[o + i]
  <2>1. o + 1 \in 1 .. z + 1 /\ e \in 0 .. z /\ o + 1 <= e + 1 /\ e - (o + 1) + 1 = e - o
        /\ \A i \in 1 .. e - o : (o + 1) + i - 1 = o + i
    BY <1>1
  <2> DEFINE a1 == o + 1
  <2>2. pattern \in Seq(Characters) /\ a1 \in 1 .. Len(pattern) + 1 /\ e \in 0 .. Len(pattern) /\ a1 <= e + 1
    BY <1>1, <2>1
  <2> HIDE DEF a1
  <2>3. /\ SubSeq(pattern, a1, e) \in Seq(Characters) /\ Len(SubSeq(pattern, a1, e)) = e - a1 + 1
        /\ \A i \in 1 .. e - a1 + 1 : SubSeq(pattern, a1, e)[i] = pattern[a1 + i - 1]
    BY ONLY <2>2, Part
  <2>4. u \in Seq(Characters) /\ Len(u) = e - (o + 1) + 1 /\ \A i \in 1 .. e - (o + 1) + 1 : u[i] = pattern[(o + 1) + i - 1]
    BY <2>3 DEF a1
  <2> HIDE DEF u
  <2> QED
    BY <2>1, <2>4
<1>5. v \in Seq(Characters) /\ Len(v) = y - j /\ \A i \in 1 .. y - j : v[i] = name[j + i]
  <2>1. j + 1 \in 1 .. y + 1 /\ y \in 0 .. y /\ j + 1 <= y + 1 /\ y - (j + 1) + 1 = y - j
        /\ \A i \in 1 .. y - j : (j + 1) + i - 1 = j + i
    BY <1>1
  <2> DEFINE a1 == j + 1
  <2>2. name \in Seq(Characters) /\ a1 \in 1 .. Len(name) + 1 /\ y \in 0 .. Len(name) /\ a1 <= y + 1
    BY <1>1, <2>1
  <2> HIDE DEF a1, y
  <2>3. /\ SubSeq(name, a1, y) \in Seq(Characters) /\ Len(SubSeq(name, a1, y)) = y - a1 + 1
        /\ \A i \in 1 .. y - a1 + 1 : SubSeq(name, a1, y)[i] = name[a1 + i - 1]
    BY ONLY <2>2, Part
  <2>4. v \in Seq(Characters) /\ Len(v) = y - (j + 1) + 1 /\ \A i \in 1 .. y - (j + 1) + 1 : v[i] = name[(j + 1) + i - 1]
    BY <2>3 DEF a1
  <2> HIDE DEF v
  <2> QED
    BY <2>1, <2>4
<1> HIDE DEF u, v
<1>6. IsPrefix(u, v) <=> e - o <= y - j /\ \A i \in 1 .. e - o : u[i] = v[i]
  <2>1. IsPrefix(u, v) <=> Len(u) <= Len(v) /\ SubSeq(u, 1, Len(u)) = SubSeq(v, 1, Len(u))
    BY DEF IsPrefix
  <2>2. CASE e - o <= y - j
    <3>1. SubSeq(u, 1, Len(u)) = u
      BY <1>4
    <3>2. SubSeq(v, 1, Len(u)) \in Seq(Characters) /\ Len(SubSeq(v, 1, Len(u))) = e - o
          /\ \A i \in 1 .. e - o : SubSeq(v, 1, Len(u))[i] = v[i]
      <4> DEFINE l == Len(u)
      <4>1. /\ v \in Seq(Characters) /\ 1 \in 1 .. Len(v) + 1 /\ l \in 0 .. Len(v) /\ 1 <= l + 1
            /\ l = e - o /\ l - 1 + 1 = l /\ \A i \in 1 .. l : 1 + i - 1 = i
        BY <1>1, <1>4, <1>5, <2>2
      <4> HIDE DEF l
      <4>2. /\ SubSeq(v, 1, l) \in Seq(Characters) /\ Len(SubSeq(v, 1, l)) = l - 1 + 1
            /\ \A i \in 1 .. l - 1 + 1 : SubSeq(v, 1, l)[i] = v[1 + i - 1]
        BY ONLY <4>1, Part
      <4>3. /\ SubSeq(v, 1, l) \in Seq(Characters) /\ Len(SubSeq(v, 1, l)) = e - o
            /\ \A i \in 1 .. e - o : SubSeq(v, 1, l)[i] = v[i]
        BY ONLY <4>1, <4>2
      <4> QED
        BY <4>3 DEF l
    <3>3. u = SubSeq(v, 1, Len(u)) <=> \A i \in 1 .. e - o : u[i] = v[i]
      <4> DEFINE x == SubSeq(v, 1, Len(u))
      <4>1. x \in Seq(Characters) /\ Len(x) = e - o /\ \A i \in 1 .. e - o : x[i] = v[i]
        BY <3>2
      <4> HIDE DEF x
      <4>2. u = [i \in 1 .. e - o |-> u[i]] /\ x = [i \in 1 .. e - o |-> x[i]]
        BY <1>4, <4>1
      <4>3. u = x <=> \A i \in 1 .. e - o : u[i] = v[i]
        BY <4>1, <4>2
      <4> QED
        BY <4>3 DEF x
    <3> QED
      BY <1>4, <1>5, <2>1, <2>2, <3>1, <3>3
  <2>3. CASE ~(e - o <= y - j)
    BY <1>4, <1>5, <2>1, <2>3
  <2> QED
    BY <2>2, <2>3
<1>7. (e - o <= y - j <=> j + (e - o) <= y)
  BY <1>1
<1>8. e - o <= y - j => \A i \in 1 .. e - o : u[i] = pattern[o + i] /\ v[i] = name[j + i]
  BY <1>1, <1>4, <1>5
<1> QED
  BY <1>2, <1>3, <1>4, <1>6, <1>7, <1>8 DEF o, e

(* Stars let pass any place that is not behind one from which the rest of  *)
(* the pattern means the rest of the name.                                 *)
LEMMA StarsPass ==
  ASSUME GlobOn, NEW t, Matches(t, pattern, name), Begin > p
  PROVE  \A j \in 0 .. Len(name) : j \in t[p] <=> \E k \in t[Begin] : j <= k
<1> DEFINE o == Begin
           z == Len(pattern)
           y == Len(name)
           S == {d \in Nat : p + 1 + d <= o =>
                               \A j \in 0 .. y : j \in t[p] <=> \E k \in t[p + 1 + d] : j <= k}
<1>1. /\ p \in Nat /\ o \in Nat /\ z \in Nat /\ y \in Nat /\ p + 1 <= o /\ o <= z
      /\ \A j \in p + 1 .. o : pattern[j] = STAR
  <2>1. p \in Nat /\ z \in Nat /\ y \in Nat
    BY DEF GlobOn
  <2>2. o \in p .. z /\ o > p /\ \A j \in p + 1 .. o : pattern[j] = STAR
    BY BeginIs
  <2> HIDE DEF o, z, y
  <2> QED
    BY <2>1, <2>2
<1> HIDE DEF o
<1>2. \A q \in 0 .. z : t[q] \subseteq 0 .. y
  BY DEF Matches
<1>3. ASSUME NEW q \in p .. o - 1
      PROVE  \A j \in 0 .. y : j \in t[q] <=> \E k \in t[q + 1] : j <= k
  <2>1. q \in 0 .. z - 1 /\ q + 1 \in p + 1 .. o /\ q + 1 \in 0 .. z
    BY <1>1
  <2>2. t[q] = MeansFrom(pattern, name, q, t[q + 1])
    BY <2>1 DEF Matches
  <2>3. pattern[q + 1] = STAR
    BY <1>1, <2>1
  <2>4. t[q] = {j \in 0 .. y : \E k \in t[q + 1] : j <= k /\ \A l \in j + 1 .. k : name[l] # SLASH}
    BY <2>2, <2>3 DEF MeansFrom
  <2>5. \A k \in t[q + 1], j \in 0 .. y : \A l \in j + 1 .. k : name[l] # SLASH
    <3>1. \A k \in t[q + 1], j \in 0 .. y : \A l \in j + 1 .. k : l \in 1 .. y
      BY <1>1, <1>2, <2>1
    <3> QED
      BY <3>1 DEF GlobOn
  <2> QED
    BY <2>4, <2>5
<1>4. 0 \in S
  <2>1. p \in p .. o - 1 /\ p + 1 + 0 = p + 1
    BY <1>1
  <2> QED
    BY <1>3, <2>1
<1>5. ASSUME NEW d \in Nat, d \in S PROVE d + 1 \in S
  <2> SUFFICES ASSUME p + 1 + (d + 1) <= o
               PROVE  \A j \in 0 .. y : j \in t[p] <=> \E k \in t[p + 1 + (d + 1)] : j <= k
    OBVIOUS
  <2> DEFINE q == p + 1 + d
  <2>1. q \in p .. o - 1 /\ q + 1 = p + 1 + (d + 1) /\ q <= o /\ q \in 0 .. z /\ q + 1 \in 0 .. z
    BY <1>1
  <2>2. \A j \in 0 .. y : j \in t[p] <=> \E k \in t[q] : j <= k
    BY <1>5, <2>1
  <2> HIDE DEF q
  <2>3. \A j \in 0 .. y : j \in t[q] <=> \E k \in t[q + 1] : j <= k
    BY <1>3, <2>1
  <2>4. t[q] \subseteq 0 .. y /\ t[q + 1] \subseteq 0 .. y /\ y \in Nat
    BY <1>1, <1>2, <2>1
  <2>5. \A j \in 0 .. y : (\E k \in t[q] : j <= k) <=> \E k \in t[q + 1] : j <= k
    BY <2>3, <2>4
  <2> QED
    BY <2>1, <2>2, <2>5
<1>6. \A d \in Nat : d \in S
  <2> HIDE DEF S
  <2> QED
    BY <1>4, <1>5, InductionOnSet
<1>7. o - (p + 1) \in Nat /\ p + 1 + (o - (p + 1)) = o
  BY <1>1
<1>8. \A j \in 0 .. y : j \in t[p] <=> \E k \in t[p + 1 + (o - (p + 1))] : j <= k
  <2> DEFINE d == o - (p + 1)
  <2>0. d \in S
    <3> HIDE DEF S
    <3> QED
      BY <1>6, <1>7
  <2>1. d \in S /\ p + 1 + d <= o
    BY <1>1, <1>7, <2>0
  <2> HIDE DEF d
  <2>2. \A j \in 0 .. y : j \in t[p] <=> \E k \in t[p + 1 + d] : j <= k
    BY <2>1
  <2> QED
    BY <2>2 DEF d
<1>9. \A j \in 0 .. y : j \in t[p] <=> \E k \in t[o] : j <= k
  BY ONLY <1>7, <1>8
<1> QED
  BY <1>9 DEF o

(* The literal characters must stand in the name, one behind the other.    *)
LEMMA LiteralPasses ==
  ASSUME GlobOn, NEW t, Matches(t, pattern, name), NEW j \in 0 .. Len(name)
  PROVE  j \in t[Begin] <=> Stand(j) /\ j + (End - Begin) \in t[End]
<1> DEFINE o == Begin
           e == End
           z == Len(pattern)
           y == Len(name)
           Up(d) == /\ j + d <= y
                    /\ \A i \in 1 .. d : name[j + i] = pattern[o + i]
                    /\ j + d \in t[o + d]
           S == {d \in Nat : o + d <= e => (j \in t[o] <=> Up(d))}
<1>1. /\ o \in Nat /\ e \in Nat /\ z \in Nat /\ y \in Nat /\ o <= e /\ e <= z /\ j \in Nat /\ j <= y
      /\ \A i \in o + 1 .. e : pattern[i] # STAR
  <2>1. z \in Nat /\ y \in Nat /\ p \in Nat /\ j \in Nat /\ j <= y
    BY DEF GlobOn
  <2>2. o \in p .. z /\ e \in o .. z /\ \A i \in o + 1 .. e : pattern[i] # STAR
    BY BeginIs, EndIs
  <2> HIDE DEF o, e, z, y
  <2> QED
    BY <2>1, <2>2
<1>2. Stand(j) /\ j + (e - o) \in t[e] <=> Up(e - o)
  <2>1. o + (e - o) = e
    BY <1>1
  <2> QED
    BY <2>1 DEF Stand
<1> HIDE DEF o, e
<1>3. \A q \in 0 .. z : t[q] \subseteq 0 .. y
  BY DEF Matches
<1>4. 0 \in S
  BY <1>1
<1>5. ASSUME NEW d \in Nat, d \in S PROVE d + 1 \in S
  <2> SUFFICES ASSUME o + (d + 1) <= e PROVE j \in t[o] <=> Up(d + 1)
    OBVIOUS
  <2>1. /\ o + d <= e /\ o + d \in 0 .. z - 1 /\ (o + d) + 1 = o + (d + 1) /\ (o + d) + 1 \in o + 1 .. e
        /\ (j + d) + 1 = j + (d + 1) /\ j + d \in Nat /\ o + (d + 1) \in 0 .. z
    BY <1>1
  <2>2. j \in t[o] <=> Up(d)
    BY <1>5, <2>1
  <2>3. t[o + d] = MeansFrom(pattern, name, o + d, t[(o + d) + 1]) /\ pattern[(o + d) + 1] # STAR
    BY <1>1, <2>1 DEF Matches
  <2>4. t[o + d] = {k \in 0 .. y - 1 : name[k + 1] = pattern[(o + d) + 1] /\ k + 1 \in t[(o + d) + 1]}
    BY <2>3 DEF MeansFrom
  <2>5. j + d \in t[o + d] <=> /\ j + (d + 1) <= y
                               /\ name[j + (d + 1)] = pattern[o + (d + 1)]
                               /\ j + (d + 1) \in t[o + (d + 1)]
    <3>1. j + d \in 0 .. y - 1 <=> j + (d + 1) <= y
      BY <1>1, <2>1
    <3> QED
      BY <2>1, <2>4, <3>1
  <2>6. (\A i \in 1 .. d + 1 : name[j + i] = pattern[o + i])
          <=> (\A i \in 1 .. d : name[j + i] = pattern[o + i]) /\ name[j + (d + 1)] = pattern[o + (d + 1)]
    <3>1. \A i : i \in 1 .. d + 1 <=> i \in 1 .. d \/ i = d + 1
      OBVIOUS
    <3> QED
      BY <3>1
  <2>7. j + (d + 1) <= y => j + d <= y
    BY <1>1
  <2> QED
    BY <2>2, <2>5, <2>6, <2>7
<1>6. \A d \in Nat : d \in S
  <2> HIDE DEF S
  <2> QED
    BY <1>4, <1>5, InductionOnSet
<1>7. e - o \in Nat /\ o + (e - o) <= e
  BY <1>1
<1>8. j \in t[o] <=> Up(e - o)
  BY <1>6, <1>7
<1> QED
  BY <1>2, <1>8 DEF o, e

(* What a round does not change: f is a place from which the rest of the   *)
(* pattern means the rest of the name.                                     *)
LEMMA RoundFacts ==
  ASSUME GlobOn
  PROVE  /\ p \in Nat /\ f \in Nat /\ Begin \in Nat /\ End \in Nat /\ Len(pattern) \in Nat /\ Len(name) \in Nat
         /\ p <= Begin /\ Begin <= End /\ End <= Len(pattern) /\ f <= Len(name)
         /\ p < Len(pattern) /\ Begin > 0 => Begin > p
         /\ End < Len(pattern) => Begin < End
<1> DEFINE o == Begin
           e == End
           z == Len(pattern)
           y == Len(name)
<1>1. z \in Nat /\ y \in Nat /\ p \in Nat /\ f \in Nat /\ f <= y
  BY DEF GlobOn
<1>2. o \in p .. z /\ e \in o .. z
  BY BeginIs, EndIs
<1>3. p < z /\ o > 0 => o > p
  <2> SUFFICES ASSUME p < z, o > 0, o = p PROVE FALSE
    <3> HIDE DEF o, z
    <3> QED
      BY <1>1, <1>2
  <2>1. pattern[p + 1] = STAR
    BY <1>1 DEF GlobOn
  <2>2. Begin = Len(pattern) \/ pattern[Begin + 1] # STAR
    BY BeginIs
  <2> QED
    BY <1>1, <2>1, <2>2
<1>4. e < z => o < e
  <2> SUFFICES ASSUME e < z, o = e PROVE FALSE
    <3> HIDE DEF o, e, z
    <3> QED
      BY <1>1, <1>2
  <2>1. pattern[e + 1] = STAR
    BY <1>1, EndIs
  <2>2. Begin = Len(pattern) \/ pattern[Begin + 1] # STAR
    BY BeginIs
  <2> QED
    BY <1>1, <2>1, <2>2
<1> HIDE DEF o, e, z, y
<1>5. /\ p \in Nat /\ f \in Nat /\ o \in Nat /\ e \in Nat /\ z \in Nat /\ y \in Nat
      /\ p <= o /\ o <= e /\ e <= z /\ f <= y
  BY <1>1, <1>2
<1> QED
  BY <1>3, <1>4, <1>5 DEF o, e, z, y

LEMMA AtBeginningMatches ==
  ASSUME GlobOn, NEW t, Matches(t, pattern, name), Begin = 0
  PROVE  /\ f \in t[p] <=> Occurs(f) /\ f + End \in t[End]
         /\ Occurs(f) => f + End \in 0 .. Len(name)
<1>1. f \in 0 .. Len(name)
  BY DEF GlobOn
<1>2. p = Begin
  BY RoundFacts
<1>3. f \in t[Begin] <=> Stand(f) /\ f + (End - Begin) \in t[End]
  BY <1>1, LiteralPasses
<1>4. Occurs(f) <=> Stand(f)
  BY <1>1, OccursIs
<1>5. End - Begin = End /\ f + End \in Nat
  BY RoundFacts
<1>6. Stand(f) => f + End <= Len(name)
  BY <1>5 DEF Stand
<1> QED
  BY <1>2, <1>3, <1>4, <1>5, <1>6, RoundFacts

LEMMA AtEndMatches ==
  ASSUME GlobOn, NEW t, Matches(t, pattern, name), p < Len(pattern), Begin > 0, End = Len(pattern)
  PROVE  f \in t[p] <=> Len(name) - f >= Len(Literal) /\ Occurs(Len(name) - Len(Literal))
<1> DEFINE l == End - Begin
           y == Len(name)
<1>1. Begin > p /\ l \in Nat /\ y \in Nat /\ f \in 0 .. y /\ f \in Nat
  BY RoundFacts
<1>2. f \in t[p] <=> \E k \in t[Begin] : f <= k
  BY <1>1, StarsPass
<1>3. t[End] = {y} /\ t[Begin] \subseteq 0 .. y
  BY RoundFacts DEF Matches
<1>4. \A k \in 0 .. y : k \in t[Begin] <=> Stand(k) /\ k + l \in t[End]
  BY LiteralPasses
<1>5. Len(Literal) = l /\ \A k \in 0 .. y : Occurs(k) <=> Stand(k)
  BY <1>1, OccursIs
<1> HIDE DEF l, y
<1>6. ASSUME NEW k \in t[Begin], f <= k PROVE y - f >= l /\ Occurs(y - l)
  <2>1. k \in 0 .. y /\ k + l = y /\ Stand(k)
    BY <1>3, <1>4, <1>6
  <2>2. k = y - l /\ y - f >= l
    BY <1>1, <1>6, <2>1
  <2> QED
    BY <1>5, <2>1, <2>2
<1>7. ASSUME y - f >= l, Occurs(y - l) PROVE \E k \in t[Begin] : f <= k
  <2>1. y - l \in 0 .. y /\ (y - l) + l = y /\ f <= y - l
    BY <1>1, <1>7
  <2>2. y - l \in t[Begin]
    BY <1>3, <1>4, <1>5, <1>7, <2>1
  <2> QED
    BY <2>1, <2>2
<1> QED
  BY <1>2, <1>5, <1>6, <1>7 DEF y

(* The first place will do: a star follows, which lets pass what a later   *)
(* place would.                                                            *)
LEMMA InTheMiddleMatches ==
  ASSUME GlobOn, NEW t, Matches(t, pattern, name), p < Len(pattern), Begin > 0, End < Len(pattern)
  PROVE  /\ f \in t[p] => \E i \in f .. Len(name) - 1 : Occurs(i)
         /\ \A i \in f .. Len(name) - 1 :
              Place(i) => /\ i + Len(Literal) \in 0 .. Len(name)
                          /\ f \in t[p] <=> i + Len(Literal) \in t[End]
<1> DEFINE l == End - Begin
           y == Len(name)
<1>1. Begin > p /\ l \in Nat /\ l > 0 /\ y \in Nat /\ f \in 0 .. y /\ f \in Nat
  BY RoundFacts
<1>2. f \in t[p] <=> \E k \in t[Begin] : f <= k
  BY <1>1, StarsPass
<1>3. t[Begin] \subseteq 0 .. y /\ t[End + 1] \subseteq 0 .. y
  BY RoundFacts DEF Matches
<1>4. \A k \in 0 .. y : k \in t[Begin] <=> Stand(k) /\ k + l \in t[End]
  BY LiteralPasses
<1>5. Len(Literal) = l /\ \A k \in 0 .. y : Occurs(k) <=> Stand(k)
  BY <1>1, OccursIs
<1>6. \A k : Stand(k) => k + l <= y
  BY DEF Stand
<1>7. \A j \in 0 .. y : \A k \in t[End] : j <= k => j \in t[End]
  <2>1. pattern[End + 1] = STAR /\ End \in 0 .. Len(pattern) - 1
    BY EndIs, RoundFacts
  <2>2. t[End] = {j \in 0 .. y : \E k \in t[End + 1] : j <= k /\ \A m \in j + 1 .. k : name[m] # SLASH}
    BY <2>1 DEF Matches, MeansFrom
  <2> SUFFICES ASSUME NEW j \in 0 .. y, NEW k \in t[End], j <= k PROVE j \in t[End]
    OBVIOUS
  <2>3. PICK x \in t[End + 1] : k <= x
    BY <2>2
  <2>4. k \in 0 .. y /\ x \in 0 .. y /\ j <= x
    BY <1>1, <1>3, <2>2, <2>3
  <2>5. \A m \in j + 1 .. x : m \in 1 .. y
    BY <1>1, <2>4
  <2>6. \A m \in j + 1 .. x : name[m] # SLASH
    BY <2>5 DEF GlobOn
  <2> QED
    BY <2>2, <2>4, <2>6
<1> HIDE DEF l
<1>8. ASSUME NEW k \in t[Begin], f <= k PROVE k \in f .. y - 1 /\ Occurs(k) /\ k + l \in t[End]
  <2>1. k \in 0 .. y /\ Stand(k) /\ k + l \in t[End] /\ k + l <= y
    BY <1>3, <1>4, <1>6
  <2> QED
    BY <1>1, <1>5, <1>8, <2>1
<1>9. ASSUME NEW i \in f .. y - 1, Place(i)
      PROVE  i + l \in 0 .. y /\ (f \in t[p] <=> i + l \in t[End])
  <2>1. i \in 0 .. y /\ f <= i /\ Occurs(i) /\ Stand(i) /\ i + l \in 0 .. y
    BY <1>1, <1>5, <1>6, <1>9 DEF Place
  <2>2. i + l \in t[End] => i \in t[Begin]
    BY <1>4, <2>1
  <2>3. ASSUME NEW k \in t[Begin], f <= k PROVE i + l \in t[End]
    <3>1. k \in f .. y - 1 /\ Occurs(k) /\ k + l \in t[End]
      BY <1>8, <2>3
    <3>2. ~(k \in f .. i - 1)
      BY <1>9, <3>1 DEF Place
    <3>3. i + l <= k + l
      BY <1>1, <2>1, <3>1, <3>2
    <3> QED
      BY <1>7, <2>1, <3>1, <3>3
  <2> QED
    BY <1>2, <2>1, <2>2, <2>3
<1>10. f \in t[p] => \E i \in f .. y - 1 : Occurs(i)
  BY <1>2, <1>8
<1>11. \A i \in f .. y - 1 : Place(i) => i + Len(Literal) \in 0 .. y /\ (f \in t[p] <=> i + Len(Literal) \in t[End])
  BY <1>5, <1>9
<1> QED
  BY <1>10, <1>11

-----------------------------------------------------------------------------
(* Several slashes are as good as one: k[i] is what is kept of the first i *)
(* characters of s.                                                        *)
Keeps(k, s) ==
  /\ k \in [0 .. Len(s) -> Seq(Characters)] /\ k[0] = <<>>
  /\ \A i \in 1 .. Len(s) :
       k[i] = IF i > 1 /\ s[i] = SLASH /\ s[i - 1] = SLASH THEN k[i - 1] ELSE Append(k[i - 1], s[i])

LEMMA CollapsedKeeps ==
  ASSUME NEW s \in Seq(Characters)
  PROVE  \E k : Keeps(k, s) /\ Collapsed(s) = k[Len(s)]
<1> DEFINE a == Len(s)
           V == Seq(Characters)
           step == [i \in 1 .. a |->
                      [v \in V |-> IF i > 1 /\ s[i] = SLASH /\ s[i - 1] = SLASH THEN v ELSE Append(v, s[i])]]
           Equation(k) == k = [i \in 0 .. a |->
                                 IF i = 0 THEN <<>>
                                 ELSE IF i > 1 /\ s[i] = SLASH /\ s[i - 1] = SLASH THEN k[i - 1]
                                      ELSE Append(k[i - 1], s[i])]
           m == CHOOSE k : Equation(k)
<1>1. a \in Nat /\ \A i \in 1 .. a : s[i] \in Characters
  BY ElementOfSeq
<1>2. \A i \in 1 .. a : \A v \in V : Append(v, s[i]) \in V
  BY <1>1, AppendProperties
<1>3. \A i \in 0 + 1 .. a : step[i] \in [V -> V]
  <2> HIDE DEF V
  <2> QED
    BY <1>1, <1>2
<1>4. PICK h : Solves(h, 0, a, V, <<>>, step)
  <2> HIDE DEF step
  <2>1. 0 \in Int /\ a \in Int /\ 0 <= a /\ <<>> \in V
    BY <1>1
  <2> HIDE DEF a, V
  <2> QED
    BY ONLY <1>3, <2>1, Recursion
<1>5. /\ h \in [0 .. a -> V] /\ h[0] = <<>>
      /\ \A i \in 1 .. a : h[i] = IF i > 1 /\ s[i] = SLASH /\ s[i - 1] = SLASH THEN h[i - 1]
                                  ELSE Append(h[i - 1], s[i])
  <2>1. h \in [0 .. a -> V] /\ h[0] = <<>> /\ \A i \in 0 + 1 .. a : h[i] = step[i][h[i - 1]]
    BY <1>4 DEF Solves
  <2>2. \A i \in 1 .. a : i \in 0 + 1 .. a /\ i - 1 \in 0 .. a
    BY <1>1
  <2> HIDE DEF V, a
  <2> QED
    BY <2>1, <2>2
<1>6. Equation(h)
  <2>1. h = [i \in 0 .. a |-> h[i]]
    BY <1>5
  <2>2. \A i \in 0 .. a : h[i] = IF i = 0 THEN <<>>
                                 ELSE IF i > 1 /\ s[i] = SLASH /\ s[i - 1] = SLASH THEN h[i - 1]
                                      ELSE Append(h[i - 1], s[i])
    <3>1. \A i \in 0 .. a : i # 0 => i \in 1 .. a
      BY <1>1
    <3> QED
      BY <1>5, <3>1
  <2> QED
    BY <2>1, <2>2
<1>7. Equation(m)
  <2>1. \E k : Equation(k)
    BY <1>6
  <2> HIDE DEF Equation
  <2> QED
    BY <2>1
<1>8. Collapsed(s) = m[a]
  BY DEF Collapsed
<1> HIDE DEF m
<1>9. /\ DOMAIN m = 0 .. a /\ m = [i \in 0 .. a |-> m[i]] /\ m[0] = <<>>
      /\ \A i \in 1 .. a : m[i] = IF i > 1 /\ s[i] = SLASH /\ s[i - 1] = SLASH THEN m[i - 1]
                                  ELSE Append(m[i - 1], s[i])
  <2>1. DOMAIN m = 0 .. a /\ m = [i \in 0 .. a |-> m[i]]
    BY <1>7
  <2>2. ASSUME NEW i \in 0 .. a
        PROVE  m[i] = IF i = 0 THEN <<>>
                      ELSE IF i > 1 /\ s[i] = SLASH /\ s[i - 1] = SLASH THEN m[i - 1]
                           ELSE Append(m[i - 1], s[i])
    BY <1>7
  <2>3. 0 \in 0 .. a /\ \A i \in 1 .. a : i \in 0 .. a /\ i # 0
    BY <1>1
  <2> QED
    BY <2>1, <2>2, <2>3
<1> DEFINE S == {i \in Nat : i <= a => m[i] \in V}
<1>10. 0 \in S
  BY <1>9
<1>11. ASSUME NEW i \in Nat, i \in S PROVE i + 1 \in S
  <2> SUFFICES ASSUME i + 1 <= a PROVE m[i + 1] \in V
    OBVIOUS
  <2>1. i + 1 \in 1 .. a /\ (i + 1) - 1 = i /\ m[i] \in V
    BY <1>1, <1>11
  <2>2. m[i + 1] = m[i] \/ m[i + 1] = Append(m[i], s[i + 1])
    BY <1>9, <2>1
  <2> QED
    BY <1>2, <2>1, <2>2
<1>12. \A i \in Nat : i \in S
  <2> HIDE DEF S
  <2> QED
    BY <1>10, <1>11, InductionOnSet
<1>13. m \in [0 .. a -> V]
  <2>1. \A i \in 0 .. a : m[i] \in V
    BY <1>1, <1>12
  <2> HIDE DEF V
  <2> QED
    BY <1>9, <2>1
<1> QED
  BY <1>8, <1>9, <1>13 DEF Keeps

(* What is kept of the first characters depends on no others.              *)
LEMMA SameKept ==
  ASSUME NEW s \in Seq(Characters), NEW u \in Seq(Characters), NEW k, NEW l, Keeps(k, s), Keeps(l, u),
         NEW d \in Nat, d <= Len(s), d <= Len(u), \A i \in 1 .. d : s[i] = u[i]
  PROVE  k[d] = l[d]
<1> DEFINE S == {i \in Nat : i <= d => k[i] = l[i]}
<1>1. Len(s) \in Nat /\ Len(u) \in Nat
  OBVIOUS
<1>2. 0 \in S
  BY DEF Keeps
<1>3. ASSUME NEW i \in Nat, i \in S PROVE i + 1 \in S
  <2> SUFFICES ASSUME i + 1 <= d PROVE k[i + 1] = l[i + 1]
    OBVIOUS
  <2>1. /\ i + 1 \in 1 .. Len(s) /\ i + 1 \in 1 .. Len(u) /\ (i + 1) - 1 = i /\ k[i] = l[i]
        /\ s[i + 1] = u[i + 1] /\ (i + 1 > 1 => s[i] = u[i])
    BY <1>1, <1>3
  <2>2. k[i + 1] = IF i + 1 > 1 /\ s[i + 1] = SLASH /\ s[i] = SLASH THEN k[i] ELSE Append(k[i], s[i + 1])
    BY <2>1 DEF Keeps
  <2>3. l[i + 1] = IF i + 1 > 1 /\ u[i + 1] = SLASH /\ u[i] = SLASH THEN l[i] ELSE Append(l[i], u[i + 1])
    BY <2>1 DEF Keeps
  <2> QED
    BY <2>1, <2>2, <2>3
<1>4. \A i \in Nat : i \in S
  <2> HIDE DEF S
  <2> QED
    BY <1>2, <1>3, InductionOnSet
<1> QED
  BY <1>4

(* The argument of an Include, or the name of a file: a directory ends at  *)
(* d, and only slashes are between it and what stands behind e.            *)
Divided(w, d, e) ==
  /\ w \in Seq(Characters) /\ e \in 1 .. Len(w) /\ d \in 0 .. e - 1
  /\ d = 0 \/ w[d] # SLASH
  /\ \A i \in d + 1 .. e : w[i] = SLASH
  /\ \A i \in e + 1 .. Len(w) : w[i] # SLASH
  /\ \A i \in 1 .. e : w[i] # STAR

(* x stands behind the first `at' characters of w.                         *)
Behind(w, at, x) ==
  /\ w \in Seq(Characters) /\ Len(w) = at + Len(x)
  /\ \A i \in 1 .. Len(x) : w[at + i] = x[i]

LEMMA CollapsedIs ==
  ASSUME NEW w, NEW d, NEW e, Divided(w, d, e), NEW x \in Seq(Characters), Behind(w, e, x),
         NEW k, Keeps(k, w), Collapsed(w) = k[Len(w)]
  PROVE  /\ k[d] \in Seq(Characters) /\ Behind(Collapsed(w), Len(k[d]) + 1, x)
         /\ \A j \in 1 .. Len(k[d]) : Collapsed(w)[j] = k[d][j] /\ k[d][j] # STAR
         /\ Collapsed(w)[Len(k[d]) + 1] = SLASH
<1> DEFINE z == Len(w)
           kept == Append(k[d], SLASH)
           at == Len(k[d]) + 1
<1>1. /\ w \in Seq(Characters) /\ z \in Nat /\ e \in Nat /\ d \in Nat /\ d < e /\ e <= z
      /\ Len(x) \in Nat /\ z = e + Len(x)
      /\ \A i \in 1 .. z : w[i] \in Characters
  BY ElementOfSeq DEF Divided, Behind
<1>2. \A i \in 0 .. z : k[i] \in Seq(Characters)
  BY DEF Keeps
<1>3. /\ k[d] \in Seq(Characters) /\ kept \in Seq(Characters) /\ Len(k[d]) \in Nat /\ at \in Nat /\ Len(kept) = at
      /\ (\A j \in 1 .. Len(k[d]) : kept[j] = k[d][j]) /\ kept[at] = SLASH
  <2>1. k[d] \in Seq(Characters) /\ SLASH \in Characters
    BY <1>1, <1>2 DEF Characters
  <2> QED
    BY <2>1, AppendProperties
<1> HIDE DEF kept
<1>4. \A j \in 1 .. Len(k[d]) : k[d][j] # STAR
  <2> DEFINE S == {i \in Nat : i <= d => \A j \in 1 .. Len(k[i]) : k[i][j] # STAR}
  <2>1. 0 \in S
    BY DEF Keeps
  <2>2. ASSUME NEW i \in Nat, i \in S PROVE i + 1 \in S
    <3> SUFFICES ASSUME i + 1 <= d, NEW j \in 1 .. Len(k[i + 1]) PROVE k[i + 1][j] # STAR
      OBVIOUS
    <3>1. /\ i + 1 \in 1 .. z /\ (i + 1) - 1 = i /\ w[i + 1] # STAR /\ w[i + 1] \in Characters
          /\ k[i] \in Seq(Characters) /\ Len(k[i]) \in Nat /\ \A y \in 1 .. Len(k[i]) : k[i][y] # STAR
      BY <1>1, <1>2, <2>2 DEF Divided
    <3>2. k[i + 1] = k[i] \/ k[i + 1] = Append(k[i], w[i + 1])
      BY <3>1 DEF Keeps
    <3>3. /\ Len(Append(k[i], w[i + 1])) = Len(k[i]) + 1
          /\ (\A y \in 1 .. Len(k[i]) : Append(k[i], w[i + 1])[y] = k[i][y])
          /\ Append(k[i], w[i + 1])[Len(k[i]) + 1] = w[i + 1]
      BY <3>1, AppendProperties
    <3>4. CASE k[i + 1] = k[i]
      BY <3>1, <3>4
    <3>5. CASE k[i + 1] = Append(k[i], w[i + 1])
      <4>1. j \in 1 .. Len(k[i]) \/ j = Len(k[i]) + 1
        BY <3>1, <3>3, <3>5
      <4> QED
        BY <3>1, <3>3, <3>5, <4>1
    <3> QED
      BY <3>2, <3>4, <3>5
  <2>3. \A i \in Nat : i \in S
    <3> HIDE DEF S
    <3> QED
      BY <2>1, <2>2, InductionOnSet
  <2> QED
    BY <1>1, <2>3
<1>5. k[e] = kept
  <2> DEFINE S == {i \in Nat : d + 1 + i <= e => k[d + 1 + i] = kept}
  <2>1. 0 \in S
    <3>1. d + 1 \in 1 .. z /\ (d + 1) - 1 = d /\ w[d + 1] = SLASH /\ (d + 1 > 1 => w[d] # SLASH) /\ d + 1 + 0 = d + 1
      BY <1>1 DEF Divided
    <3>2. k[d + 1] = Append(k[d], w[d + 1])
      BY <3>1 DEF Keeps
    <3> QED
      BY <3>1, <3>2 DEF kept
  <2>2. ASSUME NEW i \in Nat, i \in S PROVE i + 1 \in S
    <3> SUFFICES ASSUME d + 1 + (i + 1) <= e PROVE k[d + 1 + (i + 1)] = kept
      OBVIOUS
    <3> DEFINE q == d + 1 + (i + 1)
    <3>1. q \in 1 .. z /\ q > 1 /\ q - 1 = d + 1 + i /\ q \in d + 1 .. e /\ q - 1 \in d + 1 .. e
      BY <1>1
    <3> HIDE DEF q
    <3>2. w[q] = SLASH /\ w[q - 1] = SLASH
      BY <3>1 DEF Divided
    <3>3. k[q] = k[q - 1]
      BY <3>1, <3>2 DEF Keeps
    <3>4. k[q - 1] = kept
      BY <1>1, <2>2, <3>1
    <3> QED
      BY <3>3, <3>4 DEF q
  <2>3. \A i \in Nat : i \in S
    <3> HIDE DEF S
    <3> QED
      BY <2>1, <2>2, InductionOnSet
  <2>4. e - (d + 1) \in Nat /\ d + 1 + (e - (d + 1)) = e
    BY <1>1
  <2>5. e - (d + 1) \in S
    <3> HIDE DEF S
    <3> QED
      BY <2>3, <2>4
  <2> QED
    BY <1>1, <2>4, <2>5
<1> DEFINE Grown(y, i) == /\ y \in Seq(Characters) /\ Len(y) = at + i
                          /\ \A j \in 1 .. at : y[j] = kept[j]
                          /\ \A j \in 1 .. i : y[at + j] = w[e + j]
           S == {i \in Nat : e + i <= z => Grown(k[e + i], i)}
<1> HIDE DEF at
<1>6. 0 \in S
  <2>1. e + 0 = e /\ at + 0 = at
    BY <1>1, <1>3
  <2> QED
    BY <1>3, <1>5, <2>1
<1>7. ASSUME NEW i \in Nat, i \in S PROVE i + 1 \in S
  <2> SUFFICES ASSUME e + (i + 1) <= z PROVE Grown(k[e + (i + 1)], i + 1)
    OBVIOUS
  <2> DEFINE q == e + (i + 1)
             y == k[e + i]
  <2>1. q \in 1 .. z /\ q - 1 = e + i /\ q \in e + 1 .. z /\ e + i <= z
    BY <1>1
  <2>2. Grown(y, i)
    BY <1>7, <2>1
  <2>3. w[q] # SLASH /\ w[q] \in Characters
    <3> HIDE DEF q
    <3> QED
      BY <1>1, <2>1 DEF Divided
  <2>4. k[q] = Append(y, w[q])
    <3> HIDE DEF q
    <3> QED
      BY <2>1, <2>3 DEF Keeps
  <2> HIDE DEF y
  <2>5. /\ Append(y, w[q]) \in Seq(Characters) /\ Len(Append(y, w[q])) = Len(y) + 1
        /\ (\A j \in 1 .. Len(y) : Append(y, w[q])[j] = y[j]) /\ Append(y, w[q])[Len(y) + 1] = w[q]
    BY <2>2, <2>3, AppendProperties
  <2> DEFINE r == Append(y, w[q])
  <2> HIDE DEF r
  <2>6. /\ r \in Seq(Characters) /\ Len(r) = at + (i + 1)
        /\ \A j \in 1 .. at : r[j] = kept[j]
    BY <1>3, <2>2, <2>5 DEF r
  <2>7. ASSUME NEW j \in 1 .. i + 1 PROVE r[at + j] = w[e + j]
    <3>1. CASE j = i + 1
      BY <1>3, <2>2, <2>5, <3>1 DEF r
    <3>2. CASE j \in 1 .. i
      <4>1. at + j \in 1 .. Len(y) /\ y[at + j] = w[e + j]
        BY <1>3, <2>2, <3>2
      <4> QED
        BY <2>5, <4>1 DEF r
    <3> QED
      BY <3>1, <3>2
  <2> QED
    BY <2>4, <2>6, <2>7 DEF r
<1>8. \A i \in Nat : i \in S
  <2> HIDE DEF S
  <2> QED
    BY <1>6, <1>7, InductionOnSet
<1> DEFINE G == Collapsed(w)
<1>9. Grown(G, Len(x))
  <2>1. Len(x) \in S
    <3> HIDE DEF S
    <3> QED
      BY <1>1, <1>8
  <2> QED
    BY <1>1, <2>1
<1> HIDE DEF G
<1>10. Behind(G, at, x)
  BY <1>9 DEF Behind
<1>11. \A j \in 1 .. Len(k[d]) : G[j] = k[d][j]
  BY <1>3, <1>9 DEF at
<1>12. G[at] = SLASH
  BY <1>3, <1>9 DEF at
<1> QED
  BY <1>3, <1>4, <1>10, <1>11, <1>12 DEF G, at

(* Behind the same directory the pattern means the same names.             *)
LEMMA SameDirectory ==
  ASSUME NEW g, NEW s, NEW at \in Nat, NEW x \in Seq(Characters), NEW y \in Seq(Characters),
         Behind(g, at, x), Behind(s, at, y), \A i \in 1 .. at : g[i] = s[i] /\ g[i] # STAR
  PROVE  \E t : Matches(t, x, y) /\ (Means(g, s) <=> 0 \in t[0])
<1> DEFINE a == Len(x)
           b == Len(y)
<1>1. /\ g \in Seq(Characters) /\ s \in Seq(Characters) /\ a \in Nat /\ b \in Nat
      /\ Len(g) = at + a /\ Len(s) = at + b
      /\ (\A i \in 1 .. a : g[at + i] = x[i]) /\ (\A i \in 1 .. b : s[at + i] = y[i])
  BY DEF Behind
<1> HIDE DEF a, b
<1>2. PICK m : Matches(m, g, s) /\ (Means(g, s) <=> 0 \in m[0])
  BY <1>1, MeansIs
<1>3. /\ \A i \in 0 .. at + a : m[i] \subseteq 0 .. at + b
      /\ m[at + a] = {at + b}
      /\ \A i \in 0 .. at + a - 1 : m[i] = MeansFrom(g, s, i, m[i + 1])
  BY <1>1, <1>2 DEF Matches
<1> DEFINE S == {i \in Nat : i <= at => (0 \in m[0] <=> i \in m[i])}
<1>4. 0 \in S
  OBVIOUS
<1>5. ASSUME NEW i \in Nat, i \in S PROVE i + 1 \in S
  <2> SUFFICES ASSUME i + 1 <= at PROVE 0 \in m[0] <=> i + 1 \in m[i + 1]
    OBVIOUS
  <2>1. i \in 0 .. at + a - 1 /\ i \in 0 .. at + b - 1 /\ i + 1 \in 1 .. at /\ (0 \in m[0] <=> i \in m[i])
    BY <1>1, <1>5
  <2>2. m[i] = {j \in 0 .. at + b - 1 : s[j + 1] = g[i + 1] /\ j + 1 \in m[i + 1]}
    <3>1. g[i + 1] # STAR /\ m[i] = MeansFrom(g, s, i, m[i + 1])
      BY <1>3, <2>1
    <3> QED
      BY <1>1, <3>1 DEF MeansFrom
  <2>3. s[i + 1] = g[i + 1]
    BY <2>1
  <2> QED
    BY <2>1, <2>2, <2>3
<1>6. \A i \in Nat : i \in S
  <2> HIDE DEF S
  <2> QED
    BY <1>4, <1>5, InductionOnSet
<1>7. 0 \in m[0] <=> at \in m[at]
  BY <1>6
<1> DEFINE t == [i \in 0 .. a |-> {j \in 0 .. b : at + j \in m[at + i]}]
<1>8. /\ t \in [0 .. a -> SUBSET (0 .. b)]
      /\ \A i \in 0 .. a : t[i] = {j \in 0 .. b : at + j \in m[at + i]}
  OBVIOUS
<1> HIDE DEF t
<1>9. t[a] = {b}
  <2>1. a \in 0 .. a /\ \A j \in 0 .. b : at + j \in {at + b} <=> j = b
    BY <1>1
  <2>2. t[a] = {j \in 0 .. b : at + j \in {at + b}}
    BY <1>3, <1>8, <2>1
  <2> QED
    BY <1>1, <2>1, <2>2
<1>10. ASSUME NEW i \in 0 .. a - 1 PROVE t[i] = MeansFrom(x, y, i, t[i + 1])
  <2> DEFINE R == m[at + (i + 1)]
  <2>1. /\ at + i \in 0 .. at + a - 1 /\ (at + i) + 1 = at + (i + 1) /\ i + 1 \in 1 .. a
        /\ i \in 0 .. a /\ i + 1 \in 0 .. a /\ at + (i + 1) \in 0 .. at + a
    BY <1>1
  <2>2. /\ m[at + i] = MeansFrom(g, s, at + i, R) /\ R \subseteq 0 .. at + b
        /\ g[(at + i) + 1] = x[i + 1]
    BY <1>1, <1>3, <2>1
  <2>3. t[i] = {j \in 0 .. b : at + j \in m[at + i]} /\ t[i + 1] = {j \in 0 .. b : at + j \in R}
    BY <1>8, <2>1
  <2> HIDE DEF R
  <2>4. CASE x[i + 1] = STAR
    <3>1. m[at + i] = {j \in 0 .. at + b : \E k \in R : j <= k /\ \A l \in j + 1 .. k : s[l] # SLASH}
      BY <1>1, <2>2, <2>4 DEF MeansFrom
    <3>2. MeansFrom(x, y, i, t[i + 1])
            = {j \in 0 .. b : \E k \in t[i + 1] : j <= k /\ \A l \in j + 1 .. k : y[l] # SLASH}
      BY <2>4 DEF MeansFrom, b
    <3>3. ASSUME NEW j \in 0 .. b, NEW k \in 0 .. b
          PROVE  (\A l \in at + j + 1 .. at + k : s[l] # SLASH) <=> \A l \in j + 1 .. k : y[l] # SLASH
      <4>1. ASSUME \A l \in at + j + 1 .. at + k : s[l] # SLASH, NEW l \in j + 1 .. k PROVE y[l] # SLASH
        <5>1. at + l \in at + j + 1 .. at + k /\ l \in 1 .. b
          <6>1. at \in Nat /\ b \in Nat /\ j \in Nat /\ k \in Nat
            BY <1>1
          <6> HIDE DEF b
          <6> QED
            BY ONLY <6>1
        <5>2. s[at + l] # SLASH /\ s[at + l] = y[l]
          BY <1>1, <4>1, <5>1
        <5> QED
          BY <5>2
      <4>2. ASSUME \A l \in j + 1 .. k : y[l] # SLASH, NEW l \in at + j + 1 .. at + k PROVE s[l] # SLASH
        <5>1. l - at \in j + 1 .. k /\ l - at \in 1 .. b /\ at + (l - at) = l
          <6>1. at \in Nat /\ b \in Nat /\ j \in Nat /\ k \in Nat
            BY <1>1
          <6> HIDE DEF b
          <6> QED
            BY ONLY <6>1
        <5>2. PICK q \in 1 .. b : q \in j + 1 .. k /\ at + q = l
          BY <5>1
        <5>3. y[q] # SLASH /\ s[at + q] = y[q]
          BY <1>1, <4>2, <5>2
        <5> QED
          BY <5>2, <5>3
      <4> QED
        BY <4>1, <4>2
    <3>4. ASSUME NEW j \in 0 .. b
          PROVE  at + j \in m[at + i] <=> \E k \in t[i + 1] : j <= k /\ \A l \in j + 1 .. k : y[l] # SLASH
      <4>1. at + j \in m[at + i] <=> \E k \in R : at + j <= k /\ \A l \in at + j + 1 .. k : s[l] # SLASH
        BY <1>1, <3>1
      <4>2. ASSUME NEW k \in R, at + j <= k, \A l \in at + j + 1 .. k : s[l] # SLASH
            PROVE  \E q \in t[i + 1] : j <= q /\ \A l \in j + 1 .. q : y[l] # SLASH
        <5>1. k - at \in 0 .. b /\ at + (k - at) = k /\ j <= k - at
          BY <1>1, <2>2, <4>2
        <5>2. k - at \in t[i + 1]
          BY <2>3, <5>1
        <5>3. \A l \in j + 1 .. k - at : y[l] # SLASH
          BY <3>3, <4>2, <5>1
        <5> QED
          BY <5>1, <5>2, <5>3
      <4>3. ASSUME NEW q \in t[i + 1], j <= q, \A l \in j + 1 .. q : y[l] # SLASH
            PROVE  \E k \in R : at + j <= k /\ \A l \in at + j + 1 .. k : s[l] # SLASH
        <5>1. q \in 0 .. b /\ at + q \in R /\ at + j <= at + q
          BY <1>1, <2>3, <4>3
        <5>2. \A l \in at + j + 1 .. at + q : s[l] # SLASH
          BY <3>3, <4>3, <5>1
        <5> QED
          BY <5>1, <5>2
      <4> QED
        BY <4>1, <4>2, <4>3
    <3> QED
      BY <2>3, <3>2, <3>4
  <2>5. CASE x[i + 1] # STAR
    <3>1. m[at + i] = {j \in 0 .. at + b - 1 : s[j + 1] = x[i + 1] /\ j + 1 \in R}
      BY <1>1, <2>2, <2>5 DEF MeansFrom
    <3>2. MeansFrom(x, y, i, t[i + 1]) = {j \in 0 .. b - 1 : y[j + 1] = x[i + 1] /\ j + 1 \in t[i + 1]}
      BY <2>5 DEF MeansFrom, b
    <3>3. ASSUME NEW j \in 0 .. b
          PROVE  at + j \in m[at + i] <=> j \in 0 .. b - 1 /\ y[j + 1] = x[i + 1] /\ j + 1 \in t[i + 1]
      <4>1. /\ at + j \in 0 .. at + b - 1 <=> j \in 0 .. b - 1
            /\ j \in 0 .. b - 1 => j + 1 \in 1 .. b /\ j + 1 \in 0 .. b /\ (at + j) + 1 = at + (j + 1)
        <5>1. at \in Nat /\ b \in Nat /\ j \in Nat
          BY <1>1
        <5> HIDE DEF b
        <5> QED
          BY ONLY <5>1
      <4>2. j \in 0 .. b - 1 => s[(at + j) + 1] = y[j + 1] /\ ((at + j) + 1 \in R <=> j + 1 \in t[i + 1])
        BY <1>1, <2>3, <4>1
      <4> QED
        BY <3>1, <4>1, <4>2
    <3>4. 0 .. b - 1 \subseteq 0 .. b
      BY <1>1
    <3>5. t[i] = {j \in 0 .. b - 1 : y[j + 1] = x[i + 1] /\ j + 1 \in t[i + 1]}
      BY <2>3, <3>3, <3>4
    <3> QED
      BY <3>2, <3>5
  <2> QED
    BY <2>4, <2>5
<1>11. 0 \in t[0] <=> at \in m[at]
  <2>1. 0 \in 0 .. a /\ 0 \in 0 .. b /\ at + 0 = at
    BY <1>1
  <2> QED
    BY <1>8, <2>1
<1>12. Matches(t, x, y)
  BY <1>8, <1>9, <1>10 DEF Matches, a, b
<1>13. Means(g, s) <=> 0 \in t[0]
  BY <1>2, <1>7, <1>11
<1> QED
  BY <1>12, <1>13

-----------------------------------------------------------------------------
(* parse_glob.  A place where something is found for the first time, and   *)
(* one where it is found for the last time.                                *)
LEMMA FirstStarIs ==
  ASSUME glob \in Seq(Characters), STAR \in ToSet(glob)
  PROVE  /\ FirstStar \in 1 .. Len(glob) /\ glob[FirstStar] = STAR
         /\ \A j \in 1 .. FirstStar - 1 : glob[j] # STAR
<1> DEFINE S == {i \in 1 .. Len(glob) : glob[i] = STAR}
           Fine(i) == glob[i] = STAR /\ \A j \in 1 .. i - 1 : glob[j] # STAR
<1>1. DOMAIN glob = 1 .. Len(glob) /\ Len(glob) \in Nat
  OBVIOUS
<1>2. S \in SUBSET Nat /\ S # {}
  <2>1. \E i \in DOMAIN glob : glob[i] = STAR
    BY DEF ToSet
  <2> QED
    BY <1>1, <2>1
<1>3. PICK i \in S : \A x \in S : i <= x
  <2> HIDE DEF S
  <2> QED
    BY <1>2, LeastNumber
<1>4. i \in 1 .. Len(glob) /\ Fine(i)
  <2>1. \A j \in 1 .. i - 1 : j \in 1 .. Len(glob) /\ ~(i <= j)
    BY <1>1, <1>3
  <2> QED
    BY <1>3, <2>1
<1>5. FirstStar = CHOOSE x \in 1 .. Len(glob) : Fine(x)
  BY <1>1 DEF FirstStar
<1>6. FirstStar \in 1 .. Len(glob) /\ Fine(FirstStar)
  <2> HIDE DEF Fine
  <2> QED
    BY <1>4, <1>5
<1> QED
  BY <1>6

LEMMA LastSlashIs ==
  ASSUME glob \in Seq(Characters), NEW z \in 1 .. Len(glob), \E j \in 1 .. z : glob[j] = SLASH
  PROVE  /\ LastSlash(z) \in 1 .. z /\ glob[LastSlash(z)] = SLASH
         /\ \A k \in LastSlash(z) + 1 .. z : glob[k] # SLASH
<1> DEFINE S == {i \in 0 .. z : i < z /\ glob[z - i] = SLASH}
           Fine(j) == glob[j] = SLASH /\ \A k \in j + 1 .. z : glob[k] # SLASH
<1>1. S \in SUBSET Nat /\ S # {} /\ z \in Nat
  <2>1. PICK j \in 1 .. z : glob[j] = SLASH
    OBVIOUS
  <2>2. z - j \in 0 .. z /\ z - j < z /\ z - (z - j) = j /\ z \in Nat
    OBVIOUS
  <2>3. z - j \in S /\ 0 .. z \subseteq Nat
    BY <2>1, <2>2
  <2> QED
    BY <2>2, <2>3
<1>2. PICK i \in S : \A x \in S : i <= x
  <2> HIDE DEF S
  <2> QED
    BY <1>1, LeastNumber
<1>3. z - i \in 1 .. z /\ Fine(z - i)
  <2>1. i \in 0 .. z /\ i < z /\ glob[z - i] = SLASH /\ z - i \in 1 .. z
    BY <1>1, <1>2
  <2>2. ASSUME NEW k \in z - i + 1 .. z, glob[k] = SLASH PROVE FALSE
    <3>1. z - k \in 0 .. z /\ z - k < z /\ z - (z - k) = k /\ ~(i <= z - k)
      BY <1>1, <2>1
    <3> QED
      BY <1>2, <2>2, <3>1
  <2> QED
    BY <2>1, <2>2
<1>4. LastSlash(z) = CHOOSE j \in 1 .. z : Fine(j)
  BY DEF LastSlash
<1>5. LastSlash(z) \in 1 .. z /\ Fine(LastSlash(z))
  <2> HIDE DEF Fine
  <2> QED
    BY <1>3, <1>4
<1> QED
  BY <1>5

LEMMA TrimmedPath ==
  ASSUME NEW s \in Seq(Characters)
  PROVE  \E d \in 0 .. Len(s) :
           /\ Trimmed(s) = SubSeq(s, 1, d) /\ (d = 0 \/ s[d] # SLASH)
           /\ \A i \in d + 1 .. Len(s) : s[i] = SLASH
<1>1. Trimmed(s) = str_rtrim(s, {SLASH})
  BY DEF Trimmed, str_rtrim
<1>2. \E d \in 0 .. Len(s) :
        /\ str_rtrim(s, {SLASH}) = SubSeq(s, 1, d) /\ (d = 0 \/ s[d] \notin {SLASH})
        /\ \A i \in d + 1 .. Len(s) : s[i] \in {SLASH}
  BY RTrimIs
<1> QED
  BY <1>1, <1>2

(* The path that is found for a pattern behind the slash at e.             *)
PathOf(w, d) == IF d = 0 THEN <<SLASH>> ELSE SubSeq(w, 1, d)

LEMMA PathIs ==
  ASSUME NEW w \in Seq(Characters), NEW e \in 1 .. Len(w), w[e] = SLASH,
         \A i \in e + 1 .. Len(w) : w[i] # SLASH, \A i \in 1 .. e : w[i] # STAR,
         glob # <<>>, glob[1] = w[1],
         NEW at \in {e - 1, e}
  PROVE  \E d : Divided(w, d, e) /\ Retained(Trimmed(SubSeq(w, 1, at))) = PathOf(w, d)
<1> DEFINE s == SubSeq(w, 1, at)
<1>1. /\ s \in Seq(Characters) /\ Len(s) = at /\ (\A i \in 1 .. at : s[i] = w[i])
      /\ at \in Nat /\ e \in Nat /\ Len(w) \in Nat /\ e <= Len(w) /\ at <= e
  <2>1. /\ 1 \in 1 .. Len(w) + 1 /\ at \in 0 .. Len(w) /\ 1 <= at + 1 /\ at - 1 + 1 = at
        /\ \A i \in 1 .. at : 1 + i - 1 = i
        /\ at \in Nat /\ e \in Nat /\ Len(w) \in Nat /\ e <= Len(w) /\ at <= e
    OBVIOUS
  <2>2. s \in Seq(Characters) /\ Len(s) = at - 1 + 1 /\ \A i \in 1 .. at - 1 + 1 : s[i] = w[1 + i - 1]
    BY <2>1, Part
  <2> HIDE DEF s
  <2> QED
    BY <2>1, <2>2
<1>2. PICK d \in 0 .. Len(s) : /\ Trimmed(s) = SubSeq(s, 1, d) /\ (d = 0 \/ s[d] # SLASH)
                               /\ \A i \in d + 1 .. Len(s) : s[i] = SLASH
  <2> HIDE DEF s
  <2> QED
    BY <1>1, TrimmedPath
<1>3. SubSeq(s, 1, d) = SubSeq(w, 1, d)
  <2>1. /\ d \in 0 .. at /\ 1 \in 1 .. Len(w) + 1 /\ at \in 0 .. Len(w) /\ 1 <= at + 1
        /\ 1 \in 1 .. at - 1 + 2 /\ d \in 0 .. at - 1 + 1 /\ 1 <= d + 1
        /\ 1 + 1 - 1 = 1 /\ 1 + d - 1 = d
    BY <1>1, <1>2
  <2>2. SubSeq(SubSeq(w, 1, at), 1, d) = SubSeq(w, 1 + 1 - 1, 1 + d - 1)
    BY ONLY <1>1, <2>1, PartOfPart
  <2> QED
    BY <2>1, <2>2
<1> HIDE DEF s
<1>4. d \in 0 .. e - 1 /\ (d = 0 \/ w[d] # SLASH)
  <2>1. d \in 0 .. at /\ (d = 0 \/ w[d] # SLASH)
    BY <1>1, <1>2
  <2>2. d # e
    BY <1>1, <2>1
  <2> QED
    BY <1>1, <2>1, <2>2
<1>5. \A i \in d + 1 .. e : w[i] = SLASH
  <2> SUFFICES ASSUME NEW i \in d + 1 .. e, i # e PROVE w[i] = SLASH
    OBVIOUS
  <2>1. i \in d + 1 .. at /\ i \in 1 .. at
    BY <1>1, <1>4
  <2> QED
    BY <1>1, <1>2, <2>1
<1>6. Divided(w, d, e)
  BY <1>4, <1>5 DEF Divided
<1>7. Len(SubSeq(w, 1, d)) = d /\ SubSeq(w, 1, d) \in Seq(Characters)
  <2>1. 1 \in 1 .. Len(w) + 1 /\ d \in 0 .. Len(w) /\ 1 <= d + 1 /\ d - 1 + 1 = d
    BY <1>1, <1>4
  <2> QED
    BY <2>1, Part
<1>8. Trimmed(s) = <<>> <=> d = 0
  BY <1>2, <1>3, <1>7, EmptySeq
<1>9. w[1] = SLASH \/ d # 0
  BY <1>1, <1>5
<1>10. Retained(Trimmed(s)) = PathOf(w, d)
  BY <1>2, <1>3, <1>8, <1>9 DEF Retained, PathOf
<1> QED
  BY <1>6, <1>10 DEF s

(* Of a directory and the pattern behind it, whose name has no slash.      *)
LEMMA DirectoryMeans ==
  ASSUME NEW w, NEW d, NEW e, Divided(w, d, e), NEW x \in Seq(Characters), Behind(w, e, x),
         NEW y \in Seq(Characters), \A i \in 1 .. Len(y) : y[i] # SLASH
  PROVE  \E t : /\ Matches(t, x, y)
                /\ Means(Collapsed(w), Collapsed(PathOf(w, d) \o <<SLASH>> \o y)) <=> 0 \in t[0]
<1> DEFINE pth == PathOf(w, d)
           h == pth \o <<SLASH>>
           o == IF d = 0 THEN 2 ELSE d + 1
           u == h \o y
<1>1. /\ w \in Seq(Characters) /\ d \in Nat /\ e \in Nat /\ Len(w) \in Nat /\ d < e /\ e <= Len(w)
      /\ Len(y) \in Nat /\ Len(x) \in Nat /\ SLASH \in Characters
  BY DEF Divided, Characters
<1>2. /\ pth \in Seq(Characters) /\ Len(pth) = o - 1
      /\ \A i \in 1 .. d : pth[i] = w[i]
      /\ \A i \in d + 1 .. o - 1 : pth[i] = SLASH
  <2>1. CASE d = 0
    <3>1. pth = <<SLASH>>
      BY <2>1 DEF PathOf
    <3> HIDE DEF pth
    <3> QED
      BY <1>1, <2>1, <3>1
  <2>2. CASE d # 0
    <3>1. /\ 1 \in 1 .. Len(w) + 1 /\ d \in 0 .. Len(w) /\ 1 <= d + 1 /\ d - 1 + 1 = d
          /\ \A i \in 1 .. d : 1 + i - 1 = i
      BY <1>1
    <3>2. pth = SubSeq(w, 1, d)
      BY <2>2 DEF PathOf
    <3> HIDE DEF pth
    <3>3. pth \in Seq(Characters) /\ Len(pth) = d - 1 + 1 /\ \A i \in 1 .. d - 1 + 1 : pth[i] = w[1 + i - 1]
      BY <1>1, <3>1, <3>2, Part
    <3> QED
      BY <1>1, <2>2, <3>1, <3>3
  <2> QED
    BY <2>1, <2>2
<1> HIDE DEF pth
<1>3. o \in Nat /\ o > d /\ (d = 0 => o = 2) /\ (d # 0 => o = d + 1)
  BY <1>1
<1> HIDE DEF o
<1>4. /\ h \in Seq(Characters) /\ Len(h) = o
      /\ \A i \in 1 .. o : h[i] = IF i <= o - 1 THEN pth[i] ELSE SLASH
  <2>1. <<SLASH>> \in Seq(Characters) /\ Len(<<SLASH>>) = 1 /\ <<SLASH>>[1] = SLASH
    BY <1>1
  <2>2. /\ h \in Seq(Characters) /\ Len(h) = Len(pth) + Len(<<SLASH>>)
        /\ \A i \in 1 .. Len(pth) + Len(<<SLASH>>) :
             h[i] = IF i <= Len(pth) THEN pth[i] ELSE <<SLASH>>[i - Len(pth)]
    BY <1>2, <2>1, ConcatProperties
  <2> HIDE DEF h
  <2>3. \A i \in 1 .. o : ~(i <= o - 1) => i - (o - 1) = 1
    BY <1>3
  <2> QED
    BY <1>2, <1>3, <2>1, <2>2, <2>3
<1> HIDE DEF h
<1>5. /\ u \in Seq(Characters) /\ Len(u) = o + Len(y)
      /\ \A i \in 1 .. o + Len(y) : u[i] = IF i <= o THEN h[i] ELSE y[i - o]
  BY <1>4, ConcatProperties
<1> HIDE DEF u
<1>6. \A i \in 1 .. d : u[i] = w[i]
  <2> TAKE i \in 1 .. d
  <2>1. i \in 1 .. o + Len(y) /\ i <= o /\ i \in 1 .. o /\ i <= o - 1
    BY <1>1, <1>3
  <2> QED
    BY <1>2, <1>4, <1>5, <2>1
<1>7. Behind(u, o, y)
  <2>1. \A i \in 1 .. Len(y) : o + i \in 1 .. o + Len(y) /\ ~(o + i <= o) /\ (o + i) - o = i
    BY <1>1, <1>3
  <2> QED
    BY <1>5, <2>1 DEF Behind
<1>8. Divided(u, d, o)
  <2>1. o \in 1 .. Len(u) /\ d \in 0 .. o - 1
    BY <1>1, <1>3, <1>5
  <2>2. d = 0 \/ u[d] # SLASH
    BY <1>1, <1>6 DEF Divided
  <2>3. ASSUME NEW i \in d + 1 .. o PROVE u[i] = SLASH
    <3>1. i \in 1 .. o + Len(y) /\ i <= o /\ i \in 1 .. o /\ (i <= o - 1 => i \in d + 1 .. o - 1)
      BY <1>1, <1>3
    <3> QED
      BY <1>2, <1>4, <1>5, <3>1
  <2>4. ASSUME NEW i \in o + 1 .. Len(u) PROVE u[i] # SLASH
    <3>1. i \in 1 .. o + Len(y) /\ ~(i <= o) /\ i - o \in 1 .. Len(y)
      BY <1>1, <1>3, <1>5
    <3> QED
      BY <1>5, <3>1
  <2>5. ASSUME NEW i \in 1 .. o PROVE u[i] # STAR
    <3>1. CASE i \in 1 .. d
      <4>1. i \in 1 .. e
        BY <1>1, <3>1
      <4> QED
        BY <1>6, <3>1, <4>1 DEF Divided
    <3>2. CASE i \notin 1 .. d
      <4>1. i \in d + 1 .. o
        BY <1>1, <1>3, <3>2
      <4> QED
        BY <2>3, <4>1, GlobAssumption
    <3> QED
      BY <3>1, <3>2
  <2> QED
    BY <1>5, <2>1, <2>2, <2>3, <2>4, <2>5 DEF Divided
<1>9. PICK k : Keeps(k, w) /\ Collapsed(w) = k[Len(w)]
  BY <1>1, CollapsedKeeps
<1>10. PICK l : Keeps(l, u) /\ Collapsed(u) = l[Len(u)]
  BY <1>5, CollapsedKeeps
<1>11. k[d] = l[d]
  <2>1. d <= Len(w) /\ d <= Len(u)
    BY <1>1, <1>3, <1>5
  <2> QED
    BY <1>1, <1>5, <1>6, <1>9, <1>10, <2>1, SameKept
<1> DEFINE at == Len(k[d]) + 1
           g == Collapsed(w)
           s == Collapsed(u)
<1>12. /\ k[d] \in Seq(Characters) /\ Behind(g, at, x)
       /\ \A j \in 1 .. Len(k[d]) : g[j] = k[d][j] /\ k[d][j] # STAR
       /\ g[at] = SLASH
  BY <1>9, CollapsedIs
<1>13. /\ Behind(s, at, y) /\ s[at] = SLASH
       /\ \A j \in 1 .. Len(k[d]) : s[j] = k[d][j]
  BY <1>7, <1>8, <1>10, <1>11, CollapsedIs
<1>14. at \in Nat /\ \A i \in 1 .. at : i \in 1 .. Len(k[d]) \/ i = at
  BY <1>12
<1> HIDE DEF at, g, s
<1>15. \A i \in 1 .. at : g[i] = s[i] /\ g[i] # STAR
  BY <1>12, <1>13, <1>14, GlobAssumption
<1>16. \E t : Matches(t, x, y) /\ (Means(g, s) <=> 0 \in t[0])
  BY <1>12, <1>13, <1>14, <1>15, SameDirectory
<1> QED
  BY <1>16 DEF g, s, u, h, pth

-----------------------------------------------------------------------------
(* The inductive invariant.                                                *)
Meant == Means(Collapsed(Whole), Collapsed(FullName))

Searching ==
  /\ GlobOn /\ path # <<>> /\ pattern # NULL
  /\ \E t : /\ Matches(t, pattern, name)
            /\ Meant <=> f \in t[p]
            /\ glob_pc = "SUCCEED" => f \in t[p]
            /\ glob_pc = "FAIL" => f \notin t[p]

GlobInv ==
  /\ glob \in Globs /\ name \in Names
  /\ glob_pc \in {"parse_glob", "match_glob", "file", "directory", "bad", "SUCCEED", "FAIL"}
  /\ glob_pc \in {"match_glob", "SUCCEED", "FAIL"} => Searching
  /\ glob_pc \notin {"match_glob", "SUCCEED", "FAIL"} => f = 0 /\ p = 0 /\ pattern = NULL
  /\ glob_pc \in {"parse_glob", "bad"} => path = NULL
  /\ glob_pc \in {"file", "directory"} => path = glob /\ Whole = glob /\ STAR \notin ToSet(glob)
  /\ glob_pc = "directory" => glob # <<>>

LEMMA GlobStrings ==
  ASSUME glob \in Globs, name \in Names
  PROVE  /\ glob \in Seq(Characters) /\ name \in Seq(Characters)
         /\ Len(glob) \in Nat /\ Len(name) \in Nat
         /\ DOMAIN glob = 1 .. Len(glob)
         /\ \A i \in 1 .. Len(name) : name[i] # SLASH
<1>1. glob \in Seq(Characters) /\ name \in Seq(Characters) /\ SLASH \notin ToSet(name)
  BY GlobAssumption
<1> QED
  BY <1>1 DEF ToSet

LEMMA GlobStart == GlobInit => GlobInv
<1> SUFFICES ASSUME GlobInit PROVE GlobInv
  OBVIOUS
<1> QED
  BY DEF GlobInit, GlobInv

(* A pattern behind the slash at e was found.                              *)
LEMMA PatternFound ==
  ASSUME GlobInv, glob_pc = "parse_glob", NEW w, w = Whole, w \in Seq(Characters), NEW e \in 1 .. Len(w), w[e] = SLASH,
         \A i \in e + 1 .. Len(w) : w[i] # SLASH, \A i \in 1 .. e : w[i] # STAR,
         glob # <<>>, glob[1] = w[1],
         NEW at \in {e - 1, e},
         path' = Retained(Trimmed(SubSeq(w, 1, at))),
         pattern' = SubSeq(w, e + 1, Len(w)),
         glob_pc' = "match_glob", UNCHANGED <<glob, name, f, p>>
  PROVE  GlobInv'
<1> DEFINE x == SubSeq(w, e + 1, Len(w))
<1>1. /\ glob \in Globs /\ name \in Names /\ f = 0 /\ p = 0 /\ Len(name) \in Nat
      /\ glob \in Seq(Characters) /\ name \in Seq(Characters) /\ \A i \in 1 .. Len(name) : name[i] # SLASH
  BY GlobStrings DEF GlobInv
<1>2. PICK d : Divided(w, d, e) /\ Retained(Trimmed(SubSeq(w, 1, at))) = PathOf(w, d)
  BY PathIs
<1>3. x \in Seq(Characters) /\ Behind(w, e, x) /\ Len(x) \in Nat
  <2>1. /\ Len(w) \in Nat /\ e + 1 \in 1 .. Len(w) + 1 /\ Len(w) \in 0 .. Len(w) /\ e + 1 <= Len(w) + 1
        /\ Len(w) - (e + 1) + 1 = Len(w) - e /\ e + (Len(w) - e) = Len(w)
        /\ \A i \in 1 .. Len(w) - e : (e + 1) + i - 1 = e + i
    OBVIOUS
  <2>2. x \in Seq(Characters) /\ Len(x) = Len(w) - (e + 1) + 1 /\ \A i \in 1 .. Len(w) - (e + 1) + 1 : x[i] = w[(e + 1) + i - 1]
    <3> DEFINE a1 == e + 1
               a2 == Len(w)
    <3>1. w \in Seq(Characters) /\ a1 \in 1 .. Len(w) + 1 /\ a2 \in 0 .. Len(w) /\ a1 <= a2 + 1
      BY <2>1
    <3> HIDE DEF a1, a2
    <3>2. /\ SubSeq(w, a1, a2) \in Seq(Characters) /\ Len(SubSeq(w, a1, a2)) = a2 - a1 + 1
          /\ \A i \in 1 .. a2 - a1 + 1 : SubSeq(w, a1, a2)[i] = w[a1 + i - 1]
      BY ONLY <3>1, Part
    <3> QED
      BY <3>2 DEF a1, a2
  <2> HIDE DEF x
  <2> QED
    BY <2>1, <2>2 DEF Behind
<1> HIDE DEF x
<1> DEFINE u == PathOf(w, d) \o <<SLASH>> \o name
<1>4. PICK t : Matches(t, x, name) /\ (Means(Collapsed(w), Collapsed(u)) <=> 0 \in t[0])
  BY <1>1, <1>2, <1>3, DirectoryMeans
<1>5. pattern' = x /\ path' = PathOf(w, d) /\ pattern' # NULL
  BY <1>2, <1>3, GlobAssumption DEF x
<1>6. Whole' = w /\ FullName' = u
  <2>1. Whole' = Whole
    BY DEF Whole
  <2>2. FullName' = path' \o <<SLASH>> \o name
    BY <1>5 DEF FullName
  <2> QED
    BY <1>5, <2>1, <2>2
<1> HIDE DEF u
<1>7. Meant' <=> 0 \in t[0]
  <2>1. Meant' = Means(Collapsed(Whole'), Collapsed(FullName'))
    BY DEF Meant, Means, Collapsed
  <2> QED
    BY <1>4, <1>6, <2>1
<1>8. path' # <<>>
  <2>1. d = 0 => PathOf(w, d) = <<SLASH>>
    BY DEF PathOf
  <2>2. d # 0 => PathOf(w, d) # <<>>
    <3>1. d # 0 => d \in Nat /\ 1 \in 1 .. Len(w) + 1 /\ d \in 0 .. Len(w) /\ 1 <= d + 1 /\ d - 1 + 1 = d
      BY <1>2 DEF Divided
    <3>2. d # 0 => Len(SubSeq(w, 1, d)) = d
      BY <3>1, Part
    <3>3. <<>> \in Seq(Characters) /\ Len(<<>>) = 0
      OBVIOUS
    <3> QED
      BY <3>2, <3>3 DEF PathOf
  <2>3. <<SLASH>> # <<>>
    OBVIOUS
  <2>4. PathOf(w, d) # <<>>
    BY <2>1, <2>2, <2>3
  <2> QED
    BY <1>5, <2>4
<1>9. GlobOn'
  <2>1. f' = 0 /\ p' = 0 /\ name' = name
    BY <1>1
  <2>2. f' \in 0 .. Len(name') /\ p' \in 0 .. Len(pattern')
    BY <1>1, <1>3, <1>5, <2>1
  <2> QED
    BY <1>1, <1>3, <1>5, <2>1, <2>2 DEF GlobOn
<1>10. Searching'
  <2>1. Matches(t, pattern', name') /\ (Meant' <=> f' \in t[p'])
    BY <1>1, <1>4, <1>5, <1>7
  <2> QED
    BY <1>5, <1>8, <1>9, <2>1 DEF Searching
<1> QED
  BY <1>1, <1>10 DEF GlobInv

LEMMA ParsePlainStep == GlobInv /\ ParsePlain => GlobInv'
<1> SUFFICES ASSUME GlobInv, ParsePlain PROVE GlobInv'
  OBVIOUS
<1> DEFINE z == Len(glob)
<1>1. /\ glob \in Globs /\ name \in Names /\ f = 0 /\ p = 0 /\ z \in Nat /\ glob_pc = "parse_glob"
      /\ glob \in Seq(Characters) /\ DOMAIN glob = 1 .. z /\ STAR \notin ToSet(glob)
      /\ UNCHANGED <<glob, name, f, p>>
  BY GlobStrings DEF GlobInv, ParsePlain, Found
<1>2. /\ path' = Retained(Trimmed(glob))
      /\ pattern' = IF Trimmed(glob) # glob THEN <<STAR>> ELSE NULL
      /\ pattern' # NULL => glob_pc' = "match_glob"
      /\ pattern' = NULL => glob_pc' = "file" \/ (glob_pc' = "directory" /\ path' # <<>>)
  BY DEF ParsePlain, Found
<1>12. path' = Retained(Trimmed(glob))
  BY <1>2
<1>3. \A i \in 1 .. z : glob[i] # STAR
  BY <1>1 DEF ToSet
<1>4. PICK d \in 0 .. z : /\ Trimmed(glob) = SubSeq(glob, 1, d) /\ (d = 0 \/ glob[d] # SLASH)
                          /\ \A i \in d + 1 .. z : glob[i] = SLASH
  BY <1>1, TrimmedPath
<1>5. Len(SubSeq(glob, 1, d)) = d /\ SubSeq(glob, 1, z) = glob
  <2>1. 1 \in 1 .. z + 1 /\ d \in 0 .. z /\ 1 <= d + 1 /\ d - 1 + 1 = d
    BY <1>1
  <2>2. Len(SubSeq(glob, 1, d)) = d
    BY <1>1, <2>1, Part
  <2> QED
    BY <1>1, <2>2
<1>6. CASE d = z
  <2>1. /\ Trimmed(glob) = glob /\ pattern' = NULL /\ glob_pc' \in {"file", "directory"}
        /\ glob_pc' = "directory" => path' # <<>>
    BY <1>2, <1>4, <1>5, <1>6
  <2>2. glob = <<>> \/ Last(glob) # SLASH
    BY <1>1, <1>4, <1>6, EmptySeq DEF Last
  <2>3. Whole = glob /\ Whole' = Whole
    BY <1>1, <2>2 DEF Whole
  <2>4. path' = glob
    <3>3. Trimmed(glob) = glob
      BY <2>1
    <3>1. path' = Retained(glob)
      BY ONLY <1>12, <3>3, Zenon
    <3>2. Retained(glob) = glob
      BY ONLY DEF Retained
    <3> QED
      BY ONLY <3>1, <3>2
  <2>5. /\ glob' = glob /\ name' = name /\ f' = 0 /\ p' = 0
        /\ glob_pc' = "directory" => glob' # <<>>
    <3>1. glob' = glob /\ name' = name /\ f' = 0 /\ p' = 0
      BY <1>1
    <3>2. glob_pc' = "directory" => path' # <<>>
      BY <2>1
    <3> QED
      BY ONLY <2>4, <3>1, <3>2
  <2>6. glob' \in Globs /\ name' \in Names /\ Whole' = glob' /\ STAR \notin ToSet(glob') /\ path' = glob'
    <3>1. glob \in Globs /\ name \in Names /\ STAR \notin ToSet(glob)
      BY <1>1
    <3> QED
      BY ONLY <2>3, <2>4, <2>5, <3>1
  <2> QED
    BY ONLY <2>1, <2>5, <2>6 DEF GlobInv
<1>7. CASE d # z
  <2> DEFINE w == Append(glob, STAR)
  <2>1. Trimmed(glob) # glob
    BY <1>4, <1>5, <1>7
  <2>2. STAR \in Characters /\ <<STAR>> \in Seq(Characters)
    BY DEF Characters
  <2>3. pattern' = <<STAR>> /\ glob_pc' = "match_glob"
    BY <1>2, <2>1, <2>2, GlobAssumption
  <2>4. z \in 1 .. z /\ glob[z] = SLASH /\ glob # <<>> /\ d < z
    <3>1. d < z /\ z \in 1 .. z /\ z \in d + 1 .. z
      <4>1. z \in Nat /\ d \in 0 .. z /\ d # z
        BY <1>1, <1>7
      <4> HIDE DEF z
      <4> QED
        BY <4>1
    <3>2. glob # <<>>
      BY <1>1, <3>1, EmptySeq
    <3> QED
      BY <1>4, <3>1, <3>2
  <2>5. Whole = w
    BY <2>4 DEF Whole, Last
  <2>6. w \in Seq(Characters) /\ Len(w) = z + 1 /\ (\A i \in 1 .. z : w[i] = glob[i]) /\ w[z + 1] = STAR
    BY <1>1, <2>2, AppendProperties
  <2> HIDE DEF w
  <2>7. SubSeq(w, 1, z) = glob
    <3>1. SubSeq(w, 1, z) \in Seq(Characters) /\ Len(SubSeq(w, 1, z)) = z /\ \A i \in 1 .. z : SubSeq(w, 1, z)[i] = w[i]
      <4>1. /\ 1 \in 1 .. Len(w) + 1 /\ z \in 0 .. Len(w) /\ 1 <= z + 1 /\ z - 1 + 1 = z
            /\ \A i \in 1 .. z : 1 + i - 1 = i
        BY <1>1, <2>6
      <4> DEFINE y == SubSeq(w, 1, z)
      <4>2. y \in Seq(Characters) /\ Len(y) = z - 1 + 1 /\ \A i \in 1 .. z - 1 + 1 : y[i] = w[1 + i - 1]
        BY <2>6, <4>1, Part
      <4> HIDE DEF y
      <4>3. y \in Seq(Characters) /\ Len(y) = z /\ \A i \in 1 .. z : y[i] = w[i]
        BY <4>1, <4>2
      <4> QED
        BY <4>3 DEF y
    <3> QED
      BY <1>1, <2>6, <3>1, SeqEqual
  <2>8. SubSeq(w, z + 1, Len(w)) = <<STAR>>
    <3> DEFINE y == SubSeq(w, z + 1, Len(w))
    <3>1. /\ z + 1 \in 1 .. Len(w) + 1 /\ Len(w) \in 0 .. Len(w) /\ z + 1 <= Len(w) + 1
          /\ Len(w) - (z + 1) + 1 = 1 /\ (z + 1) + 1 - 1 = z + 1
      BY <1>1, <2>6
    <3>2. y \in Seq(Characters) /\ Len(y) = Len(w) - (z + 1) + 1 /\ \A i \in 1 .. Len(w) - (z + 1) + 1 : y[i] = w[(z + 1) + i - 1]
      BY <2>6, <3>1, Part
    <3> HIDE DEF y
    <3>3. y \in Seq(Characters) /\ Len(y) = 1 /\ y[1] = STAR
      <4>1. 1 \in 1 .. Len(w) - (z + 1) + 1
        BY <3>1
      <4>2. y[1] = w[(z + 1) + 1 - 1]
        BY <3>2, <4>1
      <4> QED
        BY <2>6, <3>1, <3>2, <4>2
    <3>4. y = <<STAR>>
      <4>1. Len(<<STAR>>) = 1 /\ <<STAR>>[1] = STAR
        OBVIOUS
      <4>2. \A i \in 1 .. 1 : y[i] = <<STAR>>[i]
        BY <3>3, <4>1
      <4> QED
        BY <2>2, <3>3, <4>1, <4>2, SeqEqual
    <3> QED
      BY <3>4 DEF y
  <2> DEFINE e == z
  <2>9. /\ e \in 1 .. Len(w) /\ w[e] = SLASH /\ (\A i \in e + 1 .. Len(w) : w[i] # SLASH)
        /\ (\A i \in 1 .. e : w[i] # STAR) /\ glob[1] = w[1] /\ e \in {e - 1, e}
    <3>1. \A i \in e + 1 .. Len(w) : i = z + 1
      BY <1>1, <2>6
    <3> QED
      BY <1>1, <1>3, <2>4, <2>6, <3>1, GlobAssumption
  <2>10. path' = Retained(Trimmed(SubSeq(w, 1, e))) /\ pattern' = SubSeq(w, e + 1, Len(w))
    BY <1>2, <2>3, <2>7, <2>8
  <2> HIDE DEF e
  <2> QED
    BY <1>1, <2>3, <2>4, <2>5, <2>6, <2>9, <2>10, PatternFound
<1> QED
  BY <1>6, <1>7

LEMMA ParsePatternStep == GlobInv /\ ParsePattern => GlobInv'
<1> SUFFICES ASSUME GlobInv, ParsePattern PROVE GlobInv'
  OBVIOUS
<1> DEFINE w == glob
           z == Len(glob)
           a == FirstStar
           e == LastSlash(FirstStar)
<1>1. /\ glob \in Globs /\ name \in Names /\ z \in Nat /\ glob_pc = "parse_glob"
      /\ glob \in Seq(Characters) /\ DOMAIN glob = 1 .. z /\ STAR \in ToSet(glob)
      /\ \A i \in a + 1 .. z : glob[i] # SLASH
      /\ SLASH \in ToSet(SubSeq(glob, 1, a))
      /\ Found(SubSeq(glob, 1, e - 1), SubSeq(glob, e + 1, z))
  BY GlobStrings DEF GlobInv, ParsePattern
<1>2. a \in 1 .. z /\ glob[a] = STAR /\ \A j \in 1 .. a - 1 : glob[j] # STAR
  BY <1>1, FirstStarIs
<1> HIDE DEF a
<1>3. \E j \in 1 .. a : glob[j] = SLASH
  <2> DEFINE y == SubSeq(glob, 1, a)
  <2>1. 1 \in 1 .. z + 1 /\ a \in 0 .. z /\ 1 <= a + 1 /\ a - 1 + 1 = a /\ \A i \in 1 .. a : 1 + i - 1 = i
    BY <1>1, <1>2
  <2>2. y \in Seq(Characters) /\ Len(y) = a - 1 + 1 /\ \A i \in 1 .. a - 1 + 1 : y[i] = glob[1 + i - 1]
    BY <1>1, <2>1, Part
  <2>3. SLASH \in ToSet(y)
    BY <1>1
  <2> HIDE DEF y
  <2>4. DOMAIN y = 1 .. a /\ \A i \in 1 .. a : y[i] = glob[i]
    BY <2>1, <2>2
  <2> QED
    BY <2>3, <2>4 DEF ToSet
<1>4. e \in 1 .. a /\ glob[e] = SLASH /\ \A k \in e + 1 .. a : glob[k] # SLASH
  BY <1>1, <1>2, <1>3, LastSlashIs DEF a
<1> HIDE DEF e
<1>5. e # a /\ e \in 1 .. z
  BY <1>1, <1>2, <1>4, GlobAssumption
<1>6. \A i \in e + 1 .. z : glob[i] # SLASH
  <2>1. \A i \in e + 1 .. z : i \in e + 1 .. a \/ i \in a + 1 .. z
    BY <1>1, <1>2, <1>4
  <2> QED
    BY <1>1, <1>4, <2>1
<1>7. \A i \in 1 .. e : glob[i] # STAR
  <2>1. \A i \in 1 .. e : i \in 1 .. a - 1
    BY <1>1, <1>2, <1>4, <1>5
  <2> QED
    BY <1>2, <2>1
<1>8. glob # <<>> /\ Whole = glob
  <2>1. z # 0 /\ z \in 1 .. z /\ z \in e + 1 .. z
    BY <1>1, <1>2, <1>4, <1>5
  <2>2. Last(glob) # SLASH
    BY <1>6, <2>1 DEF Last
  <2> QED
    BY <1>1, <2>1, <2>2 DEF Whole
<1>9. SubSeq(glob, e + 1, z) # NULL
  <2>1. e + 1 \in 1 .. z + 1 /\ z \in 0 .. z /\ e + 1 <= z + 1
    BY <1>1, <1>5
  <2>2. SubSeq(glob, e + 1, z) \in Seq(Characters)
    BY <1>1, <2>1, Part
  <2> QED
    BY <2>2, GlobAssumption
<1>10. /\ path' = Retained(Trimmed(SubSeq(glob, 1, e - 1)))
       /\ pattern' = SubSeq(glob, e + 1, z)
       /\ glob_pc' = "match_glob" /\ UNCHANGED <<glob, name, f, p>>
  BY <1>1, <1>9 DEF Found
<1>11. e - 1 \in {e - 1, e} /\ glob[1] = glob[1]
  OBVIOUS
<1> QED
  BY <1>1, <1>4, <1>5, <1>6, <1>7, <1>8, <1>10, PatternFound

LEMMA BadGlobStep == GlobInv /\ BadGlob => GlobInv'
  BY DEF GlobInv, BadGlob, Searching

(* A round keeps what is meant, as long as f and p move on together.       *)
LEMMA RoundStep ==
  ASSUME GlobInv, glob_pc = "match_glob", UNCHANGED <<glob, path, pattern, name>>,
         f' \in 0 .. Len(name), p' \in 0 .. Len(pattern),
         p' = 0 \/ p' = Len(pattern) \/ pattern[p' + 1] = STAR,
         glob_pc' \in {"match_glob", "SUCCEED", "FAIL"},
         \A t : Matches(t, pattern, name) =>
                  /\ f \in t[p] <=> f' \in t[p']
                  /\ glob_pc' = "SUCCEED" => f' \in t[p']
                  /\ glob_pc' = "FAIL" => f' \notin t[p']
  PROVE  GlobInv'
<1>1. Searching /\ glob \in Globs /\ name \in Names
  BY DEF GlobInv
<1>2. PICK t : Matches(t, pattern, name) /\ (Meant <=> f \in t[p])
  BY <1>1 DEF Searching
<1>3. Meant' = Meant
  BY DEF Meant, Means, Collapsed, Whole, FullName
<1>4. GlobOn'
  BY <1>1 DEF Searching, GlobOn
<1>5. Searching'
  <2>1. /\ Matches(t, pattern', name') /\ (Meant' <=> f' \in t[p'])
        /\ glob_pc' = "SUCCEED" => f' \in t[p']
        /\ glob_pc' = "FAIL" => f' \notin t[p']
    BY <1>2, <1>3
  <2>2. path' # <<>> /\ pattern' # NULL
    BY <1>1 DEF Searching
  <2> QED
    BY <1>4, <2>1, <2>2 DEF Searching
<1> QED
  BY <1>1, <1>5 DEF GlobInv

(* The rounds that return.                                                 *)
LEMMA ReturnStep ==
  ASSUME GlobInv, glob_pc = "match_glob", NEW r \in {"SUCCEED", "FAIL"}, Return(r),
         \A t : Matches(t, pattern, name) => (f \in t[p] <=> r = "SUCCEED")
  PROVE  GlobInv'
<1>1. GlobOn
  BY DEF GlobInv, Searching
<1>2. /\ UNCHANGED <<glob, path, pattern, name>> /\ f' = f /\ p' = p /\ glob_pc' = r
  BY DEF Return
<1>3. \A t : Matches(t, pattern, name) =>
               /\ f \in t[p] <=> f' \in t[p']
               /\ glob_pc' = "SUCCEED" => f' \in t[p']
               /\ glob_pc' = "FAIL" => f' \notin t[p']
  <2> SUFFICES ASSUME NEW t, Matches(t, pattern, name)
               PROVE  /\ f \in t[p] <=> f' \in t[p']
                      /\ glob_pc' = "SUCCEED" => f' \in t[p']
                      /\ glob_pc' = "FAIL" => f' \notin t[p']
    OBVIOUS
  <2>1. f \in t[p] <=> r = "SUCCEED"
    OBVIOUS
  <2> QED
    BY <1>2, <2>1
<1>4. f' \in 0 .. Len(name) /\ p' \in 0 .. Len(pattern) /\ (p' = 0 \/ p' = Len(pattern) \/ pattern[p' + 1] = STAR)
  BY <1>1, <1>2 DEF GlobOn
<1>5. glob_pc' \in {"match_glob", "SUCCEED", "FAIL"}
  BY <1>2
<1> QED
  BY <1>2, <1>3, <1>4, <1>5, RoundStep

LEMMA EndOfPatternStep == GlobInv /\ EndOfPattern => GlobInv'
<1> SUFFICES ASSUME GlobInv, EndOfPattern PROVE GlobInv'
  OBVIOUS
<1> DEFINE r == IF f = Len(name) THEN "SUCCEED" ELSE "FAIL"
<1>1. glob_pc = "match_glob" /\ p = Len(pattern) /\ Return(r) /\ r \in {"SUCCEED", "FAIL"}
  BY DEF EndOfPattern
<1>2. \A t : Matches(t, pattern, name) => (f \in t[p] <=> r = "SUCCEED")
  BY <1>1 DEF Matches
<1> HIDE DEF r
<1> QED
  BY <1>1, <1>2, ReturnStep

LEMMA AtBeginningStep == GlobInv /\ AtBeginning => GlobInv'
<1> SUFFICES ASSUME GlobInv, AtBeginning PROVE GlobInv'
  OBVIOUS
<1>1. glob_pc = "match_glob" /\ Begin = 0 /\ GlobOn
  BY DEF AtBeginning, Round, GlobInv, Searching
<1>2. CASE Occurs(f)
  <2>1. f' = f + End /\ p' = End /\ UNCHANGED <<glob, path, pattern, name, glob_pc>>
    BY <1>2 DEF AtBeginning
  <2>2. PICK t : Matches(t, pattern, name)
    BY <1>1 DEF GlobInv, Searching
  <2>3. f' \in 0 .. Len(name)
    BY <1>1, <1>2, <2>1, <2>2, AtBeginningMatches
  <2>4. p' \in 0 .. Len(pattern) /\ (p' = Len(pattern) \/ pattern[p' + 1] = STAR)
    BY <1>1, <2>1, EndIs, RoundFacts
  <2>5. \A x : Matches(x, pattern, name) => (f \in x[p] <=> f' \in x[p'])
    BY <1>1, <1>2, <2>1, AtBeginningMatches
  <2>6. glob_pc' = "match_glob"
    BY <1>1, <2>1
  <2> QED
    BY <1>1, <2>1, <2>3, <2>4, <2>5, <2>6, RoundStep
<1>3. CASE ~Occurs(f)
  <2>1. Return("FAIL")
    BY <1>3 DEF AtBeginning
  <2>2. \A t : Matches(t, pattern, name) => (f \in t[p] <=> "FAIL" = "SUCCEED")
    BY <1>1, <1>3, AtBeginningMatches
  <2> QED
    BY <1>1, <2>1, <2>2, ReturnStep
<1> QED
  BY <1>2, <1>3

LEMMA AtEndStep == GlobInv /\ AtEnd => GlobInv'
<1> SUFFICES ASSUME GlobInv, AtEnd PROVE GlobInv'
  OBVIOUS
<1> DEFINE found == Len(name) - f >= Len(Literal) /\ Occurs(Len(name) - Len(Literal))
           r == IF found THEN "SUCCEED" ELSE "FAIL"
<1>1. /\ glob_pc = "match_glob" /\ p < Len(pattern) /\ Begin > 0 /\ End = Len(pattern) /\ GlobOn
      /\ Return(r)
  BY DEF AtEnd, Round, GlobInv, Searching
<1>2. \A t : Matches(t, pattern, name) => (f \in t[p] <=> found)
  BY <1>1, AtEndMatches
<1> HIDE DEF found
<1>3. r \in {"SUCCEED", "FAIL"} /\ (found <=> r = "SUCCEED")
  OBVIOUS
<1> HIDE DEF r
<1>4. \A t : Matches(t, pattern, name) => (f \in t[p] <=> r = "SUCCEED")
  BY <1>2, <1>3
<1> QED
  BY <1>1, <1>3, <1>4, ReturnStep

LEMMA InTheMiddleStep == GlobInv /\ InTheMiddle => GlobInv'
<1> SUFFICES ASSUME GlobInv, InTheMiddle PROVE GlobInv'
  OBVIOUS
<1>1. glob_pc = "match_glob" /\ p < Len(pattern) /\ Begin > 0 /\ End < Len(pattern) /\ GlobOn
  BY DEF InTheMiddle, Round, GlobInv, Searching
<1>2. CASE \E i \in f .. Len(name) - 1 : Occurs(i)
  <2>1. PICK i \in f .. Len(name) - 1 : Place(i) /\ f' = i + Len(Literal)
    BY <1>2 DEF InTheMiddle
  <2>2. p' = End /\ UNCHANGED <<glob, path, pattern, name, glob_pc>>
    BY <1>2 DEF InTheMiddle
  <2>3. PICK t : Matches(t, pattern, name)
    BY <1>1 DEF GlobInv, Searching
  <2>4. f' \in 0 .. Len(name)
    BY <1>1, <2>1, <2>3, InTheMiddleMatches
  <2>5. p' \in 0 .. Len(pattern) /\ (p' = Len(pattern) \/ pattern[p' + 1] = STAR)
    BY <1>1, <2>2, EndIs, RoundFacts
  <2>6. \A x : Matches(x, pattern, name) => (f \in x[p] <=> f' \in x[p'])
    BY <1>1, <2>1, <2>2, InTheMiddleMatches
  <2>7. glob_pc' = "match_glob"
    BY <1>1, <2>2
  <2> QED
    BY <1>1, <2>2, <2>4, <2>5, <2>6, <2>7, RoundStep
<1>3. CASE ~\E i \in f .. Len(name) - 1 : Occurs(i)
  <2>1. Return("FAIL")
    BY <1>3 DEF InTheMiddle
  <2>2. \A t : Matches(t, pattern, name) => (f \in t[p] <=> "FAIL" = "SUCCEED")
    BY <1>1, <1>3, InTheMiddleMatches
  <2> QED
    BY <1>1, <2>1, <2>2, ReturnStep
<1> QED
  BY <1>2, <1>3

LEMMA GlobStep == GlobInv /\ [GlobNext]_glob_vars => GlobInv'
<1>1. GlobInv /\ UNCHANGED glob_vars => GlobInv'
  <2> SUFFICES ASSUME GlobInv, UNCHANGED glob_vars PROVE GlobInv'
    OBVIOUS
  <2>1. Meant' = Meant /\ Whole' = Whole
    BY DEF glob_vars, Meant, Means, Collapsed, Whole, FullName
  <2>2. Searching => Searching'
    BY <2>1 DEF glob_vars, Searching, GlobOn
  <2> QED
    BY <2>1, <2>2 DEF glob_vars, GlobInv
<1>2. GlobStopped => UNCHANGED glob_vars
  BY DEF GlobStopped
<1> QED
  BY <1>1, <1>2, ParsePlainStep, ParsePatternStep, BadGlobStep, EndOfPatternStep, AtBeginningStep,
     AtEndStep, InTheMiddleStep DEF GlobNext

LEMMA GlobInvariant == GlobSpec => []GlobInv
<1> QED
  BY GlobStart, GlobStep, PTL DEF GlobSpec

(* match_glob reads neither behind the end of the name nor behind that of  *)
(* the pattern.                                                            *)
THEOREM GlobTypeCorrect == GlobSpec => []GlobTypeOK
<1>1. GlobInv => GlobTypeOK
  <2> SUFFICES ASSUME GlobInv PROVE GlobTypeOK
    OBVIOUS
  <2>1. Len(name) \in Nat
    BY GlobStrings DEF GlobInv
  <2>2. CASE glob_pc \in {"match_glob", "SUCCEED", "FAIL"}
    BY <2>2 DEF GlobInv, Searching, GlobOn, GlobTypeOK
  <2>3. CASE glob_pc \notin {"match_glob", "SUCCEED", "FAIL"}
    BY <2>1, <2>3 DEF GlobInv, GlobTypeOK
  <2> QED
    BY <2>2, <2>3
<1> QED
  BY GlobInvariant, <1>1, PTL

(* An argument without a star means itself.                                *)
LEMMA MeansItself ==
  ASSUME NEW g \in Seq(Characters), STAR \notin ToSet(g)
  PROVE  Means(g, g)
<1> DEFINE a == Len(g)
<1>1. PICK t : Matches(t, g, g) /\ (Means(g, g) <=> 0 \in t[0])
  BY MeansIs
<1>2. a \in Nat /\ \A i \in 1 .. a : g[i] # STAR
  BY DEF ToSet
<1>3. t[a] = {a} /\ \A i \in 0 .. a - 1 : t[i] = MeansFrom(g, g, i, t[i + 1])
  BY <1>1 DEF Matches
<1> DEFINE S == {i \in Nat : i <= a => a - i \in t[a - i]}
<1>4. 0 \in S
  BY <1>2, <1>3
<1>5. ASSUME NEW i \in Nat, i \in S PROVE i + 1 \in S
  <2> SUFFICES ASSUME i + 1 <= a PROVE a - (i + 1) \in t[a - (i + 1)]
    OBVIOUS
  <2> DEFINE q == a - (i + 1)
  <2>1. q \in 0 .. a - 1 /\ q + 1 = a - i /\ q + 1 \in 1 .. a /\ i <= a
    BY <1>2
  <2>2. q + 1 \in t[q + 1]
    BY <1>5, <2>1
  <2> HIDE DEF q
  <2>3. g[q + 1] # STAR /\ t[q] = MeansFrom(g, g, q, t[q + 1])
    BY <1>2, <1>3, <2>1
  <2>4. q \in t[q]
    BY <2>1, <2>2, <2>3 DEF MeansFrom
  <2> QED
    BY <2>4 DEF q
<1>6. \A i \in Nat : i \in S
  <2> HIDE DEF S
  <2> QED
    BY <1>4, <1>5, InductionOnSet
<1>7. a - a = 0 /\ a \in S
  <2> HIDE DEF S
  <2> QED
    BY <1>2, <1>6
<1> QED
  BY <1>1, <1>2, <1>7

(* The bare name of a directory, with a slash and a star behind it, means  *)
(* every file of the directory.                                            *)
LEMMA EveryName ==
  ASSUME NEW g \in Seq(Characters), g # <<>>, Last(g) # SLASH, STAR \notin ToSet(g),
         NEW s \in Seq(Characters), \A i \in 1 .. Len(s) : s[i] # SLASH
  PROVE  Means(Collapsed(g \o <<SLASH, STAR>>), Collapsed(g \o <<SLASH>> \o s))
<1> DEFINE z == Len(g)
           w == g \o <<SLASH, STAR>>
           x == <<STAR>>
<1>1. /\ z \in Nat /\ z # 0 /\ z \in 1 .. z /\ g[z] # SLASH /\ DOMAIN g = 1 .. z
      /\ SLASH \in Characters /\ STAR \in Characters /\ SLASH # STAR
  BY EmptySeq, GlobAssumption DEF Last, Characters
<1>2. /\ w \in Seq(Characters) /\ Len(w) = z + 2 /\ w[z + 1] = SLASH /\ w[z + 2] = STAR
      /\ \A i \in 1 .. z : w[i] = g[i]
  <2>1. <<SLASH, STAR>> \in Seq(Characters) /\ Len(<<SLASH, STAR>>) = 2
    BY <1>1
  <2> QED
    BY <1>1, <2>1
<1>3. x \in Seq(Characters) /\ Len(x) = 1 /\ x[1] = STAR
  BY <1>1
<1>4. /\ \A i \in 1 .. z + 1 : i \in 1 .. z \/ i = z + 1
      /\ \A i \in z + 1 .. z + 1 : i = z + 1
      /\ \A i \in (z + 1) + 1 .. z + 2 : i = z + 2
      /\ z + 1 \in 1 .. z + 2 /\ z \in 0 .. (z + 1) - 1 /\ (z + 1) + 1 = z + 2
      /\ \A i \in 1 .. 1 : i = 1
  BY <1>1
<1>5. \A i \in 1 .. z : g[i] # STAR
  BY <1>1 DEF ToSet
<1> HIDE DEF w, x
<1>6. Divided(w, z, z + 1)
  BY <1>1, <1>2, <1>4, <1>5 DEF Divided
<1>7. Behind(w, z + 1, x)
  BY <1>2, <1>3, <1>4 DEF Behind
<1>8. PathOf(w, z) = g
  <2>1. SubSeq(w, 1, z) \in Seq(Characters) /\ Len(SubSeq(w, 1, z)) = z /\ \A i \in 1 .. z : SubSeq(w, 1, z)[i] = w[i]
    <3>1. /\ 1 \in 1 .. Len(w) + 1 /\ z \in 0 .. Len(w) /\ 1 <= z + 1 /\ z - 1 + 1 = z
          /\ \A i \in 1 .. z : 1 + i - 1 = i
      BY <1>1, <1>2
    <3> DEFINE y == SubSeq(w, 1, z)
    <3>2. y \in Seq(Characters) /\ Len(y) = z - 1 + 1 /\ \A i \in 1 .. z - 1 + 1 : y[i] = w[1 + i - 1]
      BY <1>2, <3>1, Part
    <3> HIDE DEF y
    <3>3. y \in Seq(Characters) /\ Len(y) = z /\ \A i \in 1 .. z : y[i] = w[i]
      BY <3>1, <3>2
    <3> QED
      BY <3>3 DEF y
  <2>2. SubSeq(w, 1, z) = g
    BY <1>1, <1>2, <2>1, SeqEqual
  <2> QED
    BY <1>1, <2>2 DEF PathOf
<1>9. PICK t : Matches(t, x, s) /\ (Means(Collapsed(w), Collapsed(PathOf(w, z) \o <<SLASH>> \o s)) <=> 0 \in t[0])
  BY <1>3, <1>6, <1>7, DirectoryMeans
<1>10. 0 \in t[0]
  <2>1. Len(s) \in Nat /\ 0 \in 0 .. Len(s) /\ 0 <= Len(s) /\ 0 \in 0 .. 1 - 1 /\ 0 + 1 = 1
        /\ \A l \in 0 + 1 .. Len(s) : l \in 1 .. Len(s)
    OBVIOUS
  <2>2. t[1] = {Len(s)} /\ t[0] = MeansFrom(x, s, 0, t[0 + 1])
    BY <1>3, <1>9, <2>1 DEF Matches
  <2>3. t[0] = {j \in 0 .. Len(s) : \E k \in t[1] : j <= k /\ \A l \in j + 1 .. k : s[l] # SLASH}
    BY <1>3, <2>1, <2>2 DEF MeansFrom
  <2> QED
    BY <2>1, <2>2, <2>3
<1> QED
  BY <1>8, <1>9, <1>10 DEF w

(* Of the files of a directory those are read whose full name the argument *)
(* of the Include means, whatever the argument, the names and the slashes. *)
THEOREM NamedFilesRead == GlobSpec => []ReadsNamedFiles
<1>1. GlobInv => ReadsNamedFiles
  <2> SUFFICES ASSUME GlobInv PROVE ReadsNamedFiles
    OBVIOUS
  <2>1. glob_pc \in {"SUCCEED", "FAIL"} => (glob_pc = "SUCCEED" <=> Means(Collapsed(Whole), Collapsed(FullName)))
    BY DEF GlobInv, Searching, Meant
  <2>2. ASSUME glob_pc = "file" PROVE Means(Whole, FullName)
    <3>1. Whole = glob /\ FullName = glob /\ glob \in Seq(Characters) /\ STAR \notin ToSet(glob)
      BY <2>2, GlobStrings DEF GlobInv, FullName
    <3> QED
      BY <3>1, MeansItself
  <2>4. ASSUME glob_pc = "directory"
        PROVE  Means(Collapsed(glob \o <<SLASH, STAR>>), Collapsed(path \o <<SLASH>> \o name))
    <3>1. /\ path = glob /\ glob \in Seq(Characters) /\ name \in Seq(Characters) /\ STAR \notin ToSet(glob)
          /\ glob # <<>> /\ Whole = glob /\ \A i \in 1 .. Len(name) : name[i] # SLASH
      BY <2>4, GlobStrings DEF GlobInv
    <3>2. Last(glob) # SLASH
      <4>1. Len(Append(glob, STAR)) # Len(glob)
        BY <3>1
      <4> QED
        BY <3>1, <4>1 DEF Whole
    <3> QED
      BY <3>1, <3>2, EveryName
  <2>3. ASSUME path = <<>> PROVE glob = <<>>
    <3>1. NULL # <<>>
      <4>1. <<>> \in Seq(Characters)
        OBVIOUS
      <4> QED
        BY <4>1, GlobAssumption
    <3> QED
      BY <2>3, <3>1 DEF GlobInv, Searching
  <2> QED
    BY <2>1, <2>2, <2>3, <2>4 DEF ReadsNamedFiles
<1> QED
  BY GlobInvariant, <1>1, PTL
=============================================================================
