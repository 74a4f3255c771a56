------------------------------ MODULE StrNumber ------------------------------
(***************************************************************************)
(* Numbers in the configuration: str2uint64 of cfg-parser/str.c, which     *)
(* calls is_uint_n_range for the digits and multiplies by the factor of a  *)
(* suffix, and the test of the result for a TYPE_INT in cfg-parser/cfg.c.  *)
(* A step of the loop over the digits is an action.                        *)
(***************************************************************************)
EXTENDS Integers, Sequences

CONSTANTS
  Chars,       \* characters other than NUL; a digit is a number 0 .. 9
  Strings,     \* what is converted
  suffixes,    \* its characters, "KMGT" in the reader
  Factor,      \* suffix2factor
  max_uint64,
  Digits,      \* 20, the digits of max_uint64
  Power,       \* Power[k] is 10^k
  cfg_min, cfg_max      \* of the table's entry; no maximum if it is 0

Uint64 == 0 .. max_uint64

ASSUME WidthAssumption ==
  /\ max_uint64 \in Nat /\ max_uint64 >= 9 /\ Digits \in Nat \ {0}
  /\ Power \in [0 .. Digits -> Nat]
  /\ Power[0] = 1 /\ \A k \in 1 .. Digits : Power[k] = 10 * Power[k - 1]
  /\ \A k \in 0 .. Digits - 1 : Power[k] <= max_uint64 + 1

ASSUME NumberAssumption ==
  /\ Strings \subseteq Seq(Chars)
  /\ Factor \in [suffixes -> Uint64]
  /\ suffixes \cap 0 .. 9 = {}
  /\ cfg_min \in Uint64 /\ cfg_max \in Uint64

VARIABLES
  str,     \* the string
  factor,
  n,       \* the characters is_uint_n_range has still to read
  len,     \* the digits it has read
  value,   \* value_uint64, then *value
  exact,   \* the number the digits read so far mean: a history variable
  number_ret      \* what str2uint64, and then the reader, have found

number_vars == <<str, factor, n, len, value, exact, number_ret>>

(* The suffix is the last character.  For an empty string the code reads   *)
(* the byte before it, and sz may wrap: is_uint_n_range stops at the NUL.  *)
NumberInit ==
  /\ str \in Strings
  /\ IF str # <<>> /\ str[Len(str)] \in suffixes
     THEN factor = Factor[str[Len(str)]] /\ n = Len(str) - 1
     ELSE factor = 1 /\ n = Len(str)
  /\ len = 0 /\ value = 0 /\ exact = 0
  /\ number_ret = IF n = 0 THEN "FAIL" ELSE "running"

c == str[len + 1]

(* Mutant of Exceeded: the largest numbers are refused.                    *)
ExceededSoon == Digits <= len + 1 /\ (max_uint64 - c) \div 10 <= value
Exceeded     == Digits <= len + 1 /\ (max_uint64 - c) \div 10 < value

NotADigit ==
  /\ number_ret = "running" /\ n > 0 /\ c \notin 0 .. 9
  /\ number_ret' = "FAIL"
  /\ UNCHANGED <<str, factor, n, len, value, exact>>

TooLarge ==
  /\ number_ret = "running" /\ n > 0 /\ c \in 0 .. 9 /\ Exceeded
  /\ number_ret' = "FAIL" /\ exact' = exact * 10 + c
  /\ UNCHANGED <<str, factor, n, len, value>>

Digit ==
  /\ number_ret = "running" /\ n > 0 /\ c \in 0 .. 9 /\ ~Exceeded
  /\ n' = n - 1 /\ len' = len + 1
  /\ value' = (value * 10 + c) % (max_uint64 + 1)
  /\ exact' = exact * 10 + c
  /\ UNCHANGED <<str, factor, number_ret>>

(* *value *= factor, in 64 bits.                                           *)
Multiply == value' = (value * factor) % (max_uint64 + 1)

Converted ==
  /\ number_ret = "running" /\ n = 0
  /\ Multiply
  /\ number_ret' = "SUCCEED"
  /\ UNCHANGED <<str, factor, n, len, exact>>

(* The reader tests the range and stores the number, or is incorrect.      *)
Accepted ==
  /\ number_ret = "SUCCEED"
  /\ number_ret' = IF cfg_min > value \/ (cfg_max # 0 /\ value > cfg_max)
            THEN "incorrect" ELSE "stored"
  /\ UNCHANGED <<str, factor, n, len, value, exact>>

NumberStopped == number_ret \in {"FAIL", "incorrect", "stored"} /\ UNCHANGED number_vars

NumberNext == NotADigit \/ TooLarge \/ Digit \/ Converted \/ Accepted \/ NumberStopped

NumberSpec == NumberInit /\ [][NumberNext]_number_vars

-----------------------------------------------------------------------------
NumberTypeOK ==
  /\ str \in Seq(Chars) /\ factor \in Uint64 \cup {1}
  /\ n \in 0 .. Len(str) /\ len \in 0 .. Len(str) /\ n + len <= Len(str)
  /\ value \in Uint64 /\ exact \in Nat
  /\ number_ret \in {"running", "FAIL", "SUCCEED", "incorrect", "stored"}

(* The test against max_uint64, which the code skips for short numbers, is *)
(* enough: while digits are read value_uint64 never wraps, and it is given *)
(* up as too large only when the number does not fit.                      *)
DigitsAreExact ==
  /\ number_ret = "running" => value = exact
  /\ number_ret = "FAIL" /\ exact # value => exact > max_uint64

(* The decimal number the characters of s mean.                            *)
Number(s) == LET num[i \in 0 .. Len(s)] == IF i = 0 THEN 0 ELSE num[i - 1] * 10 + s[i]
             IN  num[Len(s)]

(* The digits of the string, without a suffix.                             *)
Body == IF str # <<>> /\ str[Len(str)] \in suffixes
        THEN SubSeq(str, 1, Len(str) - 1) ELSE str

IsNumber == Body # <<>> /\ (\A i \in DOMAIN Body : Body[i] \in 0 .. 9) /\ Number(Body) <= max_uint64

(* A conversion succeeds for the decimal numbers that fit in 64 bits, with *)
(* or without a suffix, leading zeros allowed, and for no other string.    *)
ConvertsNumbers ==
  /\ number_ret = "FAIL" => ~IsNumber
  /\ number_ret \in {"SUCCEED", "incorrect", "stored"} => IsNumber /\ Number(Body) = exact

(* A number whose product with its suffix fits is in the range of its      *)
(* table entry when it is stored, and refused only when it is not.         *)
InRange(v) == cfg_min <= v /\ (cfg_max = 0 \/ v <= cfg_max)
StoresProduct ==
  exact * factor <= max_uint64 =>
    /\ number_ret = "stored" => value = exact * factor /\ InRange(value)
    /\ number_ret = "incorrect" => ~InRange(exact * factor)

(* "Convert string to 64bit unsigned integer ... FAIL - otherwise": what   *)
(* is stored is the number that was written.                               *)
StoresWhatIsWritten == number_ret = "stored" => value = exact * factor
=============================================================================
