-------------------------------- MODULE Utf8 --------------------------------
(***************************************************************************)
(* str_is_utf8 of cfg-parser/str.c: the reader accepts no line that is not *)
(* UTF-8.  An action is one round of its loop, which reads one sequence of *)
(* bytes.  Masks are written with \div and %: b & 0xc0 is 0x80 when b is   *)
(* in 128 .. 191.                                                          *)
(***************************************************************************)
EXTENDS Integers, Sequences

CONSTANT Texts     \* the lines, without the NUL that ends them

Byte == 0 .. 255

ASSUME TextsAssumption == Texts \subseteq Seq(Byte \ {0})

VARIABLES text,    \* the bytes from *text on, the NUL included
          pos,     \* how many of them have been read
          utf8_ret

utf8_vars == <<text, pos, utf8_ret>>

At(k) == text[pos + k]

Continuation(b) == b \in 128 .. 191

(* expecting_bytes of a first byte that is no ASCII character.             *)
Expecting(b) == CASE b \in 192 .. 223 -> 1
                  [] b \in 224 .. 239 -> 2
                  [] b \in 240 .. 247 -> 3
                  [] b \in 248 .. 251 -> 4
                  [] b \in 252 .. 253 -> 5

(* Mutant of Continues: the last byte is not tested.                       *)
ContinuesFew(e) == \A k \in 1 .. e - 1 : Continuation(At(1 + k))
(* The loop over the continuation bytes stops at the first that is none,   *)
(* such as the NUL.                                                        *)
Continues(e)    == \A k \in 1 .. e : Continuation(At(1 + k))

(* Mutant of Overlong: the mask 0x30 of four bytes loses a bit.            *)
OverlongMask == At(1) \in {192, 193} \/ (At(1) \in {224, 240} /\ (At(2) \div 32) % 2 = 0)
Overlong ==
  \/ At(1) \in {192, 193}
  \/ At(1) = 224 /\ (At(2) \div 32) % 2 = 0
  \/ At(1) = 240 /\ (At(2) \div 16) % 4 = 0
  \/ At(1) = 248 /\ (At(2) \div 8) % 8 = 0
  \/ At(1) = 252 /\ (At(2) \div 4) % 16 = 0

(* utf32 of a first byte with e continuation bytes, at most 31 bits.       *)
Low(k) == At(1 + k) % 64
utf32(e) ==
  CASE e = 1 -> (At(1) % 32) * 64 + Low(1)
    [] e = 2 -> (At(1) % 16) * 4096 + Low(1) * 64 + Low(2)
    [] e = 3 -> (At(1) % 8) * 262144 + Low(1) * 4096 + Low(2) * 64 + Low(3)
    [] e = 4 -> (At(1) % 4) * 16777216 + Low(1) * 262144 + Low(2) * 4096
                + Low(3) * 64 + Low(4)
    [] e = 5 -> (At(1) % 2) * 1073741824 + Low(1) * 16777216 + Low(2) * 262144
                + Low(3) * 4096 + Low(4) * 64 + Low(5)

(* Mutant of Illegal: the surrogates are let through.                      *)
IllegalLarge(u) == u > 1114111
(* u & 0xf800 has no higher bits, so more than the surrogates are caught.  *)
Illegal(u) == u > 1114111 \/ (u \div 2048) % 32 = 27

Fail == utf8_ret' = "FAIL" /\ UNCHANGED <<text, pos>>

Utf8Init ==
  /\ \E t \in Texts : text = Append(t, 0)
  /\ pos = 0 /\ utf8_ret = "running"

EndOfText ==
  utf8_ret = "running" /\ At(1) = 0 /\ utf8_ret' = "SUCCEED" /\ UNCHANGED <<text, pos>>

Ascii ==
  /\ utf8_ret = "running" /\ At(1) \in 1 .. 127
  /\ pos' = pos + 1 /\ UNCHANGED <<text, utf8_ret>>

BadFirst ==
  utf8_ret = "running" /\ (Continuation(At(1)) \/ At(1) \in {254, 255}) /\ Fail

Multibyte ==
  /\ utf8_ret = "running" /\ At(1) \in 192 .. 253
  /\ LET e == Expecting(At(1)) IN
       IF Continues(e) /\ ~Overlong /\ ~Illegal(utf32(e))
       THEN pos' = pos + 1 + e /\ UNCHANGED <<text, utf8_ret>>
       ELSE Fail

Utf8Stopped == utf8_ret # "running" /\ UNCHANGED utf8_vars

Utf8Next == EndOfText \/ Ascii \/ BadFirst \/ Multibyte \/ Utf8Stopped

Utf8Spec == Utf8Init /\ [][Utf8Next]_utf8_vars

-----------------------------------------------------------------------------
(* The well-formed sequences of the Unicode standard.                      *)
C == 128 .. 191
Rows == { <<1 .. 127>>, <<194 .. 223, C>>,
          <<{224}, 160 .. 191, C>>, <<225 .. 236, C, C>>, <<{237}, 128 .. 159, C>>,
          <<238 .. 239, C, C>>,
          <<{240}, 144 .. 191, C, C>>, <<241 .. 243, C, C, C>>, <<{244}, 128 .. 143, C, C>> }

(* The bytes from the k-th are one of them.                                *)
Fits(k, row) == \A i \in 1 .. Len(row) : k + i - 1 <= Len(text) /\ text[k + i - 1] \in row[i]

(* Code points that are legal, but have the bits of a surrogate.           *)
LooksSurrogate == At(1) >= 240 /\ (utf32(3) \div 2048) % 32 = 27

(* No byte after the NUL is read.                                          *)
Utf8TypeOK ==
  /\ text \in Seq(Byte) /\ text # <<>> /\ text[Len(text)] = 0
  /\ pos \in 0 .. Len(text) - 1
  /\ utf8_ret \in {"running", "SUCCEED", "FAIL"}

(* Every round takes one well-formed character of the Unicode standard,    *)
(* whole: no overlong form, surrogate or character cut short gets past.    *)
TakesCharacters ==
  [][pos' # pos => \E row \in Rows : Fits(pos + 1, row) /\ pos' = pos + Len(row)]_utf8_vars

(* And the loop gives up only where the text is not UTF-8, or at a legal   *)
(* character that looks like a surrogate.                                  *)
RejectsIllFormed ==
  utf8_ret = "FAIL" => (\A row \in Rows : ~Fits(pos + 1, row)) \/ LooksSurrogate

(* "the high and low surrogate halves used by UTF-16 (U+D800 through       *)
(* U+DFFF) and values above U+10FFFF are not legal": all others are.       *)
AcceptsLegal == utf8_ret = "FAIL" => \A row \in Rows : ~Fits(pos + 1, row)
=============================================================================
