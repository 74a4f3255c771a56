----------------------------- MODULE LineReader -----------------------------
(***************************************************************************)
(* How __parse_cfg_file of cfg-parser/cfg.c makes lines, parameters and    *)
(* values of the characters of a file: CfgParser begins where this module  *)
(* ends.  fgets reads a line in pieces if it does not fit in the buffer.   *)
(***************************************************************************)
EXTENDS Integers, SequencesExt

CONSTANTS
  NL, SP, EQ, HASH, NUL,    \* NL is trimmed on the right, SP on both sides
  LEAD, CONT,               \* the two bytes of a character that is not ASCII
  Files,
  MAX_STRING_LEN

ASSUME BufferAssumption == MAX_STRING_LEN \in Nat /\ MAX_STRING_LEN > 1

(* The characters the code compares with are different ones.              *)
ASSUME FilesAssumption ==
  /\ \A s \in Files : s \in Seq(ToSet(s))
  /\ {NL, EQ, HASH, LEAD, CONT} \cap {SP} = {} /\ LEAD # CONT

VARIABLES file,
          rest,       \* what is still to be read
          lineno,
          entries,    \* the parameters found, with their values
          line_ret

line_vars == <<file, rest, lineno, entries, line_ret>>

LineInit ==
  file \in Files /\ rest = file /\ lineno = 1 /\ entries = <<>> /\ line_ret = "running"

LTRIM_CHARS == {SP}
RTRIM_CHARS == {SP, NL}

str_rtrim(s, chars) ==
  CHOOSE t \in {SubSeq(s, 1, l) : l \in 0 .. Len(s)} :
    /\ t = <<>> \/ Last(t) \notin chars
    /\ \A i \in Len(t) + 1 .. Len(s) : s[i] \in chars
str_ltrim(s, chars) ==
  CHOOSE t \in {SubSeq(s, l, Len(s)) : l \in 1 .. Len(s) + 1} :
    /\ t = <<>> \/ Head(t) \notin chars
    /\ \A i \in 1 .. Len(s) - Len(t) : s[i] \in chars

(* The characters before the first c, all of them if there is none.        *)
Before(s, c) ==
  CHOOSE t \in {SubSeq(s, 1, l) : l \in 0 .. Len(s)} :
    c \notin ToSet(t) /\ (Len(t) = Len(s) \/ s[Len(t) + 1] = c)

(* What is left when n characters are taken.                               *)
From(s, n) == SubSeq(s, n + 1, Len(s))

Least(S) == CHOOSE x \in S : \A y \in S : x <= y

(* Mutant of Piece: no place is left for the NUL.                          *)
PieceFull(s) == SubSeq(s, 1, Least({Len(Before(s, NL)) + 1, Len(s), MAX_STRING_LEN}))
(* fgets: up to the end of the line, as far as the buffer goes.            *)
Piece(s) == SubSeq(s, 1, Least({Len(Before(s, NL)) + 1, Len(s), MAX_STRING_LEN - 1}))

(* A line as C sees it, trimmed.                                           *)
line == str_rtrim(str_ltrim(Before(Piece(rest), NUL), LTRIM_CHARS), RTRIM_CHARS)

Blank(s) == \A i \in DOMAIN s : i = 1 => s[i] = HASH

IsUtf8(s) == \A i \in DOMAIN s :
               /\ s[i] = LEAD => i < Len(s) /\ s[i + 1] = CONT
               /\ s[i] = CONT => i > 1 /\ s[i - 1] = LEAD

(* *value++ = '\0'.                                                        *)
Parameter(s) == str_rtrim(Before(s, EQ), RTRIM_CHARS)
Value(s) == str_ltrim(From(s, Len(Before(s, EQ)) + 1), LTRIM_CHARS)

Read == line_ret = "running" /\ rest # <<>> /\ rest' = From(rest, Len(Piece(rest)))

Skip ==
  /\ Read /\ Blank(line)
  /\ lineno' = lineno + 1 /\ UNCHANGED <<file, entries, line_ret>>

NonUtf8 ==
  /\ Read /\ ~Blank(line) /\ ~IsUtf8(line)
  /\ line_ret' = "non_utf8" /\ UNCHANGED <<file, lineno, entries>>

NonKeyValue ==
  /\ Read /\ ~Blank(line) /\ IsUtf8(line) /\ EQ \notin ToSet(line)
  /\ line_ret' = "non_key_value" /\ UNCHANGED <<file, lineno, entries>>

KeyValue ==
  /\ Read /\ ~Blank(line) /\ IsUtf8(line) /\ EQ \in ToSet(line)
  /\ entries' = Append(entries, <<Parameter(line), Value(line)>>)
  /\ lineno' = lineno + 1 /\ UNCHANGED <<file, line_ret>>

EndOfFile ==
  /\ line_ret = "running" /\ rest = <<>>
  /\ line_ret' = "eof" /\ UNCHANGED <<file, rest, lineno, entries>>

LineStopped == line_ret # "running" /\ UNCHANGED line_vars

LineNext == Skip \/ NonUtf8 \/ NonKeyValue \/ KeyValue \/ EndOfFile \/ LineStopped

LineSpec == LineInit /\ [][LineNext]_line_vars

-----------------------------------------------------------------------------
LineTypeOK ==
  /\ \E k \in 0 .. Len(file) : rest = From(file, k)
  /\ lineno \in 1 .. Len(file) + 1
  /\ Len(entries) < lineno
  /\ line_ret \in {"running", "non_utf8", "non_key_value", "eof"}

(* A line starts behind each NL, and what of it does not fit in the buffer *)
(* with a NUL is taken for lines of their own, each as long as fits.       *)
BeginsAt(i) == i = 0 \/ file[i] = NL
Starts ==
  {i \in 0 .. Len(file) :
     \E s \in 0 .. i :
       /\ BeginsAt(s) /\ \A j \in s + 1 .. i : file[j] # NL
       /\ \E q \in 0 .. i : i = s + q * (MAX_STRING_LEN - 1)}

(* The k-th line, without the character that ends it.                      *)
Line(starts, k) ==
  LET i == CHOOSE i \in starts : Cardinality({j \in starts : j < i}) = k - 1
  IN  Before(SubSeq(file, i + 1, Least({j \in starts : j > i} \cup {Len(file)})), NL)
Lines == LET starts == Starts IN [k \in 1 .. Cardinality(starts) |-> Line(starts, k)]

(* What the grammar of the file says of a line, whatever comes before it:  *)
(* spaces around the parameter, the first "=" and the value do not matter. *)
Spaces(s) == ToSet(s) \subseteq {SP}
Blanks(s) == \/ Spaces(s)
             \/ \E i \in DOMAIN s : s[i] = HASH /\ Spaces(SubSeq(s, 1, i - 1))
Within(t, s) ==
  \E k \in 0 .. Len(s) - Len(t) :
    /\ t = SubSeq(s, k + 1, k + Len(t))
    /\ Spaces(SubSeq(s, 1, k)) /\ Spaces(From(s, k + Len(t)))
    /\ t # <<>> => SP \notin {Head(t), Last(t)}
Says(s, parameter, value) ==
  \E i \in DOMAIN s :
    /\ s[i] = EQ /\ EQ \notin ToSet(SubSeq(s, 1, i - 1))
    /\ Within(parameter, SubSeq(s, 1, i - 1)) /\ Within(value, From(s, i))

(* The lines before the k-th that are not blank.                           *)
ToRead(k) == LET lines == Lines IN {j \in DOMAIN lines : j < k /\ ~Blanks(lines[j])}

(* The lines that are not blank yield their parameter and value in order,  *)
(* and a message names its line; the rest of a line that is too long for   *)
(* the buffer is read, and counted, as a line with a parameter of its own: *)
(* it neither goes into the value before it nor disturbs the next line.    *)
ReadsLines ==
  NUL \notin ToSet(file) =>
    /\ Len(entries) = Cardinality(ToRead(lineno))
    /\ \A k \in ToRead(lineno) :
         LET entry == entries[Cardinality(ToRead(k)) + 1] IN Says(Lines[k], entry[1], entry[2])
    /\ line_ret = "eof" => \A k \in lineno .. Len(Lines) : Lines[k] = <<>>
    /\ line_ret = "non_utf8" => ~IsUtf8(Lines[lineno])
    /\ line_ret = "non_key_value" => EQ \notin ToSet(Lines[lineno]) /\ ~Blanks(Lines[lineno])
=============================================================================
