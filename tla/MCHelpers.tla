------------------------------ MODULE MCHelpers ------------------------------
(***************************************************************************)
(* The functions the reader calls for a line: each behaviour is a call of  *)
(* one of them, with one of its inputs, while the others rest.             *)
(***************************************************************************)
EXTENDS StrNumber, Utf8, TrimList, Glob, LineReader

VARIABLE helper     \* which one is called

(* Numbers of eight bits, of which the largest has three digits: strings   *)
(* of digits, suffixes and another character.                              *)
CONSTANTS K, M, other
MCChars    == {0, 1, 2, 5, 6, 9, K, M, other}
MCStrings  == UNION {[1 .. l -> MCChars] : l \in 0 .. 4} \cup
              {<<0, 0>> \o s : s \in [1 .. 3 -> MCChars]}
MCsuffixes == {K, M}
MCFactor   == [s \in {K, M} |-> IF s = K THEN 4 ELSE 16]
MCPower    == [k \in 0 .. 3 |-> 10 ^ k]

(* Texts of up to four of the bytes at which something changes, and one    *)
(* character more before or after them.                                    *)
Boundary == {65, 127, 128, 143, 144, 157, 159, 160, 191, 193, 194, 224, 237, 240, 244, 248, 255}
Long     == {252, 132, 128}
MCTexts  == UNION {[1 .. l -> Boundary] : l \in 0 .. 4} \cup
            UNION {[1 .. l -> Long] : l \in 5 .. 7} \cup
            {<<194, 128>> \o t : t \in [1 .. 3 -> Boundary]}

(* Lists of up to seven characters.                                        *)
CONSTANT CHAR
MCLists == UNION {{[i \in 0 .. l |-> IF i = l THEN ZERO ELSE s[i]] :
                     s \in [0 .. l - 1 -> {SP, DELIMITER, CHAR}]} : l \in 0 .. 7}
MCWhitespace == {SP}

(* Arguments of up to four characters, and up to seven after a slash, for  *)
(* names of up to four.                                                    *)
CONSTANTS a, b
MCGlobs == UNION {[1 .. l -> {SLASH, STAR, a, b}] : l \in 0 .. 4} \cup
           {<<SLASH>> \o s : s \in UNION {[1 .. l -> {STAR, a, b}] : l \in 4 .. 6}}
MCNames == UNION {[1 .. l -> {a, b}] : l \in 1 .. 4}

(* Files of up to five characters of every kind, and longer ones of some;  *)
(* with a buffer of five characters, a line goes on over three pieces.     *)
Mixed   == {NL, SP, EQ, HASH, NUL, LEAD, CONT, CHAR}
MCFiles == UNION {[1 .. l -> Mixed] : l \in 0 .. 4} \cup
           [1 .. 5 -> Mixed \ {NUL, HASH}] \cup
           [1 .. 7 -> {NL, EQ, SP, CHAR}] \cup
           [1 .. 10 -> {EQ, CHAR}]

-----------------------------------------------------------------------------
Number0 == NumberInit /\ str = <<>>
Utf80   == Utf8Init /\ text = <<0>>
Trim0   == TrimInit /\ original = [i \in {0} |-> ZERO]
Glob0   == GlobInit /\ glob = <<>> /\ name = <<a>>
Line0   == LineInit /\ file = <<>>

Init ==
  \/ helper = "number" /\ Utf80 /\ Trim0 /\ Glob0 /\ Line0 /\ NumberInit
  \/ helper = "utf8" /\ Number0 /\ Trim0 /\ Glob0 /\ Line0 /\ Utf8Init
  \/ helper = "trim" /\ Number0 /\ Utf80 /\ Glob0 /\ Line0 /\ TrimInit
  \/ helper = "glob" /\ Number0 /\ Utf80 /\ Trim0 /\ Line0 /\ GlobInit
  \/ helper = "line" /\ Number0 /\ Utf80 /\ Trim0 /\ Glob0 /\ LineInit

NumberRests == UNCHANGED number_vars
Utf8Rests   == UNCHANGED utf8_vars
TrimRests   == UNCHANGED trim_vars
GlobRests   == UNCHANGED glob_vars
LineRests   == UNCHANGED line_vars

Next ==
  /\ helper' = helper
  /\ \/ helper = "number" /\ NumberNext /\ Utf8Rests /\ TrimRests /\ GlobRests /\ LineRests
     \/ helper = "utf8" /\ Utf8Next /\ NumberRests /\ TrimRests /\ GlobRests /\ LineRests
     \/ helper = "trim" /\ TrimNext /\ NumberRests /\ Utf8Rests /\ GlobRests /\ LineRests
     \/ helper = "glob" /\ GlobNext /\ NumberRests /\ Utf8Rests /\ TrimRests /\ LineRests
     \/ helper = "line" /\ LineNext /\ NumberRests /\ Utf8Rests /\ TrimRests /\ GlobRests

vars == <<helper, number_vars, utf8_vars, trim_vars, glob_vars, line_vars>>

(* One thread, which the system does not stop for ever.  The loop over the *)
(* lines is left out: it ends with the file, of which it takes a piece.    *)
Spec == Init /\ [][Next]_vars /\ WF_vars(helper # "line" /\ Next)

(* The variables have the types of their declarations, and no array is     *)
(* indexed outside its bounds.                                             *)
TypesOK == NumberTypeOK /\ Utf8TypeOK /\ TrimTypeOK /\ GlobTypeOK /\ LineTypeOK

(* Every loop of a helper ends, whatever it is given, and the function     *)
(* returns.                                                                *)
Termination ==
  <>CASE helper = "number" -> number_ret \in {"FAIL", "incorrect", "stored"}
      [] helper = "utf8"   -> utf8_ret # "running"
      [] helper = "trim"   -> trim_pc = "done"
      [] helper = "glob"   -> glob_pc \in {"file", "directory", "bad", "SUCCEED", "FAIL"}
      [] helper = "line"   -> TRUE
=============================================================================
