------------------------------ MODULE TrimList ------------------------------
(***************************************************************************)
(* str_trim_str_list of cfg-parser/str.c takes the white space around the  *)
(* delimiters out of a list, in place: out follows in through the same     *)
(* string.  Positions count from 0.  An action is one round of one of its  *)
(* loops.                                                                  *)
(***************************************************************************)
EXTENDS Integers, SequencesExt

CONSTANTS
  Lists,       \* functions from 0 .. n to characters, NUL only at n
  DELIMITER, ZERO,
  WHITESPACE   \* " \t"

ASSUME CharsAssumption == DELIMITER # ZERO /\ WHITESPACE \cap {DELIMITER, ZERO} = {}

ASSUME ListsAssumption ==
  \A l \in Lists : \E n \in DOMAIN l :
    n \in Nat /\ DOMAIN l = 0 .. n /\ \A i \in 0 .. n : l[i] = ZERO <=> i = n

VARIABLES original, list, in, out, trim_pc

trim_vars == <<original, list, in, out, trim_pc>>

Positions == DOMAIN original

(* An empty list is returned as it is, as it would be by the loop.         *)
TrimInit ==
  /\ original \in Lists /\ list = original
  /\ in = 0 /\ out = 0 /\ trim_pc = "item"

Goto(l) == trim_pc' = l /\ UNCHANGED <<original, list, in, out>>

(* NB! strchr(3): "terminating null byte is considered part of the string" *)
strchr(c) == c \in WHITESPACE \cup {ZERO}

NextItem == trim_pc = "item" /\ list[in] # ZERO /\ Goto("leading")

SkipLeading ==
  /\ trim_pc = "leading" /\ list[in] # ZERO /\ strchr(list[in])
  /\ in' = in + 1 /\ UNCHANGED <<original, list, out, trim_pc>>
EndLeading ==
  trim_pc = "leading" /\ ~(list[in] # ZERO /\ strchr(list[in])) /\ Goto("copy")

CopyChar ==
  /\ list' = [list EXCEPT ![out] = list[in]]
  /\ in' = in + 1 /\ out' = out + 1

Copy ==
  /\ trim_pc = "copy" /\ list[in] \notin {DELIMITER, ZERO}
  /\ CopyChar /\ UNCHANGED <<original, trim_pc>>
(* Mutant of EndCopy: the first item is not told apart.                    *)
EndCopyAlways ==
  trim_pc = "copy" /\ list[in] \in {DELIMITER, ZERO} /\ Goto("trailing")
EndCopy ==
  /\ trim_pc = "copy" /\ list[in] \in {DELIMITER, ZERO}
  /\ Goto(IF out > 0 THEN "trailing" ELSE "delimiter")

(* while (NULL != strchr(whitespace, *(--out))): out is one too low then.  *)
SkipTrailing ==
  /\ trim_pc = "trailing" /\ strchr(list[out - 1])
  /\ out' = out - 1 /\ UNCHANGED <<original, list, in, trim_pc>>
(* Mutant of EndTrailing: out++ is forgotten.                              *)
EndTrailingLow ==
  /\ trim_pc = "trailing" /\ ~strchr(list[out - 1])
  /\ out' = out - 1 /\ trim_pc' = "delimiter" /\ UNCHANGED <<original, list, in>>
EndTrailing == trim_pc = "trailing" /\ ~strchr(list[out - 1]) /\ Goto("delimiter")

(* Mutant of Delimiter: it is left for the next item.                      *)
DelimiterLeft == trim_pc = "delimiter" /\ Goto("item")
Delimiter ==
  /\ trim_pc = "delimiter" /\ trim_pc' = "item"
  /\ IF list[in] = DELIMITER THEN CopyChar ELSE UNCHANGED <<list, in, out>>
  /\ UNCHANGED original

Finish ==
  /\ trim_pc = "item" /\ list[in] = ZERO
  /\ list' = [list EXCEPT ![out] = ZERO] /\ trim_pc' = "done"
  /\ UNCHANGED <<original, in, out>>

TrimStopped == trim_pc = "done" /\ UNCHANGED trim_vars

TrimNext == NextItem \/ SkipLeading \/ EndLeading \/ Copy \/ EndCopy
            \/ SkipTrailing \/ EndTrailing \/ Delimiter \/ Finish \/ TrimStopped

TrimSpec == TrimInit /\ [][TrimNext]_trim_vars

-----------------------------------------------------------------------------
TrimTypeOK ==
  /\ DOMAIN list = Positions
  /\ in \in Positions /\ out \in Positions
  /\ trim_pc \in {"item", "leading", "copy", "trailing", "delimiter", "done"}

(* The characters still to be read are those of the original: what is      *)
(* written never overtakes what is read.  And the loop over the trailing   *)
(* white space always has a character to read.                             *)
InPlace ==
  /\ out <= in
  /\ trim_pc # "done" => \A i \in Positions : i >= in => list[i] = original[i]
  /\ trim_pc = "trailing" => out > 0

(* The items of a list, without the white space around them.               *)
Last0(l) == CHOOSE n \in DOMAIN l : n + 1 \notin DOMAIN l
Text(l)  == [i \in 1 .. Last0(l) |-> l[i - 1]]

Trim(s) == CHOOSE t \in {SubSeq(s, j, k) : j \in 1 .. Len(s) + 1, k \in 0 .. Len(s)} :
             /\ \A i \in {1, Len(t)} \cap DOMAIN t : t[i] \notin WHITESPACE
             /\ \E j \in 0 .. Len(s) - Len(t) :
                  /\ t = SubSeq(s, j + 1, j + Len(t))
                  /\ \A i \in DOMAIN s : i \notin j + 1 .. j + Len(t) => s[i] \in WHITESPACE

(* Where the items end, and where the one before e begins.                 *)
ItemEnds(s)     == {i \in DOMAIN s : s[i] = DELIMITER} \cup {Len(s) + 1}
ItemStart(s, e) == IF \E d \in ItemEnds(s) : d < e
                   THEN CHOOSE d \in ItemEnds(s) : d < e /\ \A x \in ItemEnds(s) : x < e => x <= d
                   ELSE 0
Item(s, e)      == Trim(SubSeq(s, ItemStart(s, e) + 1, e - 1))

Items(s) ==
  LET join[e \in 0 .. Len(s) + 1] ==
        IF e = 0 THEN <<>>
        ELSE IF e \notin ItemEnds(s) THEN join[e - 1]
        ELSE join[e - 1] \o (IF ItemStart(s, e) = 0 THEN <<>> ELSE <<DELIMITER>>) \o Item(s, e)
  IN  join[Len(s) + 1]

(* "Remove whitespace surrounding a string list item delimiters": every    *)
(* item is trimmed, and nothing else is lost, empty items included.        *)
TrimsItems ==
  trim_pc = "done" => [i \in 1 .. out |-> list[i - 1]] = Items(Text(original)) /\ list[out] = ZERO
=============================================================================
