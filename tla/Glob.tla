-------------------------------- MODULE Glob --------------------------------
(***************************************************************************)
(* The argument of an Include, in cfg-parser/cfg.c: parse_glob splits it   *)
(* into a path and a pattern, parse_cfg_dir puts "/" and the name of a     *)
(* file of that directory behind the path, and match_glob compares that    *)
(* name with the pattern.  Each round of the loop of match_glob is an      *)
(* action.  Memory that runs out is modelled in CfgParser.                 *)
(***************************************************************************)
EXTENDS Integers, SequencesExt

CONSTANTS
  SLASH, STAR,     \* the characters that mean something, others do not
  Globs,           \* the arguments of Include
  Names,           \* the names of the files in a directory
  NULL

Characters == {SLASH, STAR} \cup UNION {ToSet(s) : s \in Globs \cup Names}

ASSUME GlobAssumption ==
  /\ SLASH # STAR
  /\ Globs \cup Names \subseteq Seq(Characters) /\ NULL \notin Seq(Characters)
  /\ \A s \in Names : SLASH \notin ToSet(s)

VARIABLES glob, path, pattern,
          name,     \* the name match_glob is given
          f, p,     \* what it has matched of file and pattern
          glob_pc

glob_vars == <<glob, path, pattern, name, f, p, glob_pc>>

GlobInit ==
  /\ glob \in Globs /\ name \in Names
  /\ path = NULL /\ pattern = NULL /\ f = 0 /\ p = 0 /\ glob_pc = "parse_glob"

FirstStar == CHOOSE i \in DOMAIN glob : glob[i] = STAR /\ \A j \in 1 .. i - 1 : glob[j] # STAR

(* The slash before the pattern.                                           *)
LastSlash(i) == CHOOSE j \in 1 .. i : glob[j] = SLASH /\ \A k \in j + 1 .. i : glob[k] # SLASH

(* str_rtrim(path, "/").                                                   *)
Trimmed(s) == CHOOSE t \in {SubSeq(s, 1, l) : l \in 0 .. Len(s)} :
                /\ t = <<>> \/ Last(t) \notin {SLASH}
                /\ \A i \in Len(t) + 1 .. Len(s) : s[i] \in {SLASH}

(* "retain forward slash for '/'".                                         *)
Retained(s) == IF s = <<>> /\ glob # <<>> /\ glob[1] = SLASH THEN <<SLASH>> ELSE s

(* The path and the pattern are found; a directory is searched.  Without a *)
(* pattern the path names a file or, if stat finds a directory there, all  *)
(* files of that: match_glob is not called.  Nothing has the path "".      *)
Found(whole, pat) ==
  /\ path' = Retained(Trimmed(whole))
  /\ pattern' = IF pat = NULL /\ Trimmed(whole) # whole THEN <<STAR>> ELSE pat
  /\ glob_pc' \in IF pattern' # NULL THEN {"match_glob"}
                  ELSE {"file"} \cup IF path' = <<>> THEN {} ELSE {"directory"}
  /\ UNCHANGED <<glob, name, f, p>>

ParsePlain ==
  /\ glob_pc = "parse_glob" /\ STAR \notin ToSet(glob)
  /\ Found(glob, NULL)

ParsePattern ==
  /\ glob_pc = "parse_glob" /\ STAR \in ToSet(glob)
  /\ \A i \in FirstStar + 1 .. Len(glob) : glob[i] # SLASH
  /\ SLASH \in ToSet(SubSeq(glob, 1, FirstStar))
  /\ LET i == LastSlash(FirstStar) IN
       Found(SubSeq(glob, 1, i - 1), SubSeq(glob, i + 1, Len(glob)))

(* The pattern is not the last component, or has no directory before it.   *)
BadGlob ==
  /\ glob_pc = "parse_glob" /\ STAR \in ToSet(glob)
  /\ \/ \E i \in FirstStar + 1 .. Len(glob) : glob[i] = SLASH
     \/ SLASH \notin ToSet(SubSeq(glob, 1, FirstStar))
  /\ glob_pc' = "bad" /\ UNCHANGED <<glob, path, pattern, name, f, p>>

-----------------------------------------------------------------------------
(* match_glob: literal characters begin after the stars at p and end at    *)
(* the next star or the end of the pattern.                                *)
Begin == CHOOSE i \in p .. Len(pattern) :
           /\ \A j \in p + 1 .. i : pattern[j] = STAR
           /\ i = Len(pattern) \/ pattern[i + 1] # STAR
End == CHOOSE i \in Begin .. Len(pattern) :
         /\ \A j \in Begin + 1 .. i : pattern[j] # STAR
         /\ i = Len(pattern) \/ pattern[i + 1] = STAR

Literal == SubSeq(pattern, Begin + 1, End)

(* strncmp(file + i, p, q - p), which stops at the end of the file's name. *)
Occurs(i) == IsPrefix(Literal, SubSeq(name, i + 1, Len(name)))

Return(r) == glob_pc' = r /\ UNCHANGED <<glob, path, pattern, name, f, p>>

Round == glob_pc = "match_glob" /\ p < Len(pattern)

EndOfPattern ==
  /\ glob_pc = "match_glob" /\ p = Len(pattern)
  /\ Return(IF f = Len(name) THEN "SUCCEED" ELSE "FAIL")

AtBeginning ==
  /\ Round /\ Begin = 0
  /\ IF Occurs(f)
     THEN f' = f + End /\ p' = End /\ UNCHANGED <<glob, path, pattern, name, glob_pc>>
     ELSE Return("FAIL")

AtEnd ==
  /\ Round /\ Begin > 0 /\ End = Len(pattern)
  /\ Return(IF Len(name) - f >= Len(Literal) /\ Occurs(Len(name) - Len(Literal))
            THEN "SUCCEED" ELSE "FAIL")

(* Mutant of Place: the last place where the literal characters occur.     *)
PlaceLast(i) == Occurs(i) /\ \A j \in i + 1 .. Len(name) - 1 : ~Occurs(j)
Place(i)     == Occurs(i) /\ \A j \in f .. i - 1 : ~Occurs(j)

InTheMiddle ==
  /\ Round /\ Begin > 0 /\ End < Len(pattern)
  /\ IF \E i \in f .. Len(name) - 1 : Occurs(i)
     THEN /\ \E i \in f .. Len(name) - 1 : Place(i) /\ f' = i + Len(Literal)
          /\ p' = End /\ UNCHANGED <<glob, path, pattern, name, glob_pc>>
     ELSE Return("FAIL")

GlobStopped == glob_pc \in {"file", "directory", "bad", "SUCCEED", "FAIL"} /\ UNCHANGED glob_vars

GlobNext == ParsePlain \/ ParsePattern \/ BadGlob
        \/ EndOfPattern \/ AtBeginning \/ AtEnd \/ InTheMiddle \/ GlobStopped

GlobSpec == GlobInit /\ [][GlobNext]_glob_vars

-----------------------------------------------------------------------------
GlobTypeOK ==
  /\ f \in 0 .. Len(name)
  /\ pattern # NULL => p \in 0 .. Len(pattern)
  /\ glob_pc \in {"parse_glob", "match_glob", "file", "directory", "bad", "SUCCEED", "FAIL"}

(* The pattern g means s: a star stands for any characters but a slash.    *)
(* from[i] are the places of s from where it is what g means from i on.    *)
Means(g, s) ==
  LET from[i \in 0 .. Len(g)] ==
        IF i = Len(g) THEN {Len(s)}
        ELSE LET next == from[i + 1] IN
             IF g[i + 1] = STAR
             THEN {j \in 0 .. Len(s) : \E k \in next : j <= k /\ \A l \in j + 1 .. k : s[l] # SLASH}
             ELSE {j \in 0 .. Len(s) - 1 : s[j + 1] = g[i + 1] /\ j + 1 \in next}
  IN  0 \in from[0]

(* Several slashes are as good as one.                                     *)
Collapsed(s) ==
  LET keep[i \in 0 .. Len(s)] ==
        IF i = 0 THEN <<>>
        ELSE IF i > 1 /\ s[i] = SLASH /\ s[i - 1] = SLASH THEN keep[i - 1]
             ELSE Append(keep[i - 1], s[i])
  IN  keep[Len(s)]

(* Of the files of the directory that is searched, those are read whose    *)
(* full name the argument of the Include means; a slash at its end means   *)
(* every file of a directory, and so does the bare name of a directory.    *)
(* The directory has a name: "" is no path.                                *)
Whole == IF glob # <<>> /\ Last(glob) = SLASH THEN Append(glob, STAR) ELSE glob
FullName == IF pattern = NULL THEN path ELSE path \o <<SLASH>> \o name

ReadsNamedFiles ==
  /\ glob_pc \in {"SUCCEED", "FAIL"} =>
       (glob_pc = "SUCCEED" <=> Means(Collapsed(Whole), Collapsed(FullName)))
  /\ glob_pc = "file" => Means(Whole, FullName)
  /\ glob_pc = "directory" => Means(Collapsed(glob \o <<SLASH, STAR>>), Collapsed(path \o <<SLASH>> \o name))
  /\ path = <<>> => glob = <<>>
=============================================================================
