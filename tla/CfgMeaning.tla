------------------------------ MODULE CfgMeaning ------------------------------
(***************************************************************************)
(* What reading a configuration means, as a function of the file system.   *)
(*                                                                         *)
(* A listing of a file is the sequence of lines one gets by writing the    *)
(* included files in the place of the Include lines, and the line Failure  *)
(* in the place of an Include that cannot be followed.  A file has several *)
(* listings because readdir returns the files of a directory in any order, *)
(* and because a file that other processes remove and create may be there  *)
(* or not each time an Include names it or its directory is read.          *)
(* The meaning of a configuration is what reading one of its listings from *)
(* top to bottom stores.  There is no stack, no handle, no early return    *)
(* and no loop over the table here, as there is in CfgParser, which is     *)
(* checked and proved against this.                                        *)
(***************************************************************************)
EXTENDS CfgParser, SequencesExt

(* A path is a file or a directory, and a directory has finitely many      *)
(* entries.                                                                *)
ASSUME TreeAssumption ==
  /\ Files \cap Dirs = {}
  /\ \A w \in DOMAIN World : \A p \in Dirs : IsFiniteSet(World[w].members[p])

(* A list without white space around its items is left as it is (TrimList).*)
ASSUME TrimAssumption == \A t \in Texts : trimmed[trimmed[t]] = trimmed[t]

-----------------------------------------------------------------------------
(* Listings.                                                               *)

Failure == [kind |-> "failure"]

Join(A, B) == {a \o b : a \in A, b \in B}

(* A listing from each of the last n of the sets Q[1], Q[2], ...           *)
Endings(Q) ==
  LET last[n \in 0 .. Len(Q)] ==
        IF n = 0 THEN {<<>>} ELSE Join(Q[Len(Q) - n + 1], last[n - 1])
  IN  last

InOrder(Q) == Endings(Q)[Len(Q)]

(* The files that are there all the time, and those that may be there.     *)
Stable(w)   == w.files \ Volatile
Possible(w) == w.files \cup Volatile

(* The files of a directory, all of them or those match_glob accepts, in   *)
(* any order: those of must, and whichever of the others in may.           *)
Selection(g, S) == {p \in S : g.form = "star" => p \in g.match}

Orders(must, may) == UNION {SetToSeqs(S) : S \in {T \in SUBSET may : must \subseteq T}}

DirListings(must, may, nested) ==
  UNION {InOrder([i \in 1 .. Len(q) |-> nested[q[i]]]) : q \in Orders(must, may)}

(* A directory may fail when it is opened and when it is closed.           *)
Refused(p) == IF p \in Faulty THEN {<<Failure>>} ELSE {}
Closing(p) == {<<>>} \cup Refused(p)

IncludeListings(g, w, nested) ==
  CASE g.form = "plain" /\ g.path \in Files -> nested[g.path]
    [] g.form # "bad" /\ g.path \in Dirs ->
         Refused(g.path) \cup
           Join(DirListings(Selection(g, w.members[g.path] \cap Stable(w)),
                            Selection(g, w.members[g.path] \cap Possible(w)), nested),
                Closing(g.path))
    [] OTHER -> {<<Failure>>}

LineListings(ln, w, nested) ==
  IF ln.kind = "include" THEN IncludeListings(ln.glob, w, nested) ELSE {<<ln>>}

EachLine(lines, w, nested) == [i \in 1 .. Len(lines) |-> LineListings(lines[i], w, nested)]

FileListings(f, w, nested) == InOrder(EachLine(w.lines[f], w, nested))

(* What an Include of each file stands for, where n levels may still be    *)
(* opened.                                                                 *)
Listings(w) ==
  LET nested[n \in 0 .. MAX_INCLUDE_LEVEL] ==
        [f \in Files |->
           (IF n > 0 /\ f \in Possible(w) THEN FileListings(f, w, nested[n - 1]) ELSE {})
             \cup (IF n = 0 \/ f \notin Stable(w) THEN {<<Failure>>} ELSE {})]
  IN  nested

-----------------------------------------------------------------------------
(* What a line does.  The entries an assignment sets all see its value,    *)
(* trimmed for those at or after the first STRING_LIST among them.         *)
Setters(ln)  == {e \in Entries : cfg[e].parameter = ln.parameter}
Value(ln, e) ==
  IF \E d \in Setters(ln) : d <= e /\ cfg[d].type = "STRING_LIST"
    THEN trimmed[ln.value] ELSE ln.value
Rejects(ln)  == {e \in Setters(ln) : /\ cfg[e].type \in {"INT", "UINT64"}
                                     /\ ~Accepts(cfg[e], Value(ln, e))}
Assigned(ln, e, old) ==
  CASE cfg[e].type = "INT"         -> ToInt(number[Value(ln, e)])
    [] cfg[e].type = "UINT64"      -> number[Value(ln, e)]
    [] cfg[e].type = "MULTISTRING" -> Append(old, Value(ln, e))
    [] OTHER                       -> Value(ln, e)

Assign(ln, v, S) ==
  [e \in Entries |-> IF e \in S THEN Assigned(ln, e, v[e]) ELSE v[e]]

(* The entries before the first one that rejects the value are set.  s:    *)
(* CFG_STRICT?                                                             *)
AssignmentMeaning(ln, v, s) ==
  [ret  |-> IF Rejects(ln) # {} \/ (s /\ Setters(ln) = {}) THEN "FAIL" ELSE "SUCCEED",
   vals |-> Assign(ln, v, {e \in Setters(ln) : \A r \in Rejects(ln) : e < r})]

(* An outcome o is what is returned and what is left in the variables.     *)
After(ln, o, s) ==
  CASE o.ret = "FAIL" \/ ln.kind = "skip" -> o
    [] o.ret # "FAIL" /\ ln.kind = "set"  -> AssignmentMeaning(ln, o.vals, s)
    [] OTHER                              -> [o EXCEPT !.ret = "FAIL"]

Outcomes(t, o, s) ==
  LET at[i \in 0 .. Len(t)] == IF i = 0 THEN o ELSE After(t[i], at[i - 1], s)
  IN  at

Read(t, o, s) == Outcomes(t, o, s)[Len(t)]

-----------------------------------------------------------------------------
(* The whole: the mandatory parameters are looked at last.                 *)
Unset(v) == {e \in Entries : /\ cfg[e].mandatory
                             /\ cfg[e].type \notin {"UINT64", "MULTISTRING"}
                             /\ v[e] = InitialValue(cfg[e])}

Checked(o) == IF Unset(o.vals) = {} THEN o ELSE [o EXCEPT !.ret = "FAIL"]

Initial == [ret |-> "SUCCEED", vals |-> [e \in Entries |-> InitialValue(cfg[e])]]

(* The file that is given: none, one that may be there, one that may not.  *)
(* w: the file system, s: CFG_STRICT?, o: CFG_FILE_OPTIONAL?               *)
MainListings(w) ==
  CASE w.main = NULL           -> {<<>>}
    [] w.main \in Possible(w) -> FileListings(w.main, w, Listings(w)[MAX_INCLUDE_LEVEL - 1])
    [] OTHER                   -> {}

WithoutMain(w, o) ==
  IF w.main \in Stable(w) \cup {NULL} THEN {}
  ELSE {IF o THEN Initial ELSE [Initial EXCEPT !.ret = "FAIL"]}

Meaning(w, s, o) ==
  WithoutMain(w, o) \cup {Checked(Read(t, Initial, s)) : t \in MainListings(w)}
-----------------------------------------------------------------------------
Result == [ret |-> ret, vals |-> vals]

(* parse_cfg_file returns and stores what the files mean: whatever the     *)
(* nesting, an included line counts as if written in the place of its      *)
(* Include line, the last assignment to a parameter wins, and a failing    *)
(* file leaves the values assigned before the failure.  Files may vanish   *)
(* and appear meanwhile, between the stat, readdir and fopen of one        *)
(* Include and between two Includes of the same file: each Include then    *)
(* stands for the whole of what it names or for a failure, never for a     *)
(* part of a file.  When malloc fails a success still means that all was   *)
(* read.                                                                   *)
ReadsMeaning ==
  pc = "done" /\ (ret = "SUCCEED" \/ ~MayRunOutOfMemory) =>
    Result \in Meaning(Disk, strict, optional)
=============================================================================
