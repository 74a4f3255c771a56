------------------------------ MODULE CfgParser ------------------------------
(***************************************************************************)
(* The configuration reader of cfg-parser/cfg.c: parse_cfg_file and the    *)
(* mutually recursive __parse_cfg_file (one activation per open file),     *)
(* parse_cfg_object (one "Include=" line) and parse_cfg_dir (a directory   *)
(* of included files).                                                     *)
(*                                                                         *)
(* The C call stack is the function frame: an activation of                *)
(* __parse_cfg_file has level l (its parameter level after ++level), so    *)
(* frame[l] holds its locals and, while it handles an Include line, those  *)
(* of the parse_cfg_object and parse_cfg_dir it called.  pc is the point   *)
(* the innermost activation has reached.  A step ends at each system call, *)
(* so that another process may change the files between a stat, an fopen   *)
(* and a readdir.                                                          *)
(*                                                                         *)
(* A file is the sequence of the lines fgets returns for it, each already  *)
(* classified (see Lines).  A text, the right-hand side of an assignment,  *)
(* is a member of Texts; number and trimmed are what str2uint64 and        *)
(* str_trim_str_list make of it.                                           *)
(***************************************************************************)
EXTENDS Integers, Sequences

CONSTANTS
  Files, Dirs,        \* paths of regular files, paths of directories
  Texts,              \* right-hand sides of "parameter=value" lines
  number,             \* number[t]: str2uint64(t), or NaN when it returns FAIL
  trimmed,            \* trimmed[t]: t after str_trim_str_list
  cfg,                \* the caller's table: a sequence of struct cfg_line
  World,              \* World[w]: a file system, and the file to read
  Volatile,           \* files another process may remove and create
  Faulty,             \* directories opendir and closedir may fail on
  MAX_INCLUDE_LEVEL,  \* 10 in the code
  INT_MODULUS,        \* 2^32 in the code: the values an int can take
  MayRunOutOfMemory,  \* TRUE iff malloc may return NULL
  NULL, NaN, NoFrame

Paths   == Files \cup Dirs
Levels  == 1 .. MAX_INCLUDE_LEVEL
Entries == 1 .. Len(cfg)

(* An Include argument: without "*", with a trailing "/", with a "*" in    *)
(* the last component, or refused by parse_glob.  match is the set of      *)
(* paths whose last component match_glob accepts.                          *)
Globs == [form : {"plain", "slash", "star", "bad"},
          path : Paths, match : SUBSET Paths]

(* What fgets may return: a blank or comment line, a line that is not      *)
(* UTF-8, one without "=", an Include line, an assignment.                 *)
Lines ==
  [kind : {"skip", "non_utf8", "non_key_value"}]
    \cup [kind : {"include"}, glob : Globs]
    \cup [kind : {"set"}, parameter : STRING, value : Texts]

Types == {"INT", "STRING", "MULTISTRING", "UINT64", "STRING_LIST"}

ASSUME BoundsAssumption ==
  /\ MAX_INCLUDE_LEVEL \in Nat \ {0}
  /\ INT_MODULUS \in Nat \ {0}
  /\ MayRunOutOfMemory \in BOOLEAN

CfgLines == [parameter : STRING, type : Types, mandatory : BOOLEAN,
             min : Nat, max : Nat]

ASSUME TableAssumption == cfg \in Seq(CfgLines)

ASSUME TextAssumption ==
  /\ DOMAIN number = Texts /\ \A t \in Texts : number[t] \in Nat \cup {NaN}
  /\ NaN \notin Nat
  /\ trimmed \in [Texts -> Texts]
  /\ NULL \notin Texts

ASSUME DiskAssumption ==
  /\ Volatile \subseteq Files /\ Faulty \subseteq Dirs
  /\ NULL \notin Paths
  /\ \A w \in DOMAIN World : /\ World[w].main \in Files \cup {NULL}
                             /\ World[w].files \subseteq Files
                             /\ World[w].lines \in [Files -> Seq(Lines)]
                             /\ World[w].members \in [Dirs -> SUBSET Paths]

VARIABLES
  pc,        \* where the innermost activation is
  disk,      \* which World it is
  present,   \* the files that exist now
  optional,  \* the argument of parse_cfg_file: CFG_FILE_OPTIONAL?
  strict,    \* the argument of parse_cfg_file: CFG_STRICT?
  arg,       \* the path handed to __parse_cfg_file, or NULL
  depth,     \* activations of __parse_cfg_file that opened a file
  frame,     \* their locals
  entry,     \* i of the loop over the table
  vals,      \* *cfg[i].variable
  ret,       \* the value being returned
  openFile,  \* levels whose FILE * is open
  openDir,   \* levels whose DIR * is open
  live       \* heap strings allocated and not freed

env     == <<disk, present, optional, strict>>
stack   == <<depth, frame>>
table   == <<entry, vals>>
handles == <<openFile, openDir, live>>
vars    == <<pc, env, arg, stack, table, ret, handles>>

(* The locals of an activation: the FILE *'s file and position, value, and *)
(* those of parse_cfg_object (cfg_file; which of path and pattern are set) *)
(* and parse_cfg_dir (dir is open; the entries readdir has not returned).  *)
Frames == [file : Files, line : Nat \ {0}, value : Texts \cup {NULL},
           glob : Globs \cup {NULL}, ptrs : SUBSET {"path", "pattern"},
           dir : BOOLEAN, todo : SUBSET Paths]

NewFrame(f) == [file |-> f, line |-> 1, value |-> NULL, glob |-> NULL,
                ptrs |-> {}, dir |-> FALSE, todo |-> {}]

(* The lines of each file, the members of each directory, the files there  *)
(* are at the start and the argument of parse_cfg_file, NULL or a file.    *)
Disk      == World[disk]
Top       == frame[depth]
Update(f) == frame' = [frame EXCEPT ![depth] = f]
AtEOF     == Top.line > Len(Disk.lines[Top.file])
Line      == Disk.lines[Top.file][Top.line]
(* Mutant of NextLine: the line is read again.                             *)
SameLine  == [Top EXCEPT !.value = NULL, !.glob = NULL, !.ptrs = {}]
NextLine  == [Top EXCEPT !.line = @ + 1, !.value = NULL, !.glob = NULL,
                         !.ptrs = {}]

Return(r) == ret' = r /\ pc' = "return"

(* fclose(file) and the end of the activation.                             *)
Close ==
  /\ openFile' = openFile \ {depth}
  /\ frame'    = [frame EXCEPT ![depth] = NoFrame]
  /\ depth'    = depth - 1

Error == Close /\ Return("FAIL")

-----------------------------------------------------------------------------
(* Entering __parse_cfg_file.                                              *)

RecursionDetected ==
  /\ pc = "call"
  /\ depth + 1 > MAX_INCLUDE_LEVEL
  /\ Return("FAIL")
  /\ UNCHANGED <<env, arg, stack, table, handles>>

(* cfg_file is NULL: only the mandatory parameters are checked.            *)
NoFileGiven ==
  /\ pc = "call" /\ depth + 1 <= MAX_INCLUDE_LEVEL
  /\ arg = NULL
  /\ pc' = "mandatory"
  /\ UNCHANGED <<env, arg, stack, table, ret, handles>>

(* Mutant of CannotOpen: optional is handed down to included files.        *)
OptionalInclude ==
  /\ pc = "call" /\ depth + 1 <= MAX_INCLUDE_LEVEL
  /\ arg \notin present \cup {NULL}
  /\ Return(IF optional THEN "SUCCEED" ELSE "FAIL")
  /\ UNCHANGED <<env, arg, stack, table, handles>>

(* fopen fails.  An included file is always CFG_FILE_REQUIRED.             *)
CannotOpen ==
  /\ pc = "call" /\ depth + 1 <= MAX_INCLUDE_LEVEL
  /\ arg \notin present \cup {NULL}
  /\ Return(IF depth = 0 /\ optional THEN "SUCCEED" ELSE "FAIL")
  /\ UNCHANGED <<env, arg, stack, table, handles>>

(* Mutant of Open: the level is not bounded.                               *)
OpenAnyLevel ==
  /\ pc = "call" /\ arg \in present
  /\ depth'    = depth + 1
  /\ frame'    = [frame EXCEPT ![depth + 1] = NewFrame(arg)]
  /\ openFile' = openFile \cup {depth + 1}
  /\ pc'       = "line"
  /\ UNCHANGED <<env, arg, table, ret, openDir, live>>

Open ==
  /\ pc = "call" /\ depth + 1 <= MAX_INCLUDE_LEVEL
  /\ arg \in present
  /\ depth'    = depth + 1
  /\ frame'    = [frame EXCEPT ![depth + 1] = NewFrame(arg)]
  /\ openFile' = openFile \cup {depth + 1}
  /\ pc'       = "line"
  /\ UNCHANGED <<env, arg, table, ret, openDir, live>>

-----------------------------------------------------------------------------
(* The line loop.                                                          *)

SkipLine ==
  /\ pc = "line" /\ ~AtEOF
  /\ Line.kind = "skip"
  /\ Update(NextLine)
  /\ UNCHANGED <<pc, env, arg, depth, table, ret, handles>>

InvalidLine ==
  /\ pc = "line" /\ ~AtEOF
  /\ Line.kind \in {"non_utf8", "non_key_value"}
  /\ Error
  /\ UNCHANGED <<env, arg, table, openDir, live>>

(* Include=...: call parse_cfg_object.                                     *)
IncludeLine ==
  /\ pc = "line" /\ ~AtEOF
  /\ Line.kind = "include"
  /\ Update([Top EXCEPT !.glob = Line.glob])
  /\ pc' = "glob"
  /\ UNCHANGED <<env, arg, depth, table, ret, handles>>

AssignmentLine ==
  /\ pc = "line" /\ ~AtEOF
  /\ Line.kind = "set"
  /\ Update([Top EXCEPT !.value = Line.value])
  /\ entry' = 1
  /\ pc'    = "match"
  /\ UNCHANGED <<env, arg, depth, vals, ret, handles>>

(* Mutant of EndOfFile: an included file checks them too.                  *)
EndOfAnyFile ==
  /\ pc = "line" /\ AtEOF
  /\ Close
  /\ ret' = ret /\ pc' = "mandatory"
  /\ UNCHANGED <<env, arg, table, openDir, live>>

(* Mandatory parameters are checked only by the outermost activation.      *)
EndOfFile ==
  /\ pc = "line" /\ AtEOF
  /\ Close
  /\ IF depth # 1 THEN Return("SUCCEED")
                  ELSE ret' = ret /\ pc' = "mandatory"
  /\ UNCHANGED <<env, arg, table, openDir, live>>

-----------------------------------------------------------------------------
(* The loop over the table, for the assignment Line.                       *)

(* The conversion (int)var.                                                *)
ToInt(n) == LET m == n % INT_MODULUS
            IN  IF 2 * m >= INT_MODULUS THEN m - INT_MODULUS ELSE m

(* str2uint64 and the range test, in which max = 0 means no maximum.       *)
Accepts(e, t) == /\ number[t] # NaN
                 /\ e.min <= number[t]
                 /\ e.max = 0 \/ number[t] <= e.max

Entry       == cfg[entry]
Matching    == /\ pc = "match" /\ entry <= Len(cfg)
               /\ Entry.parameter = Line.parameter
NumericType == Entry.type \in {"INT", "UINT64"}

Store(v) == /\ vals'  = [vals EXCEPT ![entry] = v]
            /\ entry' = entry + 1
            /\ UNCHANGED <<pc, env, arg, depth, ret, handles>>

OtherParameter ==
  /\ pc = "match" /\ entry <= Len(cfg)
  /\ Entry.parameter # Line.parameter
  /\ entry' = entry + 1
  /\ UNCHANGED <<pc, env, arg, stack, vals, ret, handles>>

IncorrectConfig ==
  /\ Matching /\ NumericType
  /\ ~Accepts(Entry, Top.value)
  /\ Error
  /\ UNCHANGED <<env, arg, table, openDir, live>>

StoreNumber ==
  /\ Matching /\ NumericType
  /\ Accepts(Entry, Top.value)
  /\ LET n == number[Top.value]
     IN  Store(IF Entry.type = "INT" THEN ToInt(n) ELSE n)
  /\ UNCHANGED frame

(* The previous string, if any, is overwritten and not freed.              *)
StoreString ==
  /\ Matching /\ Entry.type = "STRING"
  /\ Store(Top.value)
  /\ UNCHANGED frame

(* str_trim_str_list works in place: later entries see the trimmed value.  *)
StoreStringList ==
  /\ Matching /\ Entry.type = "STRING_LIST"
  /\ Store(trimmed[Top.value])
  /\ Update([Top EXCEPT !.value = trimmed[@]])

StoreMultistring ==
  /\ Matching /\ Entry.type = "MULTISTRING"
  /\ Store(Append(vals[entry], Top.value))
  /\ UNCHANGED frame

(* str_strdup returns NULL: the pointer is already stored.  str_strarr_add *)
(* loses the array when realloc fails and keeps it when str_strdup does.   *)
CopyStringError ==
  /\ MayRunOutOfMemory
  /\ Matching /\ ~NumericType
  /\ \/ vals' = [vals EXCEPT ![entry] = NULL]
     \/ Entry.type = "MULTISTRING" /\ vals' = vals
  /\ Error
  /\ UNCHANGED <<env, arg, entry, openDir, live>>

Unknown == \A e \in Entries : cfg[e].parameter # Line.parameter

EndOfTable ==
  /\ pc = "match" /\ entry > Len(cfg)
  /\ IF strict /\ Unknown
       THEN Error
       ELSE Update(NextLine) /\ pc' = "line" /\ UNCHANGED <<depth, ret, openFile>>
  /\ UNCHANGED <<env, arg, table, openDir, live>>

-----------------------------------------------------------------------------
(* parse_cfg_object.                                                       *)

(* The strings parse_glob allocates: pattern only for a "*" in the last    *)
(* component or for a trailing "/".                                        *)
GlobStrings(g) == IF g.form = "plain" THEN {"path"} ELSE {"path", "pattern"}

(* Mutant of ParseGlob: pattern is the literal "*", not a copy.            *)
ParseGlobLiteral ==
  /\ pc = "glob"
  /\ Top.glob.form # "bad"
  /\ Update([Top EXCEPT !.ptrs = GlobStrings(Top.glob)])
  /\ live' = live \cup {<<depth, "path">>}
  /\ pc'   = "stat"
  /\ UNCHANGED <<env, arg, depth, table, ret, openFile, openDir>>

ParseGlob ==
  /\ pc = "glob"
  /\ Top.glob.form # "bad"
  /\ Update([Top EXCEPT !.ptrs = GlobStrings(Top.glob)])
  /\ live' = live \cup ({depth} \X GlobStrings(Top.glob))
  /\ pc'   = "stat"
  /\ UNCHANGED <<env, arg, depth, table, ret, openFile, openDir>>

BadGlob ==
  /\ pc = "glob"
  /\ Top.glob.form = "bad"
  /\ ret' = "FAIL" /\ pc' = "clean"
  /\ UNCHANGED <<env, arg, stack, table, handles>>

(* A str_strdup of parse_glob returns NULL: that of path, or that of       *)
(* pattern, upon which path is freed but remains set in the caller.        *)
ParseGlobOutOfMemory ==
  /\ MayRunOutOfMemory
  /\ pc = "glob"
  /\ Top.glob.form # "bad"
  /\ \/ UNCHANGED frame
     \/ /\ "pattern" \in GlobStrings(Top.glob)
        /\ Update([Top EXCEPT !.ptrs = {"path"}])
  /\ ret' = "FAIL" /\ pc' = "clean"
  /\ UNCHANGED <<env, arg, depth, table, handles>>

(* stat(path): nothing there, a file where the glob needs a directory, a   *)
(* file, a directory.                                                      *)
StatFails ==
  /\ pc = "stat"
  /\ Top.glob.path \in Files
  /\ Top.glob.path \notin present \/ "pattern" \in Top.ptrs
  /\ ret' = "FAIL" /\ pc' = "clean"
  /\ UNCHANGED <<env, arg, stack, table, handles>>

StatFile ==
  /\ pc = "stat"
  /\ Top.glob.path \in present
  /\ "pattern" \notin Top.ptrs
  /\ arg' = Top.glob.path
  /\ pc'  = "call"
  /\ UNCHANGED <<env, stack, table, ret, handles>>

StatDir ==
  /\ pc = "stat"
  /\ Top.glob.path \in Dirs
  /\ pc' = "opendir"
  /\ UNCHANGED <<env, arg, stack, table, ret, handles>>

(* Mutant of Freed: free(pattern) is forgotten.                            *)
FreedPath == {depth} \X (Top.ptrs \ {"pattern"})

(* clean: free(pattern), free(path); then the caller looks at ret.         *)
Freed == {depth} \X Top.ptrs

Clean ==
  /\ pc = "clean"
  /\ Freed \subseteq live
  /\ live' = live \ Freed
  /\ IF ret = "FAIL"
       THEN Error
       ELSE Update(NextLine) /\ pc' = "line" /\ UNCHANGED <<depth, ret, openFile>>
  /\ UNCHANGED <<env, arg, table, openDir>>

(* free of a pointer that is not allocated: the program is aborted.        *)
DoubleFree ==
  /\ pc = "clean"
  /\ ~(Freed \subseteq live)
  /\ pc' = "double_free"
  /\ UNCHANGED <<env, arg, stack, table, ret, handles>>

-----------------------------------------------------------------------------
(* parse_cfg_dir.                                                          *)

OpenDir ==
  /\ pc = "opendir"
  /\ Update([Top EXCEPT !.dir = TRUE, !.todo = Disk.members[Top.glob.path]])
  /\ openDir' = openDir \cup {depth}
  /\ pc'      = "readdir"
  /\ UNCHANGED <<env, arg, depth, table, ret, openFile, live>>

CannotOpenDir ==
  /\ pc = "opendir"
  /\ Top.glob.path \in Faulty
  /\ ret' = "FAIL" /\ pc' = "clean"
  /\ UNCHANGED <<env, arg, stack, table, handles>>

(* stat finds a regular file, and match_glob accepts its name.             *)
Selected(g, p) == p \in present /\ (g.form = "star" => p \in g.match)

(* readdir returns the entries in no particular order; file is the path    *)
(* str_dsprintf builds for each of them.                                   *)
ReadDir ==
  /\ pc = "readdir"
  /\ \E p \in Top.todo :
       /\ Update([Top EXCEPT !.todo = @ \ {p}])
       /\ IF Selected(Top.glob, p) THEN arg' = p   /\ pc' = "call"
                                   ELSE arg' = arg /\ pc' = pc
  /\ live' = live \cup {<<depth, "file">>}
  /\ UNCHANGED <<env, depth, table, ret, openFile, openDir>>

(* str_dsprintf does not test malloc: vsnprintf writes through NULL.       *)
ReadDirOutOfMemory ==
  /\ MayRunOutOfMemory
  /\ pc = "readdir"
  /\ Top.todo # {}
  /\ pc' = "null_write"
  /\ UNCHANGED <<env, arg, stack, table, ret, handles>>

EndOfDir ==
  /\ pc = "readdir"
  /\ Top.todo = {}
  /\ ret' = "SUCCEED" /\ pc' = "close"
  /\ UNCHANGED <<env, arg, stack, table, handles>>

(* close: closedir(dir), which may fail, and free(file).                   *)
CloseDir ==
  /\ pc = "close"
  /\ openDir' = openDir \ {depth}
  /\ live'    = live \ {<<depth, "file">>}
  /\ Update([Top EXCEPT !.dir = FALSE, !.todo = {}])
  /\ pc'      = "clean"
  /\ ret' \in {ret} \cup (IF Top.glob.path \in Faulty THEN {"FAIL"} ELSE {})
  /\ UNCHANGED <<env, arg, depth, table, openFile>>

-----------------------------------------------------------------------------
(* Returning from __parse_cfg_file to parse_cfg_object, parse_cfg_dir or   *)
(* parse_cfg_file.                                                         *)

ReturnToObject ==
  /\ pc = "return" /\ depth > 0 /\ ~Top.dir
  /\ pc' = "clean"
  /\ UNCHANGED <<env, arg, stack, table, ret, handles>>

(* Mutants of ReturnToDir: the failure is ignored; goto out for close.     *)
IgnoreFailure ==
  /\ pc = "return" /\ depth > 0 /\ Top.dir
  /\ pc' = "readdir"
  /\ UNCHANGED <<env, arg, stack, table, ret, handles>>

LeaveOpen ==
  /\ pc = "return" /\ depth > 0 /\ Top.dir
  /\ pc' = IF ret = "SUCCEED" THEN "readdir" ELSE "clean"
  /\ UNCHANGED <<env, arg, stack, table, ret, handles>>

ReturnToDir ==
  /\ pc = "return" /\ depth > 0 /\ Top.dir
  /\ pc' = IF ret = "SUCCEED" THEN "readdir" ELSE "close"
  /\ UNCHANGED <<env, arg, stack, table, ret, handles>>

ReturnToCaller ==
  /\ pc = "return" /\ depth = 0
  /\ pc' = "done"
  /\ UNCHANGED <<env, arg, stack, table, ret, handles>>

(* Mutant of Missing: only numbers are looked at.                          *)
MissingNumber(e) == cfg[e].mandatory /\ cfg[e].type = "INT" /\ vals[e] = 0

(* A mandatory parameter is missing when its variable is 0 or NULL.        *)
Missing(e) ==
  /\ cfg[e].mandatory
  /\ \/ cfg[e].type = "INT" /\ vals[e] = 0
     \/ cfg[e].type \in {"STRING", "STRING_LIST"} /\ vals[e] = NULL

CheckMandatory ==
  /\ pc = "mandatory"
  /\ Return(IF \E e \in Entries : Missing(e) THEN "FAIL" ELSE "SUCCEED")
  /\ UNCHANGED <<env, arg, stack, table, handles>>

-----------------------------------------------------------------------------
Stops == {"done", "double_free", "null_write"}

(* Another process removes or creates a file.                              *)
OtherProcess ==
  /\ pc \notin Stops
  /\ \E f \in Volatile :
       present' \in {present \ {f}, present \cup {f}} \ {present}
  /\ UNCHANGED <<pc, disk, optional, strict, arg, stack, table, ret, handles>>

Stopped == pc \in Stops /\ UNCHANGED vars

(* The caller's variables are static: 0, NULL, or an array that            *)
(* str_strarr_init made empty.                                             *)
InitialValue(e) == CASE e.type \in {"INT", "UINT64"}         -> 0
                     [] e.type \in {"STRING", "STRING_LIST"} -> NULL
                     [] e.type = "MULTISTRING"               -> <<>>

Init ==
  /\ disk \in DOMAIN World /\ present = Disk.files
  /\ optional \in BOOLEAN /\ strict \in BOOLEAN
  /\ arg = Disk.main
  /\ pc = "call" /\ depth = 0 /\ entry = 1 /\ ret = "SUCCEED"
  /\ frame = [l \in Levels |-> NoFrame]
  /\ vals  = [e \in Entries |-> InitialValue(cfg[e])]
  /\ openFile = {} /\ openDir = {} /\ live = {}

Parse ==
  \/ RecursionDetected \/ NoFileGiven \/ CannotOpen \/ Open
  \/ SkipLine \/ InvalidLine \/ IncludeLine \/ AssignmentLine \/ EndOfFile
  \/ OtherParameter \/ IncorrectConfig \/ StoreNumber \/ StoreString
  \/ StoreStringList \/ StoreMultistring \/ CopyStringError \/ EndOfTable
  \/ ParseGlob \/ BadGlob \/ ParseGlobOutOfMemory
  \/ StatFails \/ StatFile \/ StatDir \/ Clean \/ DoubleFree
  \/ OpenDir \/ CannotOpenDir \/ ReadDir \/ ReadDirOutOfMemory \/ EndOfDir
  \/ CloseDir \/ ReturnToObject \/ ReturnToDir \/ ReturnToCaller
  \/ CheckMandatory

Next == Parse \/ OtherProcess \/ Stopped

Spec     == Init /\ [][Next]_vars
(* The reader is one thread that runs until it stops.                      *)
FairSpec == Spec /\ WF_vars(Parse)
-----------------------------------------------------------------------------
(* Correctness.                                                            *)

Values(e) == CASE e.type \in {"INT", "UINT64"}         -> Int
               [] e.type \in {"STRING", "STRING_LIST"} -> Texts \cup {NULL}
               [] e.type = "MULTISTRING"               -> Seq(Texts) \cup {NULL}

(* Every variable has the type the C declarations give it.                 *)
TypeOK ==
  /\ pc \in {"call", "line", "match", "glob", "stat", "opendir", "readdir",
             "close", "clean", "mandatory", "return"} \cup Stops
  /\ disk \in DOMAIN World /\ present \subseteq Files
  /\ optional \in BOOLEAN /\ strict \in BOOLEAN
  /\ arg \in Files \cup {NULL}
  /\ depth \in 0 .. MAX_INCLUDE_LEVEL
  /\ frame \in [Levels -> Frames \cup {NoFrame}]
  /\ entry \in 1 .. Len(cfg) + 1
  /\ DOMAIN vals = Entries /\ \A e \in Entries : vals[e] \in Values(cfg[e])
  /\ ret \in {"SUCCEED", "FAIL"}
  /\ openFile \subseteq Levels /\ openDir \subseteq Levels
  /\ live \subseteq Levels \X {"path", "pattern", "file"}

(* Every FILE * and every DIR * belongs to an activation that is still     *)
(* running, on all the error paths as well: each goto of the line loop     *)
(* closes the file, and parse_cfg_dir closes the directory when an         *)
(* included file fails.  In particular none is open when parse_cfg_file    *)
(* returns, and at most MAX_INCLUDE_LEVEL of each are open at a time.      *)
HandlesMatchStack ==
  /\ openFile = 1 .. depth
  /\ openDir  = {l \in 1 .. depth : frame[l].dir}
  /\ pc = "done" => openFile = {} /\ openDir = {}

(* The heap strings of parse_cfg_object and parse_cfg_dir do not outlive   *)
(* the call that allocated them, even when malloc fails somewhere.         *)
Owned(l) == frame[l].ptrs \cup (IF frame[l].dir THEN {"file"} ELSE {})
NoLeak   == \A s \in live : s[1] <= depth /\ s[2] \in Owned(s[1])

(* While malloc succeeds no string is freed twice: between parse_glob and  *)
(* clean, through every nested include, path and pattern stay allocated.   *)
CrashesOnlyOutOfMemory == pc \in {"double_free", "null_write"} => MayRunOutOfMemory

(* str_strdup's comment: "use malloc() to allocate memory, use free() to   *)
(* free it".  So each string it returns is freed once, by parse_glob or at *)
(* clean.                                                                  *)
NoDoubleFree == pc # "double_free"

(* A failure anywhere in the include tree is final: no level of the        *)
(* recursion swallows it, and nothing is opened or stored after it.        *)
FailIsFinal ==
  [][ret = "FAIL" => /\ ret' = "FAIL" /\ vals' = vals
                     /\ openFile' \subseteq openFile
                     /\ openDir' \subseteq openDir]_vars

(* The reader stops, for files that include each other in a cycle too.     *)
Termination == <>(pc \in Stops)
=============================================================================
