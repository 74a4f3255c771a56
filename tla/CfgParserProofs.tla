--------------------------- MODULE CfgParserProofs ---------------------------
(***************************************************************************)
(* Proofs about CfgParser, for every table, file system, level limit and   *)
(* int width.                                                              *)
(*                                                                         *)
(* The argument is one inductive invariant, Inv.  What ties the handles to *)
(* the stack is where an activation may be suspended: only inside an       *)
(* Include line (Waiting), and inside parse_cfg_dir exactly when its       *)
(* directory is open (DirWhere).  What makes a failure final is that pc    *)
(* can only be at the end of some C function while ret is FAIL.  The heap, *)
(* the ranges of the numbers and the mandatory parameters are invariants   *)
(* relative to Inv.                                                        *)
(*                                                                         *)
(* That the reader computes the meaning of CfgMeaning is Story: reading    *)
(* the listings that are still ahead of the innermost activation, and then *)
(* those that are ahead of the activations below it, turns the outcome so  *)
(* far into a meaning of the configuration.                                *)
(***************************************************************************)
EXTENDS CfgMeaning, Induction, SequenceTheorems

InFile == {"line", "match", "glob", "stat", "opendir", "readdir", "close", "clean"}

Waiting ==
  \A l \in 1 .. depth :
    l < depth \/ pc \notin {"line", "match"} => frame[l].glob \in Globs

DirWhere ==
  /\ pc \in {"line", "match", "glob", "stat", "opendir", "clean"} => ~Top.dir
  /\ pc \in {"readdir", "close"} => Top.dir

Where ==
  /\ pc \in InFile => depth > 0
  /\ pc \in {"mandatory", "done"} => depth = 0
  /\ pc = "match" => Top.value \in Texts
  /\ pc = "opendir" => Top.glob.path \in Dirs
  /\ pc = "call" /\ depth > 0 => arg # NULL

FailUnwinds == ret = "FAIL" => pc \in {"return", "clean", "close", "done", "double_free"}

MultiOK ==
  ret = "SUCCEED" =>
    \A e \in Entries : cfg[e].type = "MULTISTRING" => vals[e] \in Seq(Texts)

StackInv == /\ HandlesMatchStack
            /\ \A l \in 1 .. depth : frame[l] \in Frames
            /\ Waiting /\ DirWhere /\ Where

Inv == TypeOK /\ StackInv /\ FailUnwinds /\ MultiOK

-----------------------------------------------------------------------------
(* A line that is an Include has a glob, an assignment has a text.         *)
LEMMA LineType ==
  ASSUME Inv, pc = "line", ~AtEOF
  PROVE  /\ Line.kind = "include" => Line.glob \in Globs
         /\ Line.kind = "set" => Line.value \in Texts
<1>1. Top \in Frames
  BY DEF Inv, StackInv, TypeOK, Where, InFile, Levels, Top
<1>2. Disk.lines \in [Files -> Seq(Lines)]
  BY DiskAssumption DEF Inv, TypeOK, Disk
<1>3. Line \in Lines
  <2>1. Top.file \in Files /\ Top.line \in Nat \ {0}
    BY <1>1 DEF Frames
  <2>2. Disk.lines[Top.file] \in Seq(Lines)
    BY <1>2, <2>1
  <2>3. Top.line \in 1 .. Len(Disk.lines[Top.file])
    BY <2>1, <2>2 DEF AtEOF
  <2> QED BY <2>2, <2>3 DEF Line
<1> QED BY <1>3 DEF Lines

(* The table's entries have one of the five types.                         *)
LEMMA EntryType == \A e \in Entries : cfg[e].type \in Types
<1>1. \A e \in Entries : cfg[e] \in CfgLines
  BY TableAssumption DEF Entries
<1> QED BY <1>1 DEF CfgLines

(* The reader starts with an empty stack and zeroed variables.             *)
LEMMA Initially == Init => Inv
<1> SUFFICES ASSUME Init PROVE Inv
  OBVIOUS
<1>1. /\ DOMAIN vals = Entries
      /\ \A e \in Entries : vals[e] \in Values(cfg[e])
  <2>1. \A e \in Entries : InitialValue(cfg[e]) \in Values(cfg[e])
    <3> SUFFICES ASSUME NEW e \in Entries
                 PROVE  InitialValue(cfg[e]) \in Values(cfg[e])
      OBVIOUS
    <3>1. CASE cfg[e].type \in {"INT", "UINT64"}
      BY <3>1 DEF InitialValue, Values
    <3>2. CASE cfg[e].type \in {"STRING", "STRING_LIST"}
      BY <3>2 DEF InitialValue, Values
    <3>3. CASE cfg[e].type = "MULTISTRING"
      BY <3>3 DEF InitialValue, Values
    <3> QED BY <3>1, <3>2, <3>3, EntryType DEF Types
  <2> QED BY <2>1 DEF Init
<1>2. TypeOK
  <2>1. /\ disk \in DOMAIN World /\ present \subseteq Files
        /\ arg \in Files \cup {NULL}
    BY DiskAssumption DEF Init, Disk
  <2>2. entry \in 1 .. Len(cfg) + 1
    BY TableAssumption DEF Init
  <2> QED BY <1>1, <2>1, <2>2, BoundsAssumption DEF Init, TypeOK, Stops
<1>3. MultiOK
  BY DEF Init, MultiOK, InitialValue
<1> QED
  BY <1>2, <1>3
  DEF Init, Inv, StackInv, HandlesMatchStack, Waiting, DirWhere, Where, FailUnwinds, InFile

-----------------------------------------------------------------------------
(* Replacing the innermost frame, with the directory opened, closed or     *)
(* left as it is.                                                          *)
LEMMA Updated ==
  ASSUME Inv, pc \in InFile, NEW f \in Frames, Update(f), depth' = depth,
         openFile' = openFile,
         \/ openDir' = openDir /\ f.dir = Top.dir
         \/ openDir' = openDir \cup {depth} /\ f.dir
         \/ openDir' = openDir \ {depth} /\ ~f.dir,
         pc' \in (InFile \cup {"call"}) \ {"opendir"},
         pc' \in {"line", "match", "glob", "stat", "opendir", "clean"} => ~f.dir,
         pc' \in {"readdir", "close"} => f.dir,
         pc' = "match" => f.value \in Texts,
         pc' \notin {"line", "match"} => f.glob \in Globs,
         pc' = "call" => arg' # NULL
  PROVE  /\ StackInv'
         /\ frame' \in [Levels -> Frames \cup {NoFrame}]
         /\ openDir' \subseteq Levels
         /\ depth \in Levels
<1>1. depth \in Levels /\ frame \in [Levels -> Frames \cup {NoFrame}]
  BY BoundsAssumption DEF Inv, StackInv, TypeOK, Where, Levels
<1>2. /\ frame' \in [Levels -> Frames \cup {NoFrame}]
      /\ frame'[depth] = f
      /\ \A l \in 1 .. depth : l # depth => frame'[l] = frame[l]
  BY <1>1, BoundsAssumption DEF Update, Levels
<1>3. f.dir \in BOOLEAN /\ Top.dir \in BOOLEAN
  BY <1>1, BoundsAssumption DEF Inv, StackInv, Frames, Top, Levels
<1>4. openDir' = {l \in 1 .. depth' : frame'[l].dir}
  BY <1>1, <1>2, <1>3, BoundsAssumption DEF Inv, StackInv, HandlesMatchStack, Top, Levels
<1>5. HandlesMatchStack'
  BY <1>4 DEF Inv, StackInv, HandlesMatchStack, InFile
<1>6. (\A l \in 1 .. depth : frame[l] \in Frames)' /\ Waiting'
  BY <1>1, <1>2 DEF Inv, StackInv, Waiting, Levels
<1>7. DirWhere' /\ Where'
  BY <1>2 DEF Inv, StackInv, DirWhere, Where, InFile, Top
<1> QED BY <1>1, <1>2, <1>4, <1>5, <1>6, <1>7, BoundsAssumption DEF StackInv, Levels

(* Leaving the innermost activation.                                       *)
LEMMA Closed ==
  ASSUME Inv, pc \in InFile, ~Top.dir, Close, openDir' = openDir,
         pc' \in {"return", "mandatory"}, pc' = "mandatory" => depth = 1
  PROVE  /\ StackInv'
         /\ frame' \in [Levels -> Frames \cup {NoFrame}]
         /\ depth' \in 0 .. MAX_INCLUDE_LEVEL
         /\ openFile' \subseteq Levels
<1>1. /\ depth \in Levels
      /\ depth' \in 0 .. MAX_INCLUDE_LEVEL /\ depth' = depth - 1
      /\ frame' \in [Levels -> Frames \cup {NoFrame}]
      /\ \A l \in 1 .. depth' : frame'[l] = frame[l]
  BY BoundsAssumption DEF Inv, StackInv, TypeOK, Where, Levels, Close
<1>2. openFile' = 1 .. depth' /\ openFile' \subseteq Levels
  BY <1>1, BoundsAssumption DEF Inv, StackInv, Close, HandlesMatchStack, Levels
<1>3. openDir' = {l \in 1 .. depth' : frame'[l].dir}
  BY <1>1, BoundsAssumption DEF Inv, StackInv, HandlesMatchStack, Top, Levels
<1>4. (\A l \in 1 .. depth : frame[l] \in Frames)' /\ Waiting'
  BY <1>1, BoundsAssumption DEF Inv, StackInv, Waiting, Levels
<1>5. DirWhere' /\ Where'
  BY <1>1, BoundsAssumption DEF DirWhere, Where, InFile, Levels
<1>6. HandlesMatchStack'
  BY <1>2, <1>3 DEF HandlesMatchStack
<1> QED BY <1>1, <1>2, <1>4, <1>5, <1>6 DEF StackInv

(* The frames the steps put there.                                         *)
LEMMA TopFrames ==
  ASSUME Inv, pc \in InFile
  PROVE  /\ Top \in Frames /\ NextLine \in Frames
         /\ NextLine.dir = Top.dir /\ NextLine.ptrs = {}
         /\ \A x \in Globs : [Top EXCEPT !.glob = x] \in Frames
         /\ \A x \in Texts : [Top EXCEPT !.value = x] \in Frames
         /\ \A x \in SUBSET {"path", "pattern"} : [Top EXCEPT !.ptrs = x] \in Frames
         /\ \A x \in SUBSET Paths, b \in BOOLEAN : [Top EXCEPT !.dir = b, !.todo = x] \in Frames
         /\ \A x \in SUBSET Paths : [Top EXCEPT !.todo = x] \in Frames
<1>1. Top \in Frames
  BY BoundsAssumption DEF Inv, StackInv, TypeOK, Where, InFile, Levels, Top
<1>2. NextLine \in Frames /\ NextLine.dir = Top.dir /\ NextLine.ptrs = {}
  <2>1. Top.line + 1 \in Nat \ {0}
    BY <1>1 DEF Frames
  <2> DEFINE a == [Top EXCEPT !.line = @ + 1]
             b == [a EXCEPT !.value = NULL]
             c == [b EXCEPT !.glob = NULL]
             e == [c EXCEPT !.ptrs = {}]
  <2>2. a \in Frames /\ a.dir = Top.dir
    BY <1>1, <2>1 DEF Frames
  <2>3. b \in Frames /\ b.dir = Top.dir
    BY <2>2 DEF Frames
  <2>4. c \in Frames /\ c.dir = Top.dir
    BY <2>3 DEF Frames
  <2>5. e \in Frames /\ e.dir = Top.dir /\ e.ptrs = {}
    BY <2>4 DEF Frames
  <2>6. NextLine = e
    BY DEF NextLine
  <2> QED BY <2>5, <2>6
<1>3. /\ \A x \in Globs : [Top EXCEPT !.glob = x] \in Frames
      /\ \A x \in Texts : [Top EXCEPT !.value = x] \in Frames
      /\ \A x \in SUBSET {"path", "pattern"} : [Top EXCEPT !.ptrs = x] \in Frames
  BY <1>1 DEF Frames
<1>4. /\ \A x \in SUBSET Paths, b \in BOOLEAN : [Top EXCEPT !.dir = b, !.todo = x] \in Frames
      /\ \A x \in SUBSET Paths : [Top EXCEPT !.todo = x] \in Frames
  BY <1>1 DEF Frames
<1> QED BY <1>1, <1>2, <1>3, <1>4

(* An activation past its line loop is handling an Include line.           *)
LEMMA WaitingTop ==
  ASSUME Inv, pc \in InFile \ {"line", "match"}
  PROVE  depth \in Levels /\ Top \in Frames /\ Top.glob \in Globs
<1>1. depth \in Levels /\ depth \in 1 .. depth
  BY BoundsAssumption DEF Inv, StackInv, TypeOK, Where, Levels
<1>2. frame[depth].glob \in Globs /\ frame[depth] \in Frames
  BY <1>1 DEF Inv, StackInv, Waiting
<1> QED BY <1>1, <1>2 DEF Top

-----------------------------------------------------------------------------
(* The conversion to int yields an integer.                                *)
LEMMA ToIntType == \A n \in Nat : ToInt(n) \in Int
<1> SUFFICES ASSUME NEW n \in Nat PROVE ToInt(n) \in Int
  OBVIOUS
<1>1. n % INT_MODULUS \in Int
  BY BoundsAssumption
<1> QED BY <1>1, BoundsAssumption DEF ToInt

(* The values of a variable, by the type of its entry.                     *)
LEMMA ValuesOf ==
  \A e \in Entries :
    /\ cfg[e].type \in {"INT", "UINT64"} => Values(cfg[e]) = Int
    /\ cfg[e].type \in {"STRING", "STRING_LIST"} => Values(cfg[e]) = Texts \cup {NULL}
    /\ cfg[e].type = "MULTISTRING" => Values(cfg[e]) = Seq(Texts) \cup {NULL}
BY DEF Values

(* A value of the entry's type keeps the table typed.                      *)
LEMMA Stored ==
  ASSUME Inv, pc = "match", ret = "SUCCEED", entry \in Entries,
         NEW v \in Values(cfg[entry]),
         cfg[entry].type = "MULTISTRING" => v \in Seq(Texts), Store(v)
  PROVE  /\ DOMAIN vals' = Entries
         /\ \A e \in Entries : vals'[e] \in Values(cfg[e])
         /\ entry' \in 1 .. Len(cfg) + 1
         /\ MultiOK'
<1>1. /\ DOMAIN vals' = Entries
      /\ \A e \in Entries : vals'[e] = IF e = entry THEN v ELSE vals[e]
  BY DEF Inv, TypeOK, Store
<1>2. \A e \in Entries : vals'[e] \in Values(cfg[e])
  BY <1>1 DEF Inv, TypeOK
<1>3. entry' \in 1 .. Len(cfg) + 1
  BY TableAssumption DEF Store, Entries
<1>4. MultiOK'
  BY <1>1 DEF Inv, MultiOK, Store
<1> QED BY <1>1, <1>2, <1>3, <1>4

(* Every step preserves the invariant.                                     *)
LEMMA Preserved == ASSUME Inv, [Next]_vars PROVE Inv'
<1>1. SkipLine => Inv'
  <2> SUFFICES ASSUME SkipLine PROVE Inv'
    OBVIOUS
  <2>5. StackInv' /\ frame' \in [Levels -> Frames \cup {NoFrame}] /\ openDir' \subseteq Levels
    BY Updated, TopFrames DEF SkipLine, InFile, table, handles, stack, Inv, StackInv, DirWhere
  <2> QED
    BY <2>5, BoundsAssumption, TableAssumption
    DEF SkipLine, Inv, TypeOK, FailUnwinds, MultiOK, env, table, handles, Stops
<1>2. IncludeLine => Inv'
  <2> SUFFICES ASSUME IncludeLine PROVE Inv'
    OBVIOUS
  <2>1. Line.glob \in Globs
    BY LineType DEF IncludeLine
  <2> DEFINE fr == [Top EXCEPT !.glob = Line.glob]
  <2>2. fr \in Frames /\ fr.glob \in Globs /\ fr.dir = Top.dir /\ Update(fr)
    BY <2>1, TopFrames DEF IncludeLine, InFile, Frames
  <2> HIDE DEF fr
  <2>5. StackInv' /\ frame' \in [Levels -> Frames \cup {NoFrame}] /\ openDir' \subseteq Levels
    BY <2>2, Updated, TopFrames DEF IncludeLine, InFile, table, handles, stack, Inv, StackInv, DirWhere
  <2> QED
    BY <2>5, <2>2, BoundsAssumption, TableAssumption
    DEF IncludeLine, Inv, TypeOK, FailUnwinds, MultiOK, env, table, handles, Stops
<1>3. AssignmentLine => Inv'
  <2> SUFFICES ASSUME AssignmentLine PROVE Inv'
    OBVIOUS
  <2>1. Line.value \in Texts
    BY LineType DEF AssignmentLine
  <2> DEFINE fr == [Top EXCEPT !.value = Line.value]
  <2>2. fr \in Frames /\ fr.value \in Texts /\ fr.dir = Top.dir /\ Update(fr)
    BY <2>1, TopFrames DEF AssignmentLine, InFile, Frames
  <2> HIDE DEF fr
  <2>5. StackInv' /\ frame' \in [Levels -> Frames \cup {NoFrame}] /\ openDir' \subseteq Levels
    BY <2>2, Updated, TopFrames DEF AssignmentLine, InFile, table, handles, stack, Inv, StackInv, DirWhere
  <2> QED
    BY <2>5, <2>2, BoundsAssumption, TableAssumption
    DEF AssignmentLine, Inv, TypeOK, FailUnwinds, MultiOK, env, table, handles, Stops
<1>4. StoreNumber => Inv'
  <2> SUFFICES ASSUME StoreNumber PROVE Inv'
    OBVIOUS
  <2>1. pc = "match" /\ ret = "SUCCEED" /\ entry \in Entries /\ Top.value \in Texts
    BY TableAssumption DEF StoreNumber, Matching, Inv, StackInv, Where, TypeOK, FailUnwinds, Entries
  <2> DEFINE v == IF Entry.type = "INT" THEN ToInt(number[Top.value]) ELSE number[Top.value]
  <2>2. /\ v \in Values(cfg[entry])
        /\ cfg[entry].type = "MULTISTRING" => v \in Seq(Texts)
    <3>1. number[Top.value] \in Nat
      BY <2>1, TextAssumption DEF StoreNumber, Accepts
    <3> QED BY <2>1, <3>1, ToIntType, ValuesOf DEF StoreNumber, NumericType, Entry
  <2>3. Store(v)
    BY DEF StoreNumber, Entry
  <2> HIDE DEF v
  <2>4. /\ DOMAIN vals' = Entries
        /\ \A e \in Entries : vals'[e] \in Values(cfg[e])
        /\ entry' \in 1 .. Len(cfg) + 1
        /\ MultiOK'
    BY <2>1, <2>2, <2>3, Stored
  <2>5. StackInv'
    BY <2>1, <2>3 DEF StoreNumber, Store, handles, Inv, StackInv, HandlesMatchStack, Waiting, DirWhere, Where, Top
  <2> QED
    BY <2>1, <2>3, <2>4, <2>5 DEF StoreNumber, Store, Inv, TypeOK, FailUnwinds, env, handles
<1>5. StoreString => Inv'
  <2> SUFFICES ASSUME StoreString PROVE Inv'
    OBVIOUS
  <2>1. pc = "match" /\ ret = "SUCCEED" /\ entry \in Entries /\ Top.value \in Texts
    BY TableAssumption DEF StoreString, Matching, Inv, StackInv, Where, TypeOK, FailUnwinds, Entries
  <2> DEFINE v == Top.value
  <2>2. /\ v \in Values(cfg[entry])
        /\ cfg[entry].type = "MULTISTRING" => v \in Seq(Texts)
    BY <2>1, ValuesOf DEF StoreString, Entry
  <2>3. Store(v)
    BY DEF StoreString, Entry
  <2> HIDE DEF v
  <2>4. /\ DOMAIN vals' = Entries
        /\ \A e \in Entries : vals'[e] \in Values(cfg[e])
        /\ entry' \in 1 .. Len(cfg) + 1
        /\ MultiOK'
    BY <2>1, <2>2, <2>3, Stored
  <2>5. StackInv'
    BY <2>1, <2>3 DEF StoreString, Store, handles, Inv, StackInv, HandlesMatchStack, Waiting, DirWhere, Where, Top
  <2> QED
    BY <2>1, <2>3, <2>4, <2>5 DEF StoreString, Store, Inv, TypeOK, FailUnwinds, env, handles
<1>6. StoreStringList => Inv'
  <2> SUFFICES ASSUME StoreStringList PROVE Inv'
    OBVIOUS
  <2>1. pc = "match" /\ ret = "SUCCEED" /\ entry \in Entries /\ Top.value \in Texts
    BY TableAssumption DEF StoreStringList, Matching, Inv, StackInv, Where, TypeOK, FailUnwinds, Entries
  <2> DEFINE v == trimmed[Top.value]
  <2>2. /\ v \in Values(cfg[entry])
        /\ cfg[entry].type = "MULTISTRING" => v \in Seq(Texts)
    BY <2>1, TextAssumption, ValuesOf DEF StoreStringList, Entry
  <2>3. Store(v)
    BY DEF StoreStringList, Entry
  <2> HIDE DEF v
  <2>4. /\ DOMAIN vals' = Entries
        /\ \A e \in Entries : vals'[e] \in Values(cfg[e])
        /\ entry' \in 1 .. Len(cfg) + 1
        /\ MultiOK'
    BY <2>1, <2>2, <2>3, Stored
  <2> DEFINE fr == [Top EXCEPT !.value = trimmed[@]]
  <2>5. fr \in Frames /\ fr.dir = Top.dir /\ fr.value \in Texts /\ Update(fr)
    <3>1. trimmed[Top.value] \in Texts
      BY <2>1, TextAssumption
    <3> QED BY <2>1, <3>1, TopFrames DEF StoreStringList, InFile, Frames
  <2> HIDE DEF fr
  <2>6. StackInv' /\ frame' \in [Levels -> Frames \cup {NoFrame}]
    BY <2>1, <2>3, <2>5, Updated DEF Store, handles, Inv, StackInv, DirWhere, InFile
  <2> QED
    BY <2>1, <2>3, <2>4, <2>6 DEF Store, Inv, TypeOK, FailUnwinds, env, handles
<1>7. StoreMultistring => Inv'
  <2> SUFFICES ASSUME StoreMultistring PROVE Inv'
    OBVIOUS
  <2>1. pc = "match" /\ ret = "SUCCEED" /\ entry \in Entries /\ Top.value \in Texts
    BY TableAssumption DEF StoreMultistring, Matching, Inv, StackInv, Where, TypeOK, FailUnwinds, Entries
  <2> DEFINE v == Append(vals[entry], Top.value)
  <2>2. /\ v \in Values(cfg[entry])
        /\ cfg[entry].type = "MULTISTRING" => v \in Seq(Texts)
    <3>1. vals[entry] \in Seq(Texts)
      BY <2>1 DEF StoreMultistring, Entry, Inv, MultiOK
    <3>2. Append(vals[entry], Top.value) \in Seq(Texts)
      BY <2>1, <3>1
    <3> QED BY <2>1, <3>2, ValuesOf DEF StoreMultistring, Entry
  <2>3. Store(v)
    BY DEF StoreMultistring, Entry
  <2> HIDE DEF v
  <2>4. /\ DOMAIN vals' = Entries
        /\ \A e \in Entries : vals'[e] \in Values(cfg[e])
        /\ entry' \in 1 .. Len(cfg) + 1
        /\ MultiOK'
    BY <2>1, <2>2, <2>3, Stored
  <2>5. StackInv'
    BY <2>1, <2>3 DEF StoreMultistring, Store, handles, Inv, StackInv, HandlesMatchStack, Waiting, DirWhere, Where, Top
  <2> QED
    BY <2>1, <2>3, <2>4, <2>5 DEF StoreMultistring, Store, Inv, TypeOK, FailUnwinds, env, handles
<1>8. InvalidLine => Inv'
  <2> SUFFICES ASSUME InvalidLine PROVE Inv'
    OBVIOUS
  <2>1. /\ pc \in InFile /\ ~Top.dir /\ Close /\ openDir' = openDir
        /\ pc' \in {"return", "mandatory"} /\ (pc' = "mandatory" => depth = 1)
    BY DEF InvalidLine, Error, Return, InFile, Inv, StackInv, DirWhere
  <2>2. /\ StackInv'
        /\ frame' \in [Levels -> Frames \cup {NoFrame}]
        /\ depth' \in 0 .. MAX_INCLUDE_LEVEL
        /\ openFile' \subseteq Levels
    BY <2>1, Closed
  <2> QED BY <2>2 DEF InvalidLine, Error, Return, Inv, TypeOK, FailUnwinds, MultiOK, env, table
<1>9. EndOfFile => Inv'
  <2> SUFFICES ASSUME EndOfFile PROVE Inv'
    OBVIOUS
  <2>1. /\ pc \in InFile /\ ~Top.dir /\ Close /\ openDir' = openDir
        /\ pc' \in {"return", "mandatory"} /\ (pc' = "mandatory" => depth = 1)
    BY DEF EndOfFile, Return, InFile, Inv, StackInv, DirWhere
  <2>2. /\ StackInv'
        /\ frame' \in [Levels -> Frames \cup {NoFrame}]
        /\ depth' \in 0 .. MAX_INCLUDE_LEVEL
        /\ openFile' \subseteq Levels
    BY <2>1, Closed
  <2> QED BY <2>2 DEF EndOfFile, Return, Inv, TypeOK, FailUnwinds, MultiOK, env, table
<1>10. IncorrectConfig => Inv'
  <2> SUFFICES ASSUME IncorrectConfig PROVE Inv'
    OBVIOUS
  <2>1. /\ pc \in InFile /\ ~Top.dir /\ Close /\ openDir' = openDir
        /\ pc' \in {"return", "mandatory"} /\ (pc' = "mandatory" => depth = 1)
    BY DEF IncorrectConfig, Error, Matching, Return, InFile, Inv, StackInv, DirWhere
  <2>2. /\ StackInv'
        /\ frame' \in [Levels -> Frames \cup {NoFrame}]
        /\ depth' \in 0 .. MAX_INCLUDE_LEVEL
        /\ openFile' \subseteq Levels
    BY <2>1, Closed
  <2> QED BY <2>2 DEF IncorrectConfig, Error, Matching, Return, Inv, TypeOK, FailUnwinds, MultiOK, env, table
<1>11. EndOfTable => Inv'
  <2> SUFFICES ASSUME EndOfTable PROVE Inv'
    OBVIOUS
  <2>1. CASE strict /\ Unknown
    <3>1. /\ pc \in InFile /\ ~Top.dir /\ Close /\ openDir' = openDir
          /\ pc' \in {"return", "mandatory"} /\ (pc' = "mandatory" => depth = 1)
      BY <2>1 DEF EndOfTable, Error, Return, InFile, Inv, StackInv, DirWhere
    <3>2. /\ StackInv'
          /\ frame' \in [Levels -> Frames \cup {NoFrame}]
          /\ depth' \in 0 .. MAX_INCLUDE_LEVEL
          /\ openFile' \subseteq Levels
      BY <3>1, Closed
    <3> QED BY <2>1, <3>2 DEF EndOfTable, Error, Return, Inv, TypeOK, FailUnwinds, MultiOK, env, table
  <2>2. CASE ~(strict /\ Unknown)
    <3>1. StackInv' /\ frame' \in [Levels -> Frames \cup {NoFrame}] /\ openDir' \subseteq Levels
      BY <2>2, Updated, TopFrames DEF EndOfTable, InFile, Inv, StackInv, DirWhere
    <3> QED BY <2>2, <3>1 DEF EndOfTable, Inv, TypeOK, FailUnwinds, MultiOK, env, table, Stops
  <2> QED BY <2>1, <2>2
<1>12. Clean => Inv'
  <2> SUFFICES ASSUME Clean PROVE Inv'
    OBVIOUS
  <2>1. CASE ret = "FAIL"
    <3>1. /\ pc \in InFile /\ ~Top.dir /\ Close /\ openDir' = openDir
          /\ pc' \in {"return", "mandatory"} /\ (pc' = "mandatory" => depth = 1)
      BY <2>1 DEF Clean, Error, Return, InFile, Inv, StackInv, DirWhere
    <3>2. /\ StackInv'
          /\ frame' \in [Levels -> Frames \cup {NoFrame}]
          /\ depth' \in 0 .. MAX_INCLUDE_LEVEL
          /\ openFile' \subseteq Levels
      BY <3>1, Closed
    <3> QED BY <2>1, <3>2 DEF Clean, Error, Return, Inv, TypeOK, FailUnwinds, MultiOK, env, table, Freed
  <2>2. CASE ~(ret = "FAIL")
    <3>1. StackInv' /\ frame' \in [Levels -> Frames \cup {NoFrame}] /\ openDir' \subseteq Levels
      BY <2>2, Updated, TopFrames DEF Clean, InFile, Inv, StackInv, DirWhere
    <3> QED BY <2>2, <3>1 DEF Clean, Inv, TypeOK, FailUnwinds, MultiOK, env, table, Stops, Freed
  <2> QED BY <2>1, <2>2
<1>13. CopyStringError => Inv'
  <2> SUFFICES ASSUME CopyStringError PROVE Inv'
    OBVIOUS
  <2>1. /\ pc \in InFile /\ ~Top.dir /\ Close /\ openDir' = openDir
        /\ pc' \in {"return", "mandatory"} /\ (pc' = "mandatory" => depth = 1)
    BY DEF CopyStringError, Error, Matching, Return, InFile, Inv, StackInv, DirWhere
  <2>2. /\ StackInv'
        /\ frame' \in [Levels -> Frames \cup {NoFrame}]
        /\ depth' \in 0 .. MAX_INCLUDE_LEVEL
        /\ openFile' \subseteq Levels
    BY <2>1, Closed
  <2>3. DOMAIN vals' = Entries /\ \A e \in Entries : vals'[e] \in Values(cfg[e])
    <3>1. CASE vals' = vals
      BY <3>1 DEF Inv, TypeOK
    <3>2. CASE vals' = [vals EXCEPT ![entry] = NULL]
      <4>1. entry \in Entries /\ NULL \in Values(cfg[entry])
        <5>1. entry \in Entries
          BY TableAssumption DEF CopyStringError, Matching, Inv, TypeOK, Entries
        <5>2. cfg[entry].type \in Types \ {"INT", "UINT64"}
          BY <5>1, EntryType DEF CopyStringError, NumericType, Entry
        <5> QED BY <5>1, <5>2, ValuesOf DEF Types
      <4> QED BY <3>2, <4>1 DEF Inv, TypeOK
    <3> QED BY <3>1, <3>2 DEF CopyStringError
  <2> QED BY <2>2, <2>3 DEF CopyStringError, Error, Matching, Return, Inv, TypeOK, FailUnwinds, MultiOK, env
<1>14. ParseGlob => Inv'
  <2> SUFFICES ASSUME ParseGlob PROVE Inv'
    OBVIOUS
  <2>1. pc \in InFile /\ Top \in Frames /\ Top.glob \in Globs /\ depth \in Levels
    BY WaitingTop DEF ParseGlob, InFile
  <2>2. GlobStrings(Top.glob) \in SUBSET {"path", "pattern"}
    BY DEF GlobStrings
  <2> DEFINE fr == [Top EXCEPT !.ptrs = GlobStrings(Top.glob)]
  <2>3. fr \in Frames /\ fr.glob \in Globs /\ fr.dir = Top.dir /\ Update(fr)
    BY <2>1, <2>2 DEF ParseGlob, Frames
  <2> HIDE DEF fr
  <2>4. StackInv' /\ frame' \in [Levels -> Frames \cup {NoFrame}] /\ openDir' \subseteq Levels
    BY <2>1, <2>3, Updated DEF ParseGlob, InFile, Inv, StackInv, DirWhere
  <2>5. live' \subseteq Levels \X {"path", "pattern", "file"}
    BY <2>2, <2>1 DEF ParseGlob, Inv, TypeOK
  <2> QED BY <2>1, <2>4, <2>5 DEF ParseGlob, Inv, TypeOK, FailUnwinds, MultiOK, env, table, Stops
<1>15. OpenDir => Inv'
  <2> SUFFICES ASSUME OpenDir PROVE Inv'
    OBVIOUS
  <2>1. pc \in InFile /\ Top \in Frames /\ Top.glob \in Globs /\ depth \in Levels
    BY WaitingTop DEF OpenDir, InFile
  <2>2. Disk.members[Top.glob.path] \in SUBSET Paths
    <3>1. Top.glob.path \in Dirs
      BY DEF OpenDir, Inv, StackInv, Where
    <3> QED BY <3>1, DiskAssumption DEF Inv, TypeOK, Disk
  <2> DEFINE fr == [Top EXCEPT !.dir = TRUE, !.todo = Disk.members[Top.glob.path]]
  <2>3. fr \in Frames /\ fr.glob \in Globs /\ fr.dir /\ Update(fr)
    BY <2>1, <2>2 DEF OpenDir, Frames
  <2> HIDE DEF fr
  <2>4. StackInv' /\ frame' \in [Levels -> Frames \cup {NoFrame}] /\ openDir' \subseteq Levels
    BY <2>1, <2>3, Updated DEF OpenDir, InFile, Inv, StackInv, DirWhere
  <2>5. live' \subseteq Levels \X {"path", "pattern", "file"}
    BY <2>2, <2>1 DEF OpenDir, Inv, TypeOK
  <2> QED BY <2>1, <2>4, <2>5 DEF OpenDir, Inv, TypeOK, FailUnwinds, MultiOK, env, table, Stops
<1>16. CloseDir => Inv'
  <2> SUFFICES ASSUME CloseDir PROVE Inv'
    OBVIOUS
  <2>1. pc \in InFile /\ Top \in Frames /\ Top.glob \in Globs /\ depth \in Levels
    BY WaitingTop DEF CloseDir, InFile
  <2> DEFINE fr == [Top EXCEPT !.dir = FALSE, !.todo = {}]
  <2>3. fr \in Frames /\ fr.glob \in Globs /\ ~fr.dir /\ Update(fr)
    BY <2>1 DEF CloseDir, Frames
  <2> HIDE DEF fr
  <2>4. StackInv' /\ frame' \in [Levels -> Frames \cup {NoFrame}] /\ openDir' \subseteq Levels
    BY <2>1, <2>3, Updated DEF CloseDir, InFile, Inv, StackInv, DirWhere
  <2>5. live' \subseteq Levels \X {"path", "pattern", "file"}
    BY <2>1 DEF CloseDir, Inv, TypeOK
  <2>6. ret' \in {ret, "FAIL"} /\ vals' = vals /\ pc' = "clean"
    BY DEF CloseDir, table
  <2> QED BY <2>1, <2>4, <2>5, <2>6 DEF CloseDir, Inv, TypeOK, FailUnwinds, MultiOK, env, table, Stops
<1>17. ReadDir => Inv'
  <2> SUFFICES ASSUME ReadDir PROVE Inv'
    OBVIOUS
  <2>1. pc \in InFile /\ Top \in Frames /\ Top.glob \in Globs /\ depth \in Levels
    BY WaitingTop DEF ReadDir, InFile
  <2>2. PICK p \in Top.todo :
          /\ Update([Top EXCEPT !.todo = @ \ {p}])
          /\ IF Selected(Top.glob, p) THEN arg' = p   /\ pc' = "call"
                                      ELSE arg' = arg /\ pc' = pc
    BY DEF ReadDir
  <2> DEFINE fr == [Top EXCEPT !.todo = @ \ {p}]
  <2>3. fr \in Frames /\ fr.glob \in Globs /\ fr.dir = Top.dir /\ Update(fr)
    BY <2>1, <2>2 DEF Frames
  <2> HIDE DEF fr
  <2>7. pc' = "call" => arg' # NULL
    BY <2>2, DiskAssumption DEF ReadDir, Selected, Inv, TypeOK, Paths
  <2>4. StackInv' /\ frame' \in [Levels -> Frames \cup {NoFrame}] /\ openDir' \subseteq Levels
    BY <2>1, <2>2, <2>3, <2>7, Updated DEF ReadDir, InFile, Inv, StackInv, DirWhere
  <2>5. live' \subseteq Levels \X {"path", "pattern", "file"}
    BY <2>1 DEF ReadDir, Inv, TypeOK
  <2>6. arg' \in Files \cup {NULL}
    BY <2>2 DEF Selected, Inv, TypeOK
  <2> QED BY <2>1, <2>2, <2>4, <2>5, <2>6 DEF ReadDir, Inv, TypeOK, FailUnwinds, MultiOK, env, table
<1>18. ParseGlobOutOfMemory => Inv'
  <2> SUFFICES ASSUME ParseGlobOutOfMemory PROVE Inv'
    OBVIOUS
  <2>1. pc \in InFile /\ Top \in Frames /\ Top.glob \in Globs
    BY WaitingTop DEF ParseGlobOutOfMemory, InFile
  <2>2. CASE UNCHANGED frame
    BY <2>2 DEF ParseGlobOutOfMemory, Inv, StackInv, TypeOK, HandlesMatchStack, Waiting,
      DirWhere, Where, FailUnwinds, MultiOK, InFile, Top, env, table, handles
  <2>3. CASE Update([Top EXCEPT !.ptrs = {"path"}])
    <3> DEFINE fr == [Top EXCEPT !.ptrs = {"path"}]
    <3>1. fr \in Frames /\ fr.glob \in Globs /\ fr.dir = Top.dir /\ Update(fr)
      BY <2>1, <2>3 DEF Frames
    <3> HIDE DEF fr
    <3>2. StackInv' /\ frame' \in [Levels -> Frames \cup {NoFrame}]
      BY <2>1, <3>1, Updated DEF ParseGlobOutOfMemory, InFile, Inv, StackInv, DirWhere, handles
    <3> QED BY <3>2 DEF ParseGlobOutOfMemory, Inv, TypeOK, FailUnwinds, MultiOK, env, table, handles
  <2> QED BY <2>2, <2>3 DEF ParseGlobOutOfMemory
<1>19. RecursionDetected => Inv'
  BY BoundsAssumption
  DEF RecursionDetected, Return, env, stack, table, handles, Inv, StackInv, TypeOK, HandlesMatchStack,
      Waiting, DirWhere, Where, FailUnwinds, MultiOK, InFile, Stops, Top, Levels
<1>20. NoFileGiven => Inv'
  BY BoundsAssumption
  DEF NoFileGiven, Return, env, stack, table, handles, Inv, StackInv, TypeOK, HandlesMatchStack,
      Waiting, DirWhere, Where, FailUnwinds, MultiOK, InFile, Stops, Top, Levels
<1>21. CannotOpen => Inv'
  BY BoundsAssumption
  DEF CannotOpen, Return, env, stack, table, handles, Inv, StackInv, TypeOK, HandlesMatchStack,
      Waiting, DirWhere, Where, FailUnwinds, MultiOK, InFile, Stops, Top, Levels
<1>22. BadGlob => Inv'
  BY BoundsAssumption
  DEF BadGlob, Return, env, stack, table, handles, Inv, StackInv, TypeOK, HandlesMatchStack,
      Waiting, DirWhere, Where, FailUnwinds, MultiOK, InFile, Stops, Top, Levels
<1>23. StatFails => Inv'
  BY BoundsAssumption
  DEF StatFails, Return, env, stack, table, handles, Inv, StackInv, TypeOK, HandlesMatchStack,
      Waiting, DirWhere, Where, FailUnwinds, MultiOK, InFile, Stops, Top, Levels
<1>24. StatFile => Inv'
  BY DiskAssumption, BoundsAssumption
  DEF StatFile, Return, env, stack, table, handles, Inv, StackInv, TypeOK, HandlesMatchStack,
      Waiting, DirWhere, Where, FailUnwinds, MultiOK, InFile, Stops, Top, Levels, Paths
<1>25. StatDir => Inv'
  BY BoundsAssumption
  DEF StatDir, Return, env, stack, table, handles, Inv, StackInv, TypeOK, HandlesMatchStack,
      Waiting, DirWhere, Where, FailUnwinds, MultiOK, InFile, Stops, Top, Levels
<1>26. DoubleFree => Inv'
  BY BoundsAssumption
  DEF DoubleFree, Return, env, stack, table, handles, Inv, StackInv, TypeOK, HandlesMatchStack,
      Waiting, DirWhere, Where, FailUnwinds, MultiOK, InFile, Stops, Top, Levels
<1>27. CannotOpenDir => Inv'
  BY BoundsAssumption
  DEF CannotOpenDir, Return, env, stack, table, handles, Inv, StackInv, TypeOK, HandlesMatchStack,
      Waiting, DirWhere, Where, FailUnwinds, MultiOK, InFile, Stops, Top, Levels
<1>28. ReadDirOutOfMemory => Inv'
  BY BoundsAssumption
  DEF ReadDirOutOfMemory, Return, env, stack, table, handles, Inv, StackInv, TypeOK, HandlesMatchStack,
      Waiting, DirWhere, Where, FailUnwinds, MultiOK, InFile, Stops, Top, Levels
<1>29. EndOfDir => Inv'
  BY BoundsAssumption
  DEF EndOfDir, Return, env, stack, table, handles, Inv, StackInv, TypeOK, HandlesMatchStack,
      Waiting, DirWhere, Where, FailUnwinds, MultiOK, InFile, Stops, Top, Levels
<1>30. ReturnToObject => Inv'
  BY BoundsAssumption
  DEF ReturnToObject, Return, env, stack, table, handles, Inv, StackInv, TypeOK, HandlesMatchStack,
      Waiting, DirWhere, Where, FailUnwinds, MultiOK, InFile, Stops, Top, Levels
<1>31. ReturnToDir => Inv'
  BY BoundsAssumption
  DEF ReturnToDir, Return, env, stack, table, handles, Inv, StackInv, TypeOK, HandlesMatchStack,
      Waiting, DirWhere, Where, FailUnwinds, MultiOK, InFile, Stops, Top, Levels
<1>32. ReturnToCaller => Inv'
  BY BoundsAssumption
  DEF ReturnToCaller, Return, env, stack, table, handles, Inv, StackInv, TypeOK, HandlesMatchStack,
      Waiting, DirWhere, Where, FailUnwinds, MultiOK, InFile, Stops, Top, Levels
<1>33. CheckMandatory => Inv'
  BY BoundsAssumption
  DEF CheckMandatory, Return, env, stack, table, handles, Inv, StackInv, TypeOK, HandlesMatchStack,
      Waiting, DirWhere, Where, FailUnwinds, MultiOK, InFile, Stops, Top, Levels
<1>34. OtherParameter => Inv'
  BY TableAssumption, BoundsAssumption
  DEF OtherParameter, Return, env, stack, table, handles, Inv, StackInv, TypeOK, HandlesMatchStack,
      Waiting, DirWhere, Where, FailUnwinds, MultiOK, InFile, Stops, Top, Levels
<1>35. OtherProcess => Inv'
  BY DiskAssumption, BoundsAssumption
  DEF OtherProcess, Return, env, stack, table, handles, Inv, StackInv, TypeOK, HandlesMatchStack,
      Waiting, DirWhere, Where, FailUnwinds, MultiOK, InFile, Stops, Top, Levels
<1>36. Open => Inv'
  BY BoundsAssumption
  DEF Open, Return, env, stack, table, handles, Inv, StackInv, TypeOK, HandlesMatchStack,
      Waiting, DirWhere, Where, FailUnwinds, MultiOK, InFile, Stops, Top, Levels, NewFrame, Frames
<1>37. UNCHANGED vars => Inv'
  BY DEF vars, env, stack, table, handles, Inv, StackInv, TypeOK, HandlesMatchStack,
     Waiting, DirWhere, Where, FailUnwinds, MultiOK, Top
<1> QED
  BY <1>1, <1>2, <1>3, <1>4, <1>5, <1>6, <1>7, <1>8, <1>9, <1>10, <1>11, <1>12, <1>13, <1>14, <1>15, <1>16, <1>17, <1>18, <1>19, <1>20, <1>21, <1>22, <1>23, <1>24, <1>25, <1>26, <1>27, <1>28, <1>29, <1>30, <1>31, <1>32, <1>33, <1>34, <1>35, <1>36, <1>37
  DEF Next, Parse, Stopped

(* Every temporary string has an owner, and while malloc succeeds every    *)
(* owner's strings are allocated.                                          *)
HeapInv ==
  /\ NoLeak
  /\ pc \in {"line", "match", "glob"} => Top.ptrs = {}
  /\ ~MayRunOutOfMemory =>
       /\ pc \notin {"double_free", "null_write"}
       /\ \A l \in 1 .. depth : \A p \in frame[l].ptrs : <<l, p>> \in live

(* The stack, its types and the place of pc fit together at every step.    *)
THEOREM InvariantHolds == Spec => []Inv
<1>1. Init => Inv
  BY Initially
<1>2. Inv /\ [Next]_vars => Inv'
  BY Preserved
<1> QED BY <1>1, <1>2, PTL DEF Spec

(* Every variable keeps the type the C declarations give it.               *)
THEOREM TypeCorrect == Spec => []TypeOK
<1>1. Inv => TypeOK
  BY DEF Inv
<1> QED BY <1>1, InvariantHolds, PTL

(* No error path of the four functions leaves a file or directory open.    *)
THEOREM HandlesClosed == Spec => []HandlesMatchStack
<1>1. Inv => HandlesMatchStack
  BY DEF Inv, StackInv
<1> QED BY <1>1, InvariantHolds, PTL

-----------------------------------------------------------------------------
(* While ret is FAIL the only steps possible are those of functions that   *)
(* are ending, none of which opens, stores or succeeds.                    *)
LEMMA FailureStays ==
  ASSUME Inv, [Next]_vars, ret = "FAIL"
  PROVE  /\ ret' = "FAIL" /\ vals' = vals
         /\ openFile' \subseteq openFile /\ openDir' \subseteq openDir
<1>1. pc \in {"return", "clean", "close", "done", "double_free"}
    BY DEF Inv, FailUnwinds
<1>2. CASE UNCHANGED vars
    BY <1>2 DEF vars, table, handles
<1>3. CASE OtherProcess
    BY <1>3 DEF OtherProcess, table, handles
<1>4. CASE Clean \/ DoubleFree \/ CloseDir
    BY <1>4 DEF Clean, DoubleFree, CloseDir, Error, Close, Return, table, handles
<1>5. CASE ReturnToObject \/ ReturnToDir \/ ReturnToCaller
    BY <1>5 DEF ReturnToObject, ReturnToDir, ReturnToCaller, table, handles
<1> QED
    BY <1>1, <1>1, <1>2, <1>3, <1>4, <1>5
    DEF Next, Parse, Stopped, RecursionDetected, NoFileGiven, CannotOpen, Open, SkipLine,
        InvalidLine, IncludeLine, AssignmentLine, EndOfFile, OtherParameter, IncorrectConfig,
        StoreNumber, StoreString, StoreStringList, StoreMultistring, CopyStringError,
        EndOfTable, Matching, ParseGlob, BadGlob, ParseGlobOutOfMemory, StatFails, StatFile,
        StatDir, OpenDir, CannotOpenDir, ReadDir, ReadDirOutOfMemory, EndOfDir, CheckMandatory

(* So once an error is met nothing is opened, stored or made a success.    *)
THEOREM FailureIsFinal == Spec => FailIsFinal
<1> QED BY FailureStays, InvariantHolds, PTL DEF Spec, FailIsFinal

(* The end of an activation leaves the strings of the outer levels.        *)
LEMMA HeapClosed ==
  ASSUME Inv, HeapInv, pc \in InFile, ~Top.dir, Close,
         live' = live \ ({depth} \X Top.ptrs), pc' \in {"return", "mandatory"}
  PROVE  HeapInv'
<1>1. /\ depth \in Levels /\ depth' = depth - 1
      /\ \A l \in 1 .. depth' : frame'[l] = frame[l]
  BY BoundsAssumption DEF Inv, StackInv, TypeOK, Where, Levels, Close
<1>2. NoLeak'
  <2> SUFFICES ASSUME NEW s \in live'
               PROVE  s[1] <= depth' /\ s[2] \in Owned(s[1])'
    BY DEF NoLeak
  <2>1. s \in live /\ s \notin {depth} \X Top.ptrs
    OBVIOUS
  <2>2. s[1] \in Levels /\ s[1] <= depth /\ s[2] \in Owned(s[1]) /\ s = <<s[1], s[2]>>
    BY <2>1 DEF HeapInv, NoLeak, Inv, TypeOK
  <2>3. s[1] # depth
    BY <2>1, <2>2 DEF Owned, Top
  <2>4. s[1] \in 1 .. depth'
    BY <1>1, <2>2, <2>3, BoundsAssumption DEF Levels
  <2> QED BY <1>1, <2>2, <2>4, BoundsAssumption DEF Owned, Levels
<1>3. ASSUME ~MayRunOutOfMemory, NEW l \in 1 .. depth', NEW p \in frame'[l].ptrs
      PROVE  <<l, p>> \in live'
  <2>1. l \in 1 .. depth /\ l # depth /\ p \in frame[l].ptrs
    BY <1>1, <1>3, BoundsAssumption DEF Levels
  <2> QED BY <1>3, <2>1 DEF HeapInv
<1> QED BY <1>2, <1>3 DEF HeapInv

(* A new innermost frame, owning what live' has at its level.              *)
LEMMA HeapUpdated ==
  ASSUME Inv, HeapInv, pc \in InFile, NEW f \in Frames, Update(f), depth' = depth,
         \A s \in live' : \/ s \in live /\ s[1] # depth
                          \/ s[1] = depth /\ s[2] \in f.ptrs
                          \/ s[1] = depth /\ s[2] = "file" /\ f.dir,
         \A s \in live : s[1] # depth => s \in live',
         ~MayRunOutOfMemory => \A p \in f.ptrs : <<depth, p>> \in live',
         pc' \in InFile \cup {"call"}, pc' \in {"line", "match", "glob"} => f.ptrs = {}
  PROVE  HeapInv'
<1>1. /\ depth \in Levels /\ frame'[depth] = f
      /\ \A l \in 1 .. depth : l # depth => frame'[l] = frame[l]
  BY BoundsAssumption DEF Inv, StackInv, TypeOK, Where, Levels, Update
<1>2. NoLeak'
  <2> SUFFICES ASSUME NEW s \in live'
               PROVE  s[1] <= depth' /\ s[2] \in Owned(s[1])'
    BY DEF NoLeak
  <2>1. CASE s \in live /\ s[1] # depth
    <3>1. s[1] \in 1 .. depth /\ s[2] \in Owned(s[1])
      BY <1>1, <2>1, BoundsAssumption DEF HeapInv, NoLeak, Inv, TypeOK, Levels
    <3> QED BY <1>1, <2>1, <3>1, BoundsAssumption DEF Owned, Levels
  <2>2. CASE s[1] = depth /\ (s[2] \in f.ptrs \/ (s[2] = "file" /\ f.dir))
    BY <1>1, <2>2, BoundsAssumption DEF Owned, Levels
  <2> QED BY <2>1, <2>2
<1>3. ASSUME ~MayRunOutOfMemory, NEW l \in 1 .. depth', NEW p \in frame'[l].ptrs
      PROVE  <<l, p>> \in live'
  <2>1. CASE l = depth
    BY <1>1, <1>3, <2>1
  <2>2. CASE l # depth
    <3>1. <<l, p>> \in live
      BY <1>1, <1>3, <2>2 DEF HeapInv
    <3> QED BY <2>2, <3>1
  <2> QED BY <2>1, <2>2
<1>4. pc' \in {"line", "match", "glob"} => Top'.ptrs = {}
  BY <1>1 DEF Top
<1>5. pc' \notin {"double_free", "null_write"}
  BY DEF InFile
<1> QED BY <1>2, <1>3, <1>4, <1>5 DEF HeapInv

(* The frame of the next line has freed what parse_cfg_object allocated.   *)
LEMMA NewLineHeap ==
  ASSUME Inv, HeapInv, pc \in InFile, ~Top.dir, Update(NextLine), depth' = depth,
         live' = live \ ({depth} \X Top.ptrs), pc' = "line"
  PROVE  HeapInv'
<1>1. depth \in Levels /\ NextLine \in Frames /\ NextLine.ptrs = {}
  <2>1. depth \in Levels
    BY BoundsAssumption DEF Inv, StackInv, TypeOK, Where, Levels
  <2> QED BY <2>1, TopFrames
<1>2. \A s \in live' : s \in live /\ s[1] # depth
  <2> SUFFICES ASSUME NEW s \in live' PROVE s[1] # depth
    OBVIOUS
  <2>1. s \in live /\ s = <<s[1], s[2]>> /\ s \notin {depth} \X Top.ptrs
    BY DEF Inv, TypeOK
  <2> QED BY <2>1 DEF HeapInv, NoLeak, Owned, Top
<1>3. \A s \in live : s[1] # depth => s \in live'
  OBVIOUS
<1> QED BY <1>1, <1>2, <1>3, HeapUpdated DEF InFile

(* Every step keeps each string with its owner.                            *)
LEMMA HeapPreserved == ASSUME Inv, HeapInv, [Next]_vars PROVE HeapInv'
<1>1. RecursionDetected => HeapInv'
  BY Preserved, BoundsAssumption
  DEF RecursionDetected, Return, Error, Close, Update, env, stack, table, handles, HeapInv, NoLeak, Owned,
      Inv, StackInv, TypeOK, DirWhere, Where, InFile, Top, Levels, Frames
<1>2. NoFileGiven => HeapInv'
  BY Preserved, BoundsAssumption
  DEF NoFileGiven, Return, Error, Close, Update, env, stack, table, handles, HeapInv, NoLeak, Owned,
      Inv, StackInv, TypeOK, DirWhere, Where, InFile, Top, Levels, Frames
<1>3. CannotOpen => HeapInv'
  BY Preserved, BoundsAssumption
  DEF CannotOpen, Return, Error, Close, Update, env, stack, table, handles, HeapInv, NoLeak, Owned,
      Inv, StackInv, TypeOK, DirWhere, Where, InFile, Top, Levels, Frames
<1>4. Open => HeapInv'
  BY Preserved, BoundsAssumption
  DEF Open, Return, Error, Close, Update, env, stack, table, handles, HeapInv, NoLeak, Owned,
      Inv, StackInv, TypeOK, DirWhere, Where, InFile, Top, Levels, Frames, NewFrame
<1>5. SkipLine => HeapInv'
  BY Preserved, BoundsAssumption
  DEF SkipLine, Return, Error, Close, Update, env, stack, table, handles, HeapInv, NoLeak, Owned,
      Inv, StackInv, TypeOK, DirWhere, Where, InFile, Top, Levels, Frames, NextLine
<1>6. IncludeLine => HeapInv'
  BY Preserved, BoundsAssumption
  DEF IncludeLine, Return, Error, Close, Update, env, stack, table, handles, HeapInv, NoLeak, Owned,
      Inv, StackInv, TypeOK, DirWhere, Where, InFile, Top, Levels, Frames
<1>7. AssignmentLine => HeapInv'
  BY Preserved, BoundsAssumption
  DEF AssignmentLine, Return, Error, Close, Update, env, stack, table, handles, HeapInv, NoLeak, Owned,
      Inv, StackInv, TypeOK, DirWhere, Where, InFile, Top, Levels, Frames
<1>8. EndOfFile => HeapInv'
  BY Preserved, BoundsAssumption, SMTT(30)
  DEF EndOfFile, Return, Error, Close, Update, env, stack, table, handles, HeapInv, NoLeak, Owned,
      Inv, StackInv, TypeOK, DirWhere, Where, InFile, Top, Levels, Frames
<1>9. OtherParameter => HeapInv'
  BY Preserved, BoundsAssumption
  DEF OtherParameter, Return, Error, Close, Update, env, stack, table, handles, HeapInv, NoLeak, Owned,
      Inv, StackInv, TypeOK, DirWhere, Where, InFile, Top, Levels, Frames
<1>10. IncorrectConfig => HeapInv'
  BY Preserved, BoundsAssumption
  DEF IncorrectConfig, Return, Error, Close, Update, env, stack, table, handles, HeapInv, NoLeak, Owned,
      Inv, StackInv, TypeOK, DirWhere, Where, InFile, Top, Levels, Frames, Matching
<1>11. StoreNumber => HeapInv'
  BY Preserved, BoundsAssumption
  DEF StoreNumber, Return, Error, Close, Update, env, stack, table, handles, HeapInv, NoLeak, Owned,
      Inv, StackInv, TypeOK, DirWhere, Where, InFile, Top, Levels, Frames, Store, Matching
<1>12. StoreString => HeapInv'
  BY Preserved, BoundsAssumption
  DEF StoreString, Return, Error, Close, Update, env, stack, table, handles, HeapInv, NoLeak, Owned,
      Inv, StackInv, TypeOK, DirWhere, Where, InFile, Top, Levels, Frames, Store, Matching
<1>13. StoreStringList => HeapInv'
  BY Preserved, BoundsAssumption
  DEF StoreStringList, Return, Error, Close, Update, env, stack, table, handles, HeapInv, NoLeak, Owned,
      Inv, StackInv, TypeOK, DirWhere, Where, InFile, Top, Levels, Frames, Store, Matching
<1>14. StoreMultistring => HeapInv'
  BY Preserved, BoundsAssumption
  DEF StoreMultistring, Return, Error, Close, Update, env, stack, table, handles, HeapInv, NoLeak, Owned,
      Inv, StackInv, TypeOK, DirWhere, Where, InFile, Top, Levels, Frames, Store, Matching
<1>15. CopyStringError => HeapInv'
  BY Preserved, BoundsAssumption
  DEF CopyStringError, Return, Error, Close, Update, env, stack, table, handles, HeapInv, NoLeak, Owned,
      Inv, StackInv, TypeOK, DirWhere, Where, InFile, Top, Levels, Frames, Matching
<1>16. ParseGlob => HeapInv'
  BY Preserved, BoundsAssumption
  DEF ParseGlob, Return, Error, Close, Update, env, stack, table, handles, HeapInv, NoLeak, Owned,
      Inv, StackInv, TypeOK, DirWhere, Where, InFile, Top, Levels, Frames, GlobStrings
<1>17. BadGlob => HeapInv'
  BY Preserved, BoundsAssumption
  DEF BadGlob, Return, Error, Close, Update, env, stack, table, handles, HeapInv, NoLeak, Owned,
      Inv, StackInv, TypeOK, DirWhere, Where, InFile, Top, Levels, Frames
<1>18. StatFails => HeapInv'
  BY Preserved, BoundsAssumption
  DEF StatFails, Return, Error, Close, Update, env, stack, table, handles, HeapInv, NoLeak, Owned,
      Inv, StackInv, TypeOK, DirWhere, Where, InFile, Top, Levels, Frames
<1>19. StatFile => HeapInv'
  BY Preserved, BoundsAssumption
  DEF StatFile, Return, Error, Close, Update, env, stack, table, handles, HeapInv, NoLeak, Owned,
      Inv, StackInv, TypeOK, DirWhere, Where, InFile, Top, Levels, Frames
<1>20. StatDir => HeapInv'
  BY Preserved, BoundsAssumption
  DEF StatDir, Return, Error, Close, Update, env, stack, table, handles, HeapInv, NoLeak, Owned,
      Inv, StackInv, TypeOK, DirWhere, Where, InFile, Top, Levels, Frames
<1>21. DoubleFree => HeapInv'
  BY Preserved, BoundsAssumption
  DEF DoubleFree, Return, Error, Close, Update, env, stack, table, handles, HeapInv, NoLeak, Owned,
      Inv, StackInv, TypeOK, DirWhere, Where, InFile, Top, Levels, Frames, Freed
<1>22. OpenDir => HeapInv'
  <2> SUFFICES ASSUME OpenDir PROVE HeapInv'
    OBVIOUS
  <2> DEFINE fr == [Top EXCEPT !.dir = TRUE, !.todo = Disk.members[Top.glob.path]]
  <2>1. pc \in InFile /\ depth \in Levels /\ Top \in Frames
    BY WaitingTop DEF OpenDir, InFile
  <2>2. Update(fr) /\ depth' = depth /\ live' = live /\ pc' = "readdir"
    BY DEF OpenDir
  <2>3. fr \in Frames
    <3>1. Disk.members[Top.glob.path] \in SUBSET Paths
      <4>1. Top.glob.path \in Dirs
        BY DEF OpenDir, Inv, StackInv, Where
      <4> QED BY <4>1, DiskAssumption DEF Inv, TypeOK, Disk
    <3> QED BY <2>1, <3>1 DEF Frames
  <2>4. fr.ptrs = Top.ptrs /\ fr.dir
    BY <2>1 DEF Frames
  <2> HIDE DEF fr
  <2>5. \A s \in live : s[1] = depth => s[2] \in Top.ptrs
    BY DEF OpenDir, HeapInv, NoLeak, Owned, Top, Inv, TypeOK, StackInv, DirWhere
  <2>6. ~MayRunOutOfMemory => \A p \in Top.ptrs : <<depth, p>> \in live
    BY <2>1, BoundsAssumption DEF HeapInv, Top, Frames, Levels
  <2>7. pc' \in InFile \cup {"call"} /\ pc' \notin {"line", "match", "glob"}
    BY <2>2 DEF InFile
  <2>8. \A s \in live' : (s \in live /\ s[1] # depth) \/ (s[1] = depth /\ s[2] \in fr.ptrs)
    BY <2>2, <2>4, <2>5
  <2>9. \A s \in live : s[1] # depth => s \in live'
    BY <2>2
  <2>10. ~MayRunOutOfMemory => \A p \in fr.ptrs : <<depth, p>> \in live'
    BY <2>2, <2>4, <2>6
  <2> QED BY <2>1, <2>2, <2>3, <2>7, <2>8, <2>9, <2>10, HeapUpdated
<1>23. CannotOpenDir => HeapInv'
  BY Preserved, BoundsAssumption
  DEF CannotOpenDir, Return, Error, Close, Update, env, stack, table, handles, HeapInv, NoLeak, Owned,
      Inv, StackInv, TypeOK, DirWhere, Where, InFile, Top, Levels, Frames
<1>24. ReadDir => HeapInv'
  BY Preserved, BoundsAssumption
  DEF ReadDir, Return, Error, Close, Update, env, stack, table, handles, HeapInv, NoLeak, Owned,
      Inv, StackInv, TypeOK, DirWhere, Where, InFile, Top, Levels, Frames
<1>25. ReadDirOutOfMemory => HeapInv'
  BY Preserved, BoundsAssumption
  DEF ReadDirOutOfMemory, Return, Error, Close, Update, env, stack, table, handles, HeapInv, NoLeak, Owned,
      Inv, StackInv, TypeOK, DirWhere, Where, InFile, Top, Levels, Frames
<1>26. EndOfDir => HeapInv'
  BY Preserved, BoundsAssumption
  DEF EndOfDir, Return, Error, Close, Update, env, stack, table, handles, HeapInv, NoLeak, Owned,
      Inv, StackInv, TypeOK, DirWhere, Where, InFile, Top, Levels, Frames
<1>27. ReturnToObject => HeapInv'
  BY Preserved, BoundsAssumption
  DEF ReturnToObject, Return, Error, Close, Update, env, stack, table, handles, HeapInv, NoLeak, Owned,
      Inv, StackInv, TypeOK, DirWhere, Where, InFile, Top, Levels, Frames
<1>28. ReturnToDir => HeapInv'
  BY Preserved, BoundsAssumption
  DEF ReturnToDir, Return, Error, Close, Update, env, stack, table, handles, HeapInv, NoLeak, Owned,
      Inv, StackInv, TypeOK, DirWhere, Where, InFile, Top, Levels, Frames
<1>29. ReturnToCaller => HeapInv'
  BY Preserved, BoundsAssumption
  DEF ReturnToCaller, Return, Error, Close, Update, env, stack, table, handles, HeapInv, NoLeak, Owned,
      Inv, StackInv, TypeOK, DirWhere, Where, InFile, Top, Levels, Frames
<1>30. CheckMandatory => HeapInv'
  BY Preserved, BoundsAssumption
  DEF CheckMandatory, Return, Error, Close, Update, env, stack, table, handles, HeapInv, NoLeak, Owned,
      Inv, StackInv, TypeOK, DirWhere, Where, InFile, Top, Levels, Frames
<1>31. OtherProcess => HeapInv'
  BY Preserved, BoundsAssumption
  DEF OtherProcess, Return, Error, Close, Update, env, stack, table, handles, HeapInv, NoLeak, Owned,
      Inv, StackInv, TypeOK, DirWhere, Where, InFile, Top, Levels, Frames
<1>32. InvalidLine => HeapInv'
  <2> SUFFICES ASSUME InvalidLine PROVE HeapInv'
    OBVIOUS
  <2>1. pc \in InFile /\ ~Top.dir /\ Close /\ Top.ptrs = {} /\ live' = live /\ pc' = "return"
    BY DEF InvalidLine, Error, Return, Inv, StackInv, DirWhere, HeapInv, InFile
  <2> QED BY <2>1, HeapClosed
<1>33. EndOfTable => HeapInv'
  <2> SUFFICES ASSUME EndOfTable PROVE HeapInv'
    OBVIOUS
  <2>1. pc \in InFile /\ ~Top.dir /\ Top.ptrs = {} /\ live' = live
    BY DEF EndOfTable, Inv, StackInv, DirWhere, HeapInv, InFile
  <2>2. CASE strict /\ Unknown
    <3>1. Close /\ pc' = "return"
      BY <2>2 DEF EndOfTable, Error, Return
    <3> QED BY <2>1, <3>1, HeapClosed
  <2>3. CASE ~(strict /\ Unknown)
    BY <2>1, <2>3, NewLineHeap DEF EndOfTable
  <2> QED BY <2>2, <2>3
<1>34. Clean => HeapInv'
  <2> SUFFICES ASSUME Clean PROVE HeapInv'
    OBVIOUS
  <2>1. pc \in InFile /\ ~Top.dir /\ live' = live \ ({depth} \X Top.ptrs)
    BY DEF Clean, Freed, Inv, StackInv, DirWhere, InFile
  <2>2. CASE ret = "FAIL"
    <3>1. Close /\ pc' = "return"
      BY <2>2 DEF Clean, Error, Return
    <3> QED BY <2>1, <3>1, HeapClosed
  <2>3. CASE ret # "FAIL"
    BY <2>1, <2>3, NewLineHeap DEF Clean
  <2> QED BY <2>2, <2>3
<1>35. CloseDir => HeapInv'
  <2> SUFFICES ASSUME CloseDir PROVE HeapInv'
    OBVIOUS
  <2> DEFINE fr == [Top EXCEPT !.dir = FALSE, !.todo = {}]
  <2>1. pc \in InFile /\ depth \in Levels /\ Top \in Frames
    BY WaitingTop DEF CloseDir, InFile
  <2>2. fr \in Frames /\ fr.ptrs = Top.ptrs /\ Update(fr)
    BY <2>1 DEF CloseDir, Frames
  <2> HIDE DEF fr
  <2>3. \A s \in live : s = <<s[1], s[2]>> /\ (s[1] = depth => s[2] \in Top.ptrs \cup {"file"})
    BY DEF HeapInv, NoLeak, Owned, Top, Inv, TypeOK
  <2>4. ~MayRunOutOfMemory => \A p \in Top.ptrs : <<depth, p>> \in live /\ p # "file"
    BY <2>1, BoundsAssumption DEF HeapInv, Top, Frames, Levels
  <2> QED BY <2>1, <2>2, <2>3, <2>4, HeapUpdated DEF CloseDir, InFile
<1>36. ParseGlobOutOfMemory => HeapInv'
  <2> SUFFICES ASSUME ParseGlobOutOfMemory PROVE HeapInv'
    OBVIOUS
  <2>1. pc \in InFile /\ depth \in Levels /\ Top \in Frames /\ Top.ptrs = {} /\ ~Top.dir
    BY WaitingTop DEF ParseGlobOutOfMemory, InFile, HeapInv, Inv, StackInv, DirWhere
  <2>2. \A s \in live : s[1] # depth
    BY <2>1 DEF HeapInv, NoLeak, Owned, Top, Inv, TypeOK
  <2>3. CASE UNCHANGED frame
    BY <2>3 DEF ParseGlobOutOfMemory, HeapInv, NoLeak, Owned, handles
  <2>4. CASE Update([Top EXCEPT !.ptrs = {"path"}])
    <3> DEFINE fr == [Top EXCEPT !.ptrs = {"path"}]
    <3>1. fr \in Frames /\ Update(fr)
      BY <2>1, <2>4 DEF Frames
    <3> HIDE DEF fr
    <3> QED BY <2>1, <2>2, <3>1, HeapUpdated DEF ParseGlobOutOfMemory, InFile, handles
  <2> QED BY <2>3, <2>4 DEF ParseGlobOutOfMemory
<1>37. UNCHANGED vars => HeapInv'
  BY DEF vars, stack, handles, HeapInv, NoLeak, Owned, Top
<1> QED
  BY <1>1, <1>2, <1>3, <1>4, <1>5, <1>6, <1>7, <1>8, <1>9, <1>10, <1>11, <1>12, <1>13, <1>14, <1>15, <1>16, <1>17, <1>18, <1>19, <1>20, <1>21, <1>22, <1>23, <1>24, <1>25, <1>26, <1>27, <1>28, <1>29, <1>30, <1>31, <1>32, <1>33, <1>34, <1>35, <1>36, <1>37
  DEF Next, Parse, Stopped

(* Hence the heap matches the stack in every reachable state.              *)
THEOREM HeapHolds == Spec => []HeapInv
<1>1. Init => HeapInv
  BY DEF Init, HeapInv, NoLeak
<1>2. Inv /\ HeapInv /\ [Next]_vars => HeapInv'
  BY HeapPreserved
<1> QED BY <1>1, <1>2, InvariantHolds, PTL DEF Spec

(* The strings of parse_cfg_object and parse_cfg_dir are always freed.     *)
THEOREM StringsAreFreed == Spec => []NoLeak
<1>1. HeapInv => NoLeak
  BY DEF HeapInv
<1> QED BY <1>1, HeapHolds, PTL

(* A double free or a write through NULL takes a failing malloc.           *)
THEOREM SafeWhileMemoryLasts == Spec => []CrashesOnlyOutOfMemory
<1>1. HeapInv => CrashesOnlyOutOfMemory
  BY DEF HeapInv, CrashesOnlyOutOfMemory
<1> QED BY <1>1, HeapHolds, PTL

-----------------------------------------------------------------------------
(* What the variables of the table hold.                                   *)

(* A number is 0 until it is set.  From then on it is what a text stands   *)
(* for that passed the range test of its entry, as it is if the type is    *)
(* wide enough and wrapped by the conversion to int if it is not.          *)
NumbersInRange ==
  \A e \in Entries :
    cfg[e].type \in {"INT", "UINT64"} =>
      \/ vals[e] = 0
      \/ \E t \in Texts :
           /\ Accepts(cfg[e], t)
           /\ vals[e] = IF cfg[e].type = "INT" /\ 2 * number[t] >= INT_MODULUS
                          THEN ToInt(number[t]) ELSE number[t]

LEMMA ToIntSmall == \A n \in Nat : 2 * n < INT_MODULUS => ToInt(n) = n
<1> SUFFICES ASSUME NEW n \in Nat, 2 * n < INT_MODULUS PROVE ToInt(n) = n
  OBVIOUS
<1>1. n % INT_MODULUS = n
  BY BoundsAssumption
<1> QED BY <1>1, BoundsAssumption DEF ToInt

(* The variables change only where an assignment is stored.                *)
LEMMA Storing ==
  Parse => vals' = vals \/ StoreNumber \/ StoreString \/ StoreStringList
           \/ StoreMultistring \/ CopyStringError
BY DEF Parse, table, RecursionDetected, NoFileGiven, CannotOpen, Open, SkipLine, InvalidLine,
       IncludeLine, AssignmentLine, EndOfFile, OtherParameter, IncorrectConfig, EndOfTable,
       ParseGlob, BadGlob, ParseGlobOutOfMemory, StatFails, StatFile, StatDir, Clean,
       DoubleFree, OpenDir, CannotOpenDir, ReadDir, ReadDirOutOfMemory, EndOfDir, CloseDir,
       ReturnToObject, ReturnToDir, ReturnToCaller, CheckMandatory

LEMMA RangesPreserved == ASSUME Inv, NumbersInRange, [Next]_vars PROVE NumbersInRange'
<1>1. CASE vals' = vals
  BY <1>1 DEF NumbersInRange
<1>2. CASE StoreNumber
  <2> DEFINE n == number[Top.value]
  <2>1. /\ entry \in Entries /\ DOMAIN vals = Entries /\ Entry = cfg[entry]
        /\ Top.value \in Texts
    BY <1>2, TableAssumption
    DEF StoreNumber, Matching, Inv, StackInv, Where, TypeOK, Entries, Entry
  <2>2. /\ vals' = [vals EXCEPT ![entry] = IF Entry.type = "INT" THEN ToInt(n) ELSE n]
        /\ n \in Nat
    BY <1>2, <2>1, TextAssumption DEF StoreNumber, Store, Accepts
  <2>3. ToInt(n) = IF 2 * n >= INT_MODULUS THEN ToInt(n) ELSE n
    BY <2>2, ToIntSmall, BoundsAssumption
  <2>4. Accepts(Entry, Top.value)
    BY <1>2 DEF StoreNumber
  <2>5. /\ \A e \in Entries : e # entry => vals'[e] = vals[e]
        /\ vals'[entry] = IF Entry.type = "INT" THEN ToInt(n) ELSE n
    BY <2>1, <2>2
  <2>6. vals'[entry] = IF Entry.type = "INT" /\ 2 * n >= INT_MODULUS THEN ToInt(n) ELSE n
    BY <2>3, <2>5
  <2> QED BY <2>1, <2>4, <2>5, <2>6 DEF NumbersInRange
<1>3. CASE StoreString \/ StoreStringList \/ StoreMultistring \/ CopyStringError
  <2>1. /\ entry \in Entries /\ DOMAIN vals = Entries
        /\ cfg[entry].type \notin {"INT", "UINT64"}
    BY <1>3, TableAssumption
    DEF StoreString, StoreStringList, StoreMultistring, CopyStringError, Matching, Inv, TypeOK,
        Entries, Entry, NumericType
  <2>2. \A e \in Entries : e # entry => vals'[e] = vals[e]
    BY <1>3, <2>1
    DEF StoreString, StoreStringList, StoreMultistring, CopyStringError, Store, NumericType
  <2> QED BY <2>1, <2>2 DEF NumbersInRange
<1> QED BY <1>1, <1>2, <1>3, Storing DEF Next, OtherProcess, Stopped, vars, table

LEMMA RangesStart == Init => NumbersInRange
BY DEF Init, NumbersInRange, InitialValue

(* An entry that has a maximum an int can hold is 0 or in its range.       *)
LEMMA RangeFits ==
  ASSUME NumbersInRange, NEW e \in Entries, cfg[e].type = "INT",
         cfg[e].max # 0, 2 * cfg[e].max < INT_MODULUS
  PROVE  vals[e] = 0 \/ vals[e] \in cfg[e].min .. cfg[e].max
<1>1. CASE vals[e] = 0
  BY <1>1
<1>2. CASE vals[e] # 0
  <2>1. PICK t \in Texts :
          /\ Accepts(cfg[e], t)
          /\ vals[e] = IF cfg[e].type = "INT" /\ 2 * number[t] >= INT_MODULUS
                         THEN ToInt(number[t]) ELSE number[t]
    BY <1>2 DEF NumbersInRange
  <2>2. number[t] \in Nat /\ cfg[e].min <= number[t] /\ number[t] <= cfg[e].max
    BY <2>1, TextAssumption DEF Accepts
  <2>3. cfg[e].min \in Nat /\ cfg[e].max \in Nat
    <3>1. cfg[e] \in CfgLines
      BY TableAssumption DEF Entries
    <3> QED BY <3>1 DEF CfgLines
  <2>4. ~(2 * number[t] >= INT_MODULUS)
    BY <2>2, <2>3, BoundsAssumption
  <2> QED BY <2>1, <2>2, <2>3, <2>4
<1> QED BY <1>1, <1>2

(* Whatever the table and the width of an int, a number of the table is 0  *)
(* or comes from a text that the range test accepted; the test is made     *)
(* before the conversion to int, which may take the value out of its range *)
(* again.                                                                  *)
THEOREM RangesHold == Spec => []NumbersInRange
<1>1. Inv /\ NumbersInRange /\ [Next]_vars => NumbersInRange'
  BY RangesPreserved
<1> QED BY <1>1, RangesStart, InvariantHolds, PTL DEF Spec

-----------------------------------------------------------------------------
(* parse_cfg_file is about to return, or has.                              *)
Returning == pc = "done" \/ (pc = "return" /\ depth = 0)

(* Success means that the mandatory parameters have values, or that there  *)
(* is no file, which only an optional one need not be.                     *)
SuccessIsComplete ==
  Returning /\ ret = "SUCCEED" => optional \/ \A e \in Entries : ~Missing(e)
NoFileOrComplete ==
  Returning /\ ret = "SUCCEED" =>
    arg \notin present \cup {NULL} \/ \A e \in Entries : ~Missing(e)

(* How the outermost activation comes to return.                           *)
LEMMA WaysToReturn ==
  ASSUME Inv, Parse, Returning', ret' = "SUCCEED"
  PROVE  (CannotOpen /\ optional) \/ CheckMandatory \/ ReturnToCaller
<1>1. pc' \in {"return", "done"}
  BY DEF Returning
<1>2. \/ RecursionDetected \/ CannotOpen \/ InvalidLine \/ EndOfFile \/ IncorrectConfig
      \/ CopyStringError \/ EndOfTable \/ Clean \/ ReturnToCaller \/ CheckMandatory
  BY <1>1
  DEF Parse, NoFileGiven, Open, SkipLine, IncludeLine, AssignmentLine, OtherParameter,
      StoreNumber, StoreString, StoreStringList, StoreMultistring, Store, Matching,
      ParseGlob, BadGlob, ParseGlobOutOfMemory, StatFails, StatFile, StatDir,
      DoubleFree, OpenDir, CannotOpenDir, ReadDir, ReadDirOutOfMemory, EndOfDir, CloseDir,
      ReturnToObject, ReturnToDir
<1>3. Error => ret' = "FAIL"
  BY DEF Error, Close, Return
<1>4. ~RecursionDetected
  BY DEF RecursionDetected, Return
<1>5. ~(InvalidLine \/ IncorrectConfig \/ CopyStringError)
  BY <1>3 DEF InvalidLine, IncorrectConfig, CopyStringError
<1>6. ~EndOfTable
  BY <1>1, <1>3 DEF EndOfTable
<1>7. ~Clean
  BY <1>1, <1>3 DEF Clean
<1>8. ~EndOfFile
  <2> SUFFICES ASSUME EndOfFile PROVE FALSE
    OBVIOUS
  <2>1. depth \in Nat /\ depth > 0
    BY BoundsAssumption DEF EndOfFile, Inv, TypeOK, StackInv, Where, InFile
  <2>2. depth # 1 /\ depth' = depth - 1
    BY <1>1 DEF EndOfFile, Close
  <2> QED
    BY <1>1, <2>1, <2>2 DEF Returning, EndOfFile, Return
<1>9. CASE CannotOpen
  BY <1>9 DEF CannotOpen, Return
<1> QED
  BY <1>2, <1>4, <1>5, <1>6, <1>7, <1>8, <1>9

LEMMA SuccessPreserved ==
  ASSUME Inv, Parse
  PROVE  /\ SuccessIsComplete => SuccessIsComplete'
         /\ NoFileOrComplete => NoFileOrComplete'
<1> SUFFICES ASSUME Returning', ret' = "SUCCEED"
             PROVE  /\ SuccessIsComplete => optional' \/ \A e \in Entries : ~Missing(e)'
                    /\ NoFileOrComplete =>
                         arg' \notin present' \cup {NULL} \/ \A e \in Entries : ~Missing(e)'
  BY DEF SuccessIsComplete, NoFileOrComplete
<1>1. CASE CannotOpen /\ optional
  BY <1>1 DEF CannotOpen, env
<1>2. CASE CheckMandatory
  BY <1>2 DEF CheckMandatory, Return, Missing, table
<1>3. CASE ReturnToCaller
  BY <1>3
  DEF ReturnToCaller, SuccessIsComplete, NoFileOrComplete, Returning, Missing, table, env
<1> QED BY <1>1, <1>2, <1>3, WaysToReturn

LEMMA SuccessStart == Init => SuccessIsComplete /\ NoFileOrComplete
BY DEF Init, SuccessIsComplete, NoFileOrComplete, Returning

(* A file that must be there is accepted only if every mandatory parameter *)
(* has a value, whatever another process does to the included files.       *)
THEOREM AcceptedHasMandatory == Spec => []SuccessIsComplete
<1>1. Inv /\ SuccessIsComplete /\ [Next]_vars => SuccessIsComplete'
  BY SuccessPreserved
  DEF Next, OtherProcess, Stopped, vars, env, stack, table, SuccessIsComplete, Returning, Missing
<1> QED BY <1>1, SuccessStart, InvariantHolds, PTL DEF Spec

-----------------------------------------------------------------------------
(* Joining sets of listings, whatever the lines are.                       *)
LEMMA Joined == \A A, B, x : x \in Join(A, B) <=> \E a \in A, b \in B : x = a \o b
BY DEF Join

(* The two parts of a joined listing, for a leaf to pick.                  *)
LEMMA JoinParts ==
  ASSUME NEW A, NEW B, NEW x \in Join(A, B)
  PROVE  \E a \in A, b \in B : x = a \o b
BY Joined

(* Joining two sets of listings gives a set of listings.                   *)
LEMMA JoinType ==
  ASSUME NEW P, NEW A \in SUBSET Seq(P), NEW B \in SUBSET Seq(P)
  PROVE  /\ Join(A, B) \in SUBSET Seq(P)
         /\ A # {} /\ B # {} => Join(A, B) # {}
<1>1. \A a \in A, b \in B : a \o b \in Seq(P)
  BY ConcatProperties
<1>2. ASSUME NEW x \in Join(A, B) PROVE x \in Seq(P)
  <2>1. PICK a \in A, b \in B : x = a \o b
    BY <1>2, JoinParts
  <2> QED
    BY <1>1, <2>1
<1>3. ASSUME NEW a \in A, NEW b \in B PROVE a \o b \in Join(A, B)
  BY <1>3, Joined
<1> QED
  BY <1>2, <1>3

(* Nothing is lost or added by joining with the empty listing.             *)
LEMMA JoinEmpty ==
  ASSUME NEW P, NEW A \in SUBSET Seq(P)
  PROVE  Join({<<>>}, A) = A /\ Join(A, {<<>>}) = A
<1>1. \A a \in A : a \o <<>> = a /\ <<>> \o a = a
  BY ConcatEmptySeq
<1> QED
  BY <1>1 DEF Join

(* Endings satisfies the equation it is defined by.                        *)
LEMMA EndingsEquation ==
  ASSUME NEW P, NEW Q \in Seq(SUBSET Seq(P))
  PROVE  /\ Endings(Q) \in [0 .. Len(Q) -> SUBSET Seq(P)]
         /\ Endings(Q)[0] = {<<>>}
         /\ \A n \in 1 .. Len(Q) : Endings(Q)[n] = Join(Q[Len(Q) - n + 1], Endings(Q)[n - 1])
<1> DEFINE V == SUBSET Seq(P)
           m == Len(Q)
           step == [n \in 1 .. m |-> [B \in V |-> Join(Q[m - n + 1], B)]]
           body(g) == [n \in 0 .. m |-> IF n = 0 THEN {<<>>} ELSE Join(Q[m - n + 1], g[n - 1])]
<1>1. m \in Nat
  OBVIOUS
<1>2. ASSUME NEW n \in 1 .. m PROVE step[n] \in [V -> V] /\ Q[m - n + 1] \in V
  <2>1. m - n + 1 \in 1 .. m
    BY <1>1
  <2>2. Q[m - n + 1] \in V
    BY <2>1
  <2>3. \A B \in V : Join(Q[m - n + 1], B) \in V
    BY <2>2, JoinType
  <2> QED
    BY <2>2, <2>3
<1>3. {<<>>} \in V
  OBVIOUS
<1>4. PICK g : Solves(g, 0, m, V, {<<>>}, step)
  <2>1. 0 \in Int /\ m \in Int /\ 0 <= m /\ 0 + 1 .. m = 1 .. m
    BY <1>1
  <2>2. \A i \in 0 + 1 .. m : step[i] \in [V -> V]
    <3> HIDE DEF V, m, step
    <3> QED
      BY <1>2, <2>1
  <2> HIDE DEF V, m, step
  <2> QED
    BY ONLY <1>3, <2>1, <2>2, Recursion
<1>5. g = body(g)
  <2>1. g \in [0 .. m -> V] /\ g[0] = {<<>>}
    BY <1>4 DEF Solves
  <2>2. ASSUME NEW n \in 0 .. m, n # 0 PROVE g[n] = Join(Q[m - n + 1], g[n - 1])
    <3>1. n \in 0 + 1 .. m /\ n \in 1 .. m /\ n - 1 \in 0 .. m
      BY <1>1, <2>2
    <3>2. g[n] = step[n][g[n - 1]] /\ g[n - 1] \in V
      BY <1>4, <2>1, <3>1 DEF Solves
    <3> QED
      BY <3>1, <3>2
  <2> QED
    BY <2>1, <2>2
<1>6. Endings(Q) = CHOOSE e : e = body(e)
  BY DEF Endings
<1>7. Endings(Q) = body(Endings(Q))
  BY <1>5, <1>6
<1> DEFINE E == Endings(Q)
<1>8. E[0] = {<<>>} /\ \A n \in 1 .. m : E[n] = Join(Q[m - n + 1], E[n - 1])
  <2> HIDE DEF E
  <2>1. E = body(E)
    BY <1>7 DEF E
  <2>2. 0 \in 0 .. m /\ \A n \in 1 .. m : n \in 0 .. m /\ n # 0
    BY <1>1
  <2> QED
    BY <2>1, <2>2
<1>9. \A n \in Nat : n \in {k \in Nat : k <= m => E[k] \in V}
  <2> DEFINE S == {k \in Nat : k <= m => E[k] \in V}
  <2>1. 0 \in S
    BY <1>3, <1>8
  <2>2. ASSUME NEW k \in Nat, k \in S PROVE k + 1 \in S
    <3> SUFFICES ASSUME k + 1 <= m PROVE E[k + 1] \in V
      OBVIOUS
    <3>1. k + 1 \in 1 .. m /\ k + 1 - 1 = k /\ k <= m
      BY <1>1
    <3>2. E[k] \in V /\ Q[m - (k + 1) + 1] \in V
      BY <1>2, <2>2, <3>1
    <3>3. E[k + 1] = Join(Q[m - (k + 1) + 1], E[k])
      BY <1>8, <3>1
    <3> QED
      BY <3>2, <3>3, JoinType
  <2> HIDE DEF S
  <2>3. \A n \in Nat : n \in S
    BY <2>1, <2>2, InductionOnSet
  <2> QED
    BY <2>3 DEF S
<1>10. E \in [0 .. m -> V]
  <2>1. E = body(E)
    BY <1>7
  <2>2. \A k \in 0 .. m : E[k] \in V
    BY <1>1, <1>9
  <2> HIDE DEF E, V
  <2> QED
    BY <2>1, <2>2
<1> QED
  BY <1>8, <1>10

(* Sets of listings to choose from yield listings.                         *)
LEMMA EndingsNonEmpty ==
  ASSUME NEW P, NEW Q \in Seq(SUBSET Seq(P)), \A i \in 1 .. Len(Q) : Q[i] # {}
  PROVE  \A n \in 0 .. Len(Q) : Endings(Q)[n] # {}
<1> DEFINE m == Len(Q)
           E == Endings(Q)
           S == {k \in Nat : k <= m => E[k] # {}}
<1>1. m \in Nat
  OBVIOUS
<1>2. /\ E \in [0 .. m -> SUBSET Seq(P)] /\ E[0] = {<<>>}
      /\ \A n \in 1 .. m : E[n] = Join(Q[m - n + 1], E[n - 1])
  BY EndingsEquation
<1>3. 0 \in S
  BY <1>2
<1>4. ASSUME NEW k \in Nat, k \in S PROVE k + 1 \in S
  <2> SUFFICES ASSUME k + 1 <= m PROVE E[k + 1] # {}
    OBVIOUS
  <2>1. k + 1 \in 1 .. m /\ k + 1 - 1 = k /\ k \in 0 .. m /\ m - (k + 1) + 1 \in 1 .. m
    BY <1>1
  <2>2. E[k] # {} /\ E[k] \in SUBSET Seq(P)
    <3>1. k <= m
      BY <1>1, <2>1
    <3> HIDE DEF E, m
    <3> QED
      BY <1>2, <1>4, <2>1, <3>1
  <2>3. Q[m - (k + 1) + 1] # {} /\ Q[m - (k + 1) + 1] \in SUBSET Seq(P)
    BY <2>1
  <2>4. E[k + 1] = Join(Q[m - (k + 1) + 1], E[k])
    BY <1>2, <2>1
  <2> QED
    BY <2>2, <2>3, <2>4, JoinType
<1>5. \A n \in Nat : n \in S
  <2> HIDE DEF S
  <2> QED
    BY <1>3, <1>4, InductionOnSet
<1> QED
  BY <1>1, <1>5

(* The endings of a sequence are those of the sequence with one more set   *)
(* in front of it.                                                         *)
LEMMA EndingsBehind ==
  ASSUME NEW P, NEW A \in SUBSET Seq(P), NEW Q \in Seq(SUBSET Seq(P)),
         NEW R \in Seq(SUBSET Seq(P)), Len(R) = Len(Q) + 1, R[1] = A,
         \A i \in 1 .. Len(Q) : R[i + 1] = Q[i]
  PROVE  InOrder(R) = Join(A, InOrder(Q))
<1> DEFINE m == Len(Q)
           E == Endings(Q)
           F == Endings(R)
           S == {k \in Nat : k <= m => F[k] = E[k]}
<1>1. m \in Nat /\ Len(R) = m + 1
  OBVIOUS
<1>2. /\ E[0] = {<<>>} /\ F[0] = {<<>>}
      /\ \A n \in 1 .. m : E[n] = Join(Q[m - n + 1], E[n - 1])
  BY EndingsEquation
<1>3. \A n \in 1 .. m + 1 : F[n] = Join(R[(m + 1) - n + 1], F[n - 1])
  BY <1>1, EndingsEquation
<1>4. 0 \in S
  BY <1>2
<1>5. ASSUME NEW k \in Nat, k \in S PROVE k + 1 \in S
  <2> SUFFICES ASSUME k + 1 <= m PROVE F[k + 1] = E[k + 1]
    OBVIOUS
  <2>1. /\ k + 1 \in 1 .. m /\ k + 1 \in 1 .. m + 1 /\ k + 1 - 1 = k
        /\ m - (k + 1) + 1 = m - k /\ (m + 1) - (k + 1) + 1 = (m - k) + 1
        /\ m - k \in 1 .. m
    BY <1>1
  <2>2. R[(m - k) + 1] = Q[m - k]
    BY <2>1
  <2>3. F[k] = E[k]
    BY <1>1, <1>5, <2>1
  <2>4. E[k + 1] = Join(Q[m - k], E[k]) /\ F[k + 1] = Join(R[(m - k) + 1], F[k])
    <3> HIDE DEF E, F, m
    <3>1. E[k + 1] = Join(Q[m - (k + 1) + 1], E[k + 1 - 1])
      BY <1>2, <2>1
    <3>2. F[k + 1] = Join(R[(m + 1) - (k + 1) + 1], F[k + 1 - 1])
      BY <1>3, <2>1
    <3> QED
      BY <2>1, <3>1, <3>2
  <2> QED
    BY <2>2, <2>3, <2>4
<1>6. F[m] = E[m]
  <2>1. \A n \in Nat : n \in S
    <3> HIDE DEF S
    <3> QED
      BY <1>4, <1>5, InductionOnSet
  <2> QED
    BY <1>1, <2>1
<1>7. F[m + 1] = Join(R[1], F[m])
  <2> HIDE DEF F, m
  <2>1. m + 1 \in 1 .. m + 1 /\ (m + 1) - (m + 1) + 1 = 1 /\ m + 1 - 1 = m
    BY <1>1
  <2>2. F[m + 1] = Join(R[(m + 1) - (m + 1) + 1], F[m + 1 - 1])
    BY <1>1, <1>3, <2>1
  <2> QED
    BY <2>1, <2>2
<1> QED
  BY <1>1, <1>6, <1>7 DEF InOrder

-----------------------------------------------------------------------------
(* Directories.                                                            *)
AllLines == Lines \cup {Failure}
SomeListings == {A \in SUBSET Seq(AllLines) : A # {}}
Nestings == [Files -> SomeListings]

(* A directory order lists the selected files, each of them once.          *)
LEMMA OrderType ==
  ASSUME NEW nested \in Nestings, NEW S \in SUBSET Files, IsFiniteSet(S), NEW q \in SetToSeqs(S)
  PROVE  /\ q \in Seq(S) /\ Len(q) = Cardinality(S) /\ Len(q) \in Nat
         /\ [i \in 1 .. Len(q) |-> nested[q[i]]] \in Seq(SUBSET Seq(AllLines))
         /\ Len([i \in 1 .. Len(q) |-> nested[q[i]]]) = Len(q)
<1>1. Cardinality(S) \in Nat
  BY FS_CardinalityType
<1>2. q \in [1 .. Cardinality(S) -> S]
  BY DEF SetToSeqs
<1>3. q \in Seq(S) /\ Len(q) = Cardinality(S)
  BY <1>1, <1>2
<1>4. \A i \in 1 .. Len(q) : nested[q[i]] \in SUBSET Seq(AllLines)
  BY <1>2, <1>3 DEF Nestings, SomeListings
<1> QED
  BY <1>1, <1>3, <1>4

(* The orders of an empty directory, and of one with a first file.         *)
LEMMA NoOrder == SetToSeqs({}) = {<<>>}
<1>1. Cardinality({}) = 0 /\ 1 .. 0 = {}
  BY FS_EmptySet
<1>2. <<>> \in [{} -> {}] /\ \A f \in [{} -> {}] : f = <<>>
  OBVIOUS
<1> QED
  BY <1>1, <1>2 DEF SetToSeqs

(* Any file of a set may be returned first, before any order of the        *)
(* others.                                                                 *)
LEMMA FirstInOrder ==
  ASSUME NEW S, IsFiniteSet(S), NEW x \in S, NEW q \in SetToSeqs(S \ {x})
  PROVE  <<x>> \o q \in SetToSeqs(S)
<1> DEFINE n == Cardinality(S)
           r == <<x>> \o q
<1>1. n \in Nat /\ n > 0 /\ Cardinality(S \ {x}) = n - 1
  BY FS_CardinalityType, FS_RemoveElement, FS_EmptySet
<1>2. /\ q \in [1 .. n - 1 -> S \ {x}]
      /\ \A i, j \in 1 .. n - 1 : i # j => q[i] # q[j]
  BY <1>1 DEF SetToSeqs
<1> HIDE DEF n
<1>3. q \in Seq(S \ {x}) /\ Len(q) = n - 1
  BY <1>1, <1>2
<1>4. r \in Seq(S) /\ Len(r) = n /\ r[1] = x /\ \A i \in 2 .. n : r[i] = q[i - 1]
  BY <1>1, <1>3
<1>5. r \in [1 .. n -> S]
  BY <1>1, <1>4, LenProperties
<1>6. \A i \in 2 .. n : r[i] \in S \ {x}
  BY <1>1, <1>2, <1>4
<1>7. \A i, j \in 1 .. n : i # j => r[i] # r[j]
  BY <1>1, <1>2, <1>4, <1>6
<1> QED
  BY <1>5, <1>7 DEF SetToSeqs, n

(* There is an order of the files of a directory.                          *)
LEMMA SomeOrder ==
  ASSUME NEW S, IsFiniteSet(S)
  PROVE  SetToSeqs(S) # {}
<1>1. PICK f \in Bijection(1 .. Cardinality(S), S) : TRUE
  BY FS_CardinalityType DEF ExistsBijection
<1> QED
  BY <1>1 DEF Bijection, Injection, IsInjective, SetToSeqs

(* The files another process may remove are in an order or not.            *)
LEMMA OrderMember ==
  ASSUME NEW must, NEW may, NEW q
  PROVE  q \in Orders(must, may)
           <=> \E S \in SUBSET may : must \subseteq S /\ q \in SetToSeqs(S)
BY DEF Orders

(* The listings of a directory.                                            *)
LEMMA DirMember ==
  ASSUME NEW must, NEW may, NEW nested, NEW t
  PROVE  t \in DirListings(must, may, nested)
           <=> \E q \in Orders(must, may) : t \in InOrder([i \in 1 .. Len(q) |-> nested[q[i]]])
BY DEF DirListings

(* The files of a directory have listings.                                 *)
LEMMA DirType ==
  ASSUME NEW nested \in Nestings, NEW may \in SUBSET Files, IsFiniteSet(may), NEW must \in SUBSET may
  PROVE  DirListings(must, may, nested) \in SomeListings
<1>1. ASSUME NEW q \in Orders(must, may)
      PROVE  InOrder([i \in 1 .. Len(q) |-> nested[q[i]]]) \in SomeListings
  <2> DEFINE Q == [i \in 1 .. Len(q) |-> nested[q[i]]]
  <2>6. PICK S \in SUBSET may : must \subseteq S /\ q \in SetToSeqs(S)
    BY OrderMember
  <2>7. IsFiniteSet(S) /\ S \in SUBSET Files
    BY FS_Subset
  <2>1. Q \in Seq(SUBSET Seq(AllLines)) /\ Len(Q) = Len(q) /\ Len(q) \in Nat /\ q \in Seq(S)
    BY <2>6, <2>7, OrderType
  <2>2. \A i \in 1 .. Len(Q) : Q[i] # {}
    BY <2>1, <2>7 DEF Nestings, SomeListings
  <2> HIDE DEF Q
  <2>3. Endings(Q) \in [0 .. Len(Q) -> SUBSET Seq(AllLines)] /\ Len(Q) \in 0 .. Len(Q)
    BY <2>1, EndingsEquation
  <2>4. InOrder(Q) \in SUBSET Seq(AllLines)
    BY <2>3 DEF InOrder
  <2>5. InOrder(Q) # {}
    BY <2>1, <2>2, <2>3, EndingsNonEmpty DEF InOrder
  <2> QED
    BY <2>4, <2>5 DEF Q, SomeListings
<1>2. ASSUME NEW t \in DirListings(must, may, nested) PROVE t \in Seq(AllLines)
  <2>1. PICK q \in Orders(must, may) : t \in InOrder([i \in 1 .. Len(q) |-> nested[q[i]]])
    BY <1>2 DEF DirListings
  <2> QED
    BY <1>1, <2>1 DEF SomeListings
<1>3. DirListings(must, may, nested) # {}
  <2>1. PICK q \in SetToSeqs(may) : TRUE
    BY SomeOrder
  <2>2. q \in Orders(must, may)
    BY <2>1, OrderMember
  <2>3. PICK t \in InOrder([i \in 1 .. Len(q) |-> nested[q[i]]]) : TRUE
    BY <1>1, <2>2 DEF SomeListings
  <2> QED
    BY <2>2, <2>3, DirMember
<1> QED
  BY <1>2, <1>3 DEF SomeListings

(* A directory with no selected file contributes nothing.                  *)
LEMMA NoFile ==
  ASSUME NEW nested \in Nestings
  PROVE  DirListings({}, {}, nested) = {<<>>}
<1> DEFINE Q == [i \in 1 .. Len(<<>>) |-> nested[<<>>[i]]]
<1>1. Q = <<>> /\ <<>> \in Seq(SUBSET Seq(AllLines)) /\ Len(<<>>) = 0
  OBVIOUS
<1>2. InOrder(<<>>) = {<<>>}
  BY <1>1, EndingsEquation DEF InOrder
<1>3. \A q : q \in Orders({}, {}) <=> q = <<>>
  <2> TAKE q
  <2>1. \A S \in SUBSET {} : S = {}
    OBVIOUS
  <2>2. q \in SetToSeqs({}) <=> q = <<>>
    BY NoOrder
  <2>3. q \in Orders({}, {}) <=> \E S \in SUBSET {} : {} \subseteq S /\ q \in SetToSeqs(S)
    BY OrderMember
  <2> QED
    BY <2>1, <2>2, <2>3
<1> QED
  <2>1. \A q \in Orders({}, {}) : InOrder([i \in 1 .. Len(q) |-> nested[q[i]]]) = {<<>>}
    <3> HIDE DEF Q
    <3>1. InOrder(Q) = {<<>>}
      BY <1>1, <1>2
    <3> QED
      BY <3>1, <1>3 DEF Q
  <2>2. ASSUME NEW t PROVE t \in DirListings({}, {}, nested) <=> t = <<>>
    <3>1. ASSUME t \in DirListings({}, {}, nested) PROVE t = <<>>
      <4>1. PICK q \in Orders({}, {}) : t \in InOrder([i \in 1 .. Len(q) |-> nested[q[i]]])
        BY <3>1 DEF DirListings
      <4> HIDE DEF Q
      <4> QED
        BY <2>1, <4>1
    <3>2. <<>> \in DirListings({}, {}, nested)
      <4>1. <<>> \in Orders({}, {}) /\ <<>> \in InOrder(Q)
        BY <1>1, <1>2, <1>3
      <4> QED
        BY <4>1, DirMember
    <3> QED
      BY <3>1, <3>2
  <2> QED
    BY <2>2

(* Leaving out a file that need not be there reads the directory.          *)
LEMMA WithoutFile ==
  ASSUME NEW nested, NEW must, NEW may, NEW x, x \notin must
  PROVE  DirListings(must, may \ {x}, nested) \subseteq DirListings(must, may, nested)
<1> SUFFICES ASSUME NEW t \in DirListings(must, may \ {x}, nested)
             PROVE  t \in DirListings(must, may, nested)
  OBVIOUS
<1>1. PICK q \in Orders(must, may \ {x}) : t \in InOrder([i \in 1 .. Len(q) |-> nested[q[i]]])
  BY DirMember
<1>2. q \in Orders(must, may)
  <2>1. PICK S \in SUBSET (may \ {x}) : must \subseteq S /\ q \in SetToSeqs(S)
    BY OrderMember
  <2>2. S \in SUBSET may
    OBVIOUS
  <2> QED
    BY <2>1, <2>2, OrderMember
<1> QED
  BY <1>1, <1>2, DirMember

(* Reading one file of a directory first, and then the others in any       *)
(* order, reads the directory.                                             *)
LEMMA FirstFile ==
  ASSUME NEW nested \in Nestings, NEW may \in SUBSET Files, IsFiniteSet(may), NEW must \in SUBSET may,
         NEW x \in may
  PROVE  Join(nested[x], DirListings(must \ {x}, may \ {x}, nested))
           \subseteq DirListings(must, may, nested)
<1> SUFFICES ASSUME NEW t \in Join(nested[x], DirListings(must \ {x}, may \ {x}, nested))
             PROVE  t \in DirListings(must, may, nested)
  OBVIOUS
<1> DEFINE B == DirListings(must \ {x}, may \ {x}, nested)
<1> HIDE DEF B
<1>0. t \in Join(nested[x], B)
  BY DEF B
<1>1. PICK a \in nested[x], b \in B : t = a \o b
  BY <1>0, Joined
<1> USE DEF B
<1>2. PICK q \in Orders(must \ {x}, may \ {x}) : b \in InOrder([i \in 1 .. Len(q) |-> nested[q[i]]])
  BY <1>1, DirMember
<1>10. PICK S0 \in SUBSET (may \ {x}) : must \ {x} \subseteq S0 /\ q \in SetToSeqs(S0)
  BY <1>2, OrderMember
<1>11. PICK S : S = S0 \cup {x}
  OBVIOUS
<1>12. /\ S \in SUBSET may /\ must \subseteq S /\ x \in S /\ S \ {x} = S0
       /\ S \in SUBSET Files /\ IsFiniteSet(S)
  <2>1. S \in SUBSET may /\ must \subseteq S /\ x \in S /\ S \ {x} = S0 /\ S \in SUBSET Files
    BY <1>10, <1>11
  <2> QED
    BY <2>1, FS_Subset
<1> DEFINE Q == [i \in 1 .. Len(q) |-> nested[q[i]]]
           r == <<x>> \o q
           R == [i \in 1 .. Len(r) |-> nested[r[i]]]
<1>3. r \in SetToSeqs(S)
  BY <1>10, <1>12, FirstInOrder
<1>4. IsFiniteSet(S \ {x}) /\ S \ {x} \in SUBSET Files
  BY <1>12, FS_RemoveElement
<1>5. /\ Q \in Seq(SUBSET Seq(AllLines)) /\ Len(Q) = Len(q) /\ Len(q) \in Nat /\ q \in Seq(S)
      /\ R \in Seq(SUBSET Seq(AllLines)) /\ Len(R) = Len(r) /\ Len(r) \in Nat
  <2> HIDE DEF r
  <2>2. q \in SetToSeqs(S \ {x})
    BY <1>10, <1>12
  <2>1. /\ q \in Seq(S \ {x}) /\ Q \in Seq(SUBSET Seq(AllLines)) /\ Len(Q) = Len(q)
        /\ Len(q) \in Nat
    BY <1>4, <2>2, OrderType
  <2>3. R \in Seq(SUBSET Seq(AllLines)) /\ Len(R) = Len(r) /\ Len(r) \in Nat
    BY <1>3, <1>12, OrderType
  <2> HIDE DEF Q, R
  <2> QED
    BY <2>1, <2>3
<1>6. Len(r) = Len(q) + 1 /\ r[1] = x /\ \A i \in 1 .. Len(q) : r[i + 1] = q[i]
  BY <1>5
<1>7. R[1] = nested[x] /\ \A i \in 1 .. Len(Q) : R[i + 1] = Q[i]
  <2> HIDE DEF r
  <2> QED
    BY <1>5, <1>6
<1>8. InOrder(R) = Join(nested[x], InOrder(Q))
  <2> HIDE DEF r, Q, R
  <2>1. nested[x] \in SUBSET Seq(AllLines)
    BY DEF Nestings, SomeListings
  <2>2. Len(R) = Len(Q) + 1
    BY <1>5, <1>6
  <2> QED
    BY <1>5, <1>7, <2>1, <2>2, EndingsBehind
<1>9. t \in InOrder(R)
  <2> HIDE DEF r, R
  <2>1. a \o b \in Join(nested[x], InOrder(Q))
    BY <1>1, <1>2, Joined
  <2> QED
    BY <1>1, <2>1, <1>8
<1> QED
  <2> HIDE DEF r
  <2>1. r \in Orders(must, may)
    BY <1>3, <1>12, OrderMember
  <2> QED
    BY <2>1, <1>9, DirMember
-----------------------------------------------------------------------------
(* Files.  An Include that fails stands for a listing.                     *)
LEMMA JustFailure == {<<Failure>>} \in SomeListings /\ <<Failure>> \in Seq(AllLines)
<1>1. <<Failure>> \in Seq(AllLines)
  BY DEF AllLines
<1> QED
  BY <1>1 DEF SomeListings

(* The end of a directory is nothing, or a failure to close it.            *)
LEMMA ClosingType ==
  ASSUME NEW p
  PROVE  /\ Closing(p) \in SomeListings /\ <<>> \in Closing(p)
         /\ Refused(p) \in SUBSET Seq(AllLines)
         /\ p \in Faulty => <<Failure>> \in Closing(p) /\ <<Failure>> \in Refused(p)
<1>1. <<>> \in Seq(AllLines)
  OBVIOUS
<1>2. Refused(p) \in SUBSET Seq(AllLines)
  BY JustFailure DEF Refused
<1> QED
  BY <1>1, <1>2 DEF Closing, Refused, SomeListings

(* A file that is there all the time may be there, and may be one of Files. *)
LEMMA FilesOf ==
  ASSUME NEW w \in DOMAIN World
  PROVE  Stable(World[w]) \subseteq Possible(World[w]) /\ Possible(World[w]) \subseteq Files
BY DiskAssumption DEF Stable, Possible

(* What an activation reads of a directory g of which it has not seen the  *)
(* entries S, where nested are the listings of the files.                  *)
Sure(w, g, S)  == Selection(g, S \cap Stable(World[w]))
Maybe(w, g, S) == Selection(g, S \cap Possible(World[w]))
InDirectory(w, g, S, nested) ==
  Join(DirListings(Sure(w, g, S), Maybe(w, g, S), nested), Closing(g.path))

LEMMA FoundType ==
  ASSUME NEW w \in DOMAIN World, NEW g, NEW S, IsFiniteSet(S)
  PROVE  /\ Maybe(w, g, S) \in SUBSET Files /\ IsFiniteSet(Maybe(w, g, S))
         /\ Sure(w, g, S) \in SUBSET Maybe(w, g, S)
<1>1. /\ Maybe(w, g, S) \in SUBSET S /\ Maybe(w, g, S) \in SUBSET Files
      /\ Sure(w, g, S) \in SUBSET Maybe(w, g, S)
  BY FilesOf DEF Maybe, Sure, Selection
<1> QED
  BY <1>1, FS_Subset

LEMMA InDirectoryType ==
  ASSUME NEW w \in DOMAIN World, NEW g, NEW S, IsFiniteSet(S), NEW nested \in Nestings
  PROVE  InDirectory(w, g, S, nested) \in SomeListings
<1>1. DirListings(Sure(w, g, S), Maybe(w, g, S), nested) \in SomeListings
  BY FoundType, DirType
<1> QED
  BY <1>1, ClosingType, JoinType DEF InDirectory, SomeListings

LEMMA LineListingsType ==
  ASSUME NEW w \in DOMAIN World, NEW ln \in Lines, NEW nested \in Nestings
  PROVE  LineListings(ln, World[w], nested) \in SomeListings
<1>2. CASE ln.kind # "include"
  <2>1. <<ln>> \in Seq(AllLines)
    BY DEF AllLines
  <2> QED
    BY <1>2, <2>1 DEF LineListings, SomeListings
<1>3. CASE ln.kind = "include"
  <2>1. ln.glob \in Globs
    BY <1>3 DEF Lines
  <2> DEFINE g == ln.glob
             D == InDirectory(w, g, World[w].members[g.path], nested)
  <2>3. ASSUME g.path \in Files PROVE nested[g.path] \in SomeListings
    BY <2>3 DEF Nestings
  <2>4. ASSUME g.path \in Dirs PROVE Refused(g.path) \cup D \in SomeListings
    <3>1. IsFiniteSet(World[w].members[g.path])
      BY <2>4, TreeAssumption
    <3> HIDE DEF g
    <3>2. D \in SomeListings
      BY <3>1, InDirectoryType
    <3> HIDE DEF D
    <3> QED
      BY <3>2, ClosingType DEF SomeListings
  <2>5. LineListings(ln, World[w], nested) =
          CASE g.form = "plain" /\ g.path \in Files -> nested[g.path]
            [] g.form # "bad" /\ g.path \in Dirs -> Refused(g.path) \cup D
            [] OTHER -> {<<Failure>>}
    BY <1>3 DEF LineListings, IncludeListings, InDirectory, Sure, Maybe
  <2> HIDE DEF g, D
  <2> QED
    BY <2>3, <2>4, <2>5, JustFailure
<1> QED
  BY <1>2, <1>3

(* Each line of a file has listings, and so has every ending of the file.  *)
LEMMA EachLineType ==
  ASSUME NEW w \in DOMAIN World, NEW lines \in Seq(Lines), NEW nested \in Nestings
  PROVE  LET Q == EachLine(lines, World[w], nested)
         IN  /\ Q \in Seq(SUBSET Seq(AllLines)) /\ Len(Q) = Len(lines) /\ Len(Q) \in Nat
             /\ \A i \in 1 .. Len(lines) : Q[i] = LineListings(lines[i], World[w], nested)
             /\ \A n \in 0 .. Len(lines) : Endings(Q)[n] \in SomeListings
<1> DEFINE Q == EachLine(lines, World[w], nested)
<1>1. \A i \in 1 .. Len(lines) : LineListings(lines[i], World[w], nested) \in SomeListings
  BY LineListingsType
<1>2. Q = [i \in 1 .. Len(lines) |-> LineListings(lines[i], World[w], nested)]
  BY DEF EachLine
<1> HIDE DEF Q
<1>3. /\ Q \in Seq(SUBSET Seq(AllLines)) /\ Len(Q) = Len(lines) /\ Len(Q) \in Nat
      /\ \A i \in 1 .. Len(lines) : Q[i] = LineListings(lines[i], World[w], nested)
  BY <1>1, <1>2 DEF SomeListings
<1>4. \A i \in 1 .. Len(Q) : Q[i] # {}
  BY <1>1, <1>3 DEF SomeListings
<1>5. \A n \in 0 .. Len(Q) : Endings(Q)[n] \in SUBSET Seq(AllLines)
  BY <1>3, EndingsEquation
<1>6. \A n \in 0 .. Len(Q) : Endings(Q)[n] # {}
  BY <1>3, <1>4, EndingsNonEmpty
<1> QED
  BY <1>3, <1>5, <1>6 DEF Q, SomeListings

(* Listings satisfies the equation it is defined by.                       *)
LEMMA ListingsEquation ==
  ASSUME NEW w \in DOMAIN World
  PROVE  LET L == Listings(World[w])
         IN  /\ L \in [0 .. MAX_INCLUDE_LEVEL -> Nestings]
             /\ \A n \in 0 .. MAX_INCLUDE_LEVEL, f \in Files :
                  n = 0 \/ f \notin Stable(World[w]) => <<Failure>> \in L[n][f]
             /\ \A n \in 1 .. MAX_INCLUDE_LEVEL, f \in Possible(World[w]) :
                  FileListings(f, World[w], L[n - 1]) \subseteq L[n][f]
<1> DEFINE M == MAX_INCLUDE_LEVEL
           Of(n, N) == [f \in Files |->
                          (IF n > 0 /\ f \in Possible(World[w])
                             THEN FileListings(f, World[w], N) ELSE {})
                            \cup (IF n = 0 \/ f \notin Stable(World[w]) THEN {<<Failure>>} ELSE {})]
           Equation(g) == g = [n \in 0 .. M |-> Of(n, g[n - 1])]
           step == [n \in 1 .. M |-> [N \in Nestings |-> Of(n, N)]]
           L == Listings(World[w])
<1>1. M \in Nat
  BY BoundsAssumption
<1>3. ASSUME NEW n \in Nat, NEW N \in Nestings PROVE Of(n, N) \in Nestings
  <2>1. ASSUME NEW f \in Files PROVE Of(n, N)[f] \in SomeListings
    <3>1. World[w].lines[f] \in Seq(Lines)
      BY DiskAssumption
    <3>2. FileListings(f, World[w], N) \in SomeListings
      BY <3>1, EachLineType DEF InOrder, FileListings
    <3>3. f \notin Possible(World[w]) => f \notin Stable(World[w])
      BY FilesOf
    <3>4. n = 0 \/ n > 0
      OBVIOUS
    <3>5. PICK A : A = FileListings(f, World[w], N)
      OBVIOUS
    <3> QED
      BY <3>2, <3>3, <3>4, <3>5, JustFailure DEF SomeListings
  <2>2. Of(n, N) = [f \in Files |-> Of(n, N)[f]]
    OBVIOUS
  <2> HIDE DEF Of
  <2> QED
    BY <2>1, <2>2 DEF Nestings
<1>4. \A N, O : Of(0, N) = Of(0, O)
  <2>1. ~(0 > 0)
    OBVIOUS
  <2> QED
    BY <2>1, ZenonT(30)
<1> DEFINE start == Of(0, {})
<1>5. start \in Nestings
  <2>1. PICK N \in Nestings : TRUE
    <3>1. [f \in Files |-> {<<Failure>>}] \in Nestings
      BY JustFailure DEF Nestings
    <3> QED
      BY <3>1
  <2> HIDE DEF Of
  <2>2. Of(0, N) \in Nestings
    BY <1>3
  <2> QED
    BY <1>4, <2>2
<1> HIDE DEF Of
<1>6. PICK g : Solves(g, 0, M, Nestings, start, step)
  <2>1. 0 \in Int /\ M \in Int /\ 0 <= M /\ 0 + 1 .. M = 1 .. M
    BY <1>1
  <2>2. \A i \in 0 + 1 .. M : step[i] \in [Nestings -> Nestings]
    BY <1>3, <2>1
  <2> HIDE DEF M, step, start
  <2> QED
    BY ONLY <1>5, <2>1, <2>2, Recursion
<1>7. Equation(g)
  <2>1. g \in [0 .. M -> Nestings] /\ g[0] = Of(0, g[0 - 1])
    BY <1>4, <1>6 DEF Solves
  <2>2. ASSUME NEW n \in 0 .. M, n # 0 PROVE g[n] = Of(n, g[n - 1])
    <3>1. n \in 0 + 1 .. M /\ n \in 1 .. M /\ n - 1 \in 0 .. M
      BY <1>1, <2>2
    <3>2. g[n] = step[n][g[n - 1]] /\ g[n - 1] \in Nestings
      BY <1>6, <2>1, <3>1 DEF Solves
    <3> QED
      BY <3>1, <3>2
  <2> QED
    BY <2>1, <2>2
<1>8. L = CHOOSE h : Equation(h)
  BY DEF Listings, Of
<1>9. Equation(L)
  BY <1>7, <1>8
<1> HIDE DEF L
<1>10. L[0] = start /\ \A n \in 1 .. M : L[n] = Of(n, L[n - 1])
  <2>1. 0 \in 0 .. M /\ \A n \in 1 .. M : n \in 0 .. M
    BY <1>1
  <2>2. L[0] = Of(0, L[0 - 1])
    BY <1>9, <2>1
  <2> QED
    BY <1>4, <1>9, <2>1, <2>2
<1> DEFINE S == {k \in Nat : k <= M => L[k] \in Nestings}
<1>11. \A k \in Nat : k \in S
  <2>1. 0 \in S
    BY <1>5, <1>10
  <2>2. ASSUME NEW k \in Nat, k \in S PROVE k + 1 \in S
    <3> SUFFICES ASSUME k + 1 <= M PROVE L[k + 1] \in Nestings
      OBVIOUS
    <3>1. k + 1 \in 1 .. M /\ k + 1 - 1 = k /\ k <= M
      BY <1>1
    <3> QED
      BY <1>3, <1>10, <2>2, <3>1
  <2> HIDE DEF S
  <2> QED
    BY <2>1, <2>2, InductionOnSet
<1>12. L \in [0 .. M -> Nestings]
  <2>1. \A k \in 0 .. M : L[k] \in Nestings
    BY <1>1, <1>11
  <2> QED
    BY <1>9, <2>1
<1>13. ASSUME NEW n \in 0 .. M, NEW f \in Files, n = 0 \/ f \notin Stable(World[w])
       PROVE  <<Failure>> \in L[n][f]
  <2>1. PICK N : L[n] = Of(n, N)
    BY <1>9
  <2>2. <<Failure>> \in Of(n, N)[f]
    BY <1>13 DEF Of
  <2> QED
    BY <2>1, <2>2
<1>14. ASSUME NEW n \in 1 .. M, NEW f \in Possible(World[w])
       PROVE  FileListings(f, World[w], L[n - 1]) \subseteq L[n][f]
  <2>1. n > 0 /\ f \in Files
    BY <1>1, FilesOf
  <2>2. L[n] = Of(n, L[n - 1])
    BY <1>10
  <2>3. PICK N : N = L[n - 1]
    OBVIOUS
  <2>4. FileListings(f, World[w], N) \subseteq Of(n, N)[f]
    BY <2>1 DEF Of
  <2> QED
    BY <2>2, <2>3, <2>4
<1> QED
  BY <1>12, <1>13, <1>14 DEF L

-----------------------------------------------------------------------------
(* Reading a listing.  A line turns an outcome into an outcome.            *)
Variables ==
  {v \in [Entries -> UNION {Values(cfg[e]) : e \in Entries}] :
     \A e \in Entries : /\ v[e] \in Values(cfg[e])
                        /\ cfg[e].type = "MULTISTRING" => v[e] \in Seq(Texts)}
AnOutcome == [ret : {"SUCCEED", "FAIL"}, vals : Variables]

(* The value an entry sees is a text.                                      *)
LEMMA ValueType ==
  ASSUME NEW ln \in Lines, ln.kind = "set", NEW e
  PROVE  Value(ln, e) \in Texts
<1>1. ln.value \in Texts
  BY DEF Lines
<1> QED
  BY <1>1, TextAssumption DEF Value

(* What an accepted assignment stores has the type of the variable.        *)
LEMMA AssignedType ==
  ASSUME NEW ln \in Lines, ln.kind = "set", NEW e \in Setters(ln), e \notin Rejects(ln),
         NEW old \in Values(cfg[e]), cfg[e].type = "MULTISTRING" => old \in Seq(Texts)
  PROVE  /\ Assigned(ln, e, old) \in Values(cfg[e])
         /\ cfg[e].type = "MULTISTRING" => Assigned(ln, e, old) \in Seq(Texts)
<1>1. e \in Entries /\ cfg[e].type \in Types
  BY EntryType DEF Setters
<1>2. Value(ln, e) \in Texts
  BY ValueType
<1>3. CASE cfg[e].type \in {"INT", "UINT64"}
  <2>1. number[Value(ln, e)] \in Nat
    BY <1>2, <1>3, TextAssumption DEF Rejects, Accepts
  <2>2. ToInt(number[Value(ln, e)]) \in Int
    BY <2>1, ToIntType
  <2> QED
    BY <1>1, <1>3, <2>1, <2>2, ValuesOf DEF Assigned
<1>4. CASE cfg[e].type \in {"STRING", "STRING_LIST"}
  BY <1>1, <1>2, <1>4, ValuesOf DEF Assigned
<1>5. CASE cfg[e].type = "MULTISTRING"
  <2>1. Append(old, Value(ln, e)) \in Seq(Texts)
    BY <1>2, <1>5
  <2> QED
    BY <1>1, <1>5, <2>1, ValuesOf DEF Assigned
<1> QED
  BY <1>1, <1>3, <1>4, <1>5 DEF Types

(* Accepted assignments leave well-typed variables.                        *)
LEMMA AssignType ==
  ASSUME NEW ln \in Lines, ln.kind = "set", NEW v \in Variables,
         NEW S \in SUBSET Setters(ln), S \cap Rejects(ln) = {}
  PROVE  Assign(ln, v, S) \in Variables
<1>1. ASSUME NEW e \in Entries
      PROVE  /\ Assign(ln, v, S)[e] \in Values(cfg[e])
             /\ cfg[e].type = "MULTISTRING" => Assign(ln, v, S)[e] \in Seq(Texts)
  <2>1. /\ v[e] \in Values(cfg[e])
        /\ cfg[e].type = "MULTISTRING" => v[e] \in Seq(Texts)
    BY DEF Variables
  <2>2. CASE e \in S
    <3>1. e \in Setters(ln) /\ e \notin Rejects(ln)
      BY <2>2
    <3> QED
      BY <2>1, <2>2, <3>1, AssignedType DEF Assign
  <2>3. CASE e \notin S
    BY <2>1, <2>3 DEF Assign
  <2> QED
    BY <2>2, <2>3
<1>2. Assign(ln, v, S) = [e \in Entries |-> Assign(ln, v, S)[e]]
  BY DEF Assign
<1> QED
  BY <1>1, <1>2 DEF Variables

(* A line takes an outcome to an outcome.                                  *)
LEMMA AfterType ==
  ASSUME NEW ln \in AllLines, NEW o \in AnOutcome, NEW s
  PROVE  After(ln, o, s) \in AnOutcome
<1>1. o.ret \in {"SUCCEED", "FAIL"} /\ o.vals \in Variables
  BY DEF AnOutcome
<1>2. CASE o.ret = "FAIL" \/ ln.kind = "skip"
  BY <1>1, <1>2 DEF After
<1>3. CASE o.ret # "FAIL" /\ ln.kind = "set"
  <2>1. ln \in Lines
    BY <1>3 DEF AllLines, Failure
  <2> DEFINE S == {e \in Setters(ln) : \A r \in Rejects(ln) : e < r}
  <2>2. S \in SUBSET Setters(ln) /\ S \cap Rejects(ln) = {}
    BY DEF Setters, Rejects, Entries
  <2> HIDE DEF S
  <2>3. Assign(ln, o.vals, S) \in Variables
    BY <1>1, <1>3, <2>1, <2>2, AssignType
  <2>4. AssignmentMeaning(ln, o.vals, s) \in AnOutcome
    BY <2>3 DEF AnOutcome, AssignmentMeaning, S
  <2> QED
    BY <1>3, <2>4 DEF After
<1>4. CASE o.ret # "FAIL" /\ ln.kind \notin {"skip", "set"}
  <2>1. After(ln, o, s) = [o EXCEPT !.ret = "FAIL"]
    BY <1>4 DEF After
  <2> QED
    BY <2>1 DEF AnOutcome
<1> QED
  BY <1>2, <1>3, <1>4

(* Outcomes satisfies the equation it is defined by.                       *)
LEMMA OutcomesEquation ==
  ASSUME NEW t \in Seq(AllLines), NEW o \in AnOutcome, NEW s
  PROVE  LET at == Outcomes(t, o, s)
         IN  /\ at[0] = o /\ \A i \in 0 .. Len(t) : at[i] \in AnOutcome
             /\ \A i \in 1 .. Len(t) : at[i] = After(t[i], at[i - 1], s)
<1> DEFINE m == Len(t)
           Equation(g) == g = [i \in 0 .. m |-> IF i = 0 THEN o ELSE After(t[i], g[i - 1], s)]
           step == [i \in 1 .. m |-> [x \in AnOutcome |-> After(t[i], x, s)]]
           at == Outcomes(t, o, s)
<1>1. m \in Nat /\ \A i \in 1 .. m : t[i] \in AllLines
  OBVIOUS
<1>2. PICK g : Solves(g, 0, m, AnOutcome, o, step)
  <2>1. 0 \in Int /\ m \in Int /\ 0 <= m /\ 0 + 1 .. m = 1 .. m
    BY <1>1
  <2>2. \A i \in 0 + 1 .. m : step[i] \in [AnOutcome -> AnOutcome]
    BY <1>1, <2>1, AfterType
  <2>3. o \in AnOutcome
    OBVIOUS
  <2> HIDE DEF m, step
  <2> QED
    BY ONLY <2>1, <2>2, <2>3, Recursion
<1>3. Equation(g)
  <2>1. g \in [0 .. m -> AnOutcome] /\ g[0] = o
    BY <1>2 DEF Solves
  <2>2. ASSUME NEW i \in 0 .. m, i # 0 PROVE g[i] = After(t[i], g[i - 1], s)
    <3>1. i \in 0 + 1 .. m /\ i \in 1 .. m /\ i - 1 \in 0 .. m
      BY <1>1, <2>2
    <3>2. g[i] = step[i][g[i - 1]] /\ g[i - 1] \in AnOutcome
      BY <1>2, <2>1, <3>1 DEF Solves
    <3> QED
      BY <3>1, <3>2
  <2> QED
    BY <2>1, <2>2
<1>4. at = CHOOSE h : Equation(h)
  BY DEF Outcomes
<1>5. Equation(at)
  BY <1>3, <1>4
<1> HIDE DEF at
<1>6. at[0] = o /\ \A i \in 1 .. m : at[i] = After(t[i], at[i - 1], s)
  <2>1. 0 \in 0 .. m /\ \A i \in 1 .. m : i \in 0 .. m /\ i # 0
    BY <1>1
  <2> QED
    BY <1>5, <2>1
<1> DEFINE S == {k \in Nat : k <= m => at[k] \in AnOutcome}
<1>7. \A k \in Nat : k \in S
  <2>1. 0 \in S
    BY <1>6
  <2>2. ASSUME NEW k \in Nat, k \in S PROVE k + 1 \in S
    <3> SUFFICES ASSUME k + 1 <= m PROVE at[k + 1] \in AnOutcome
      OBVIOUS
    <3>1. k + 1 \in 1 .. m /\ k + 1 - 1 = k /\ k <= m
      BY <1>1
    <3>2. at[k + 1] = After(t[k + 1], at[k], s) /\ at[k] \in AnOutcome /\ t[k + 1] \in AllLines
      BY <1>1, <1>6, <2>2, <3>1
    <3> QED
      BY <3>2, AfterType
  <2> HIDE DEF S
  <2> QED
    BY <2>1, <2>2, InductionOnSet
<1> QED
  BY <1>1, <1>6, <1>7 DEF at

(* Reading the empty listing changes nothing.                              *)
LEMMA ReadNothing ==
  ASSUME NEW o \in AnOutcome, NEW s
  PROVE  Read(<<>>, o, s) = o
<1>1. <<>> \in Seq(AllLines) /\ Len(<<>>) = 0
  OBVIOUS
<1> QED
  BY <1>1, OutcomesEquation, ZenonT(30) DEF Read

(* Reading a listing gives an outcome.                                     *)
LEMMA ReadType ==
  ASSUME NEW t \in Seq(AllLines), NEW o \in AnOutcome, NEW s
  PROVE  Read(t, o, s) \in AnOutcome
<1>1. Len(t) \in 0 .. Len(t)
  OBVIOUS
<1> QED
  BY <1>1, OutcomesEquation DEF Read

(* A failure ends the reading.                                             *)
LEMMA ReadAfterFailure ==
  ASSUME NEW t \in Seq(AllLines), NEW o \in AnOutcome, o.ret = "FAIL", NEW s
  PROVE  Read(t, o, s) = o
<1> DEFINE m == Len(t)
           at == Outcomes(t, o, s)
           S == {k \in Nat : k <= m => at[k] = o}
<1>1. m \in Nat /\ at[0] = o /\ \A i \in 1 .. m : at[i] = After(t[i], at[i - 1], s)
  BY OutcomesEquation
<1>2. \A k \in Nat : k \in S
  <2>1. 0 \in S
    BY <1>1
  <2>2. ASSUME NEW k \in Nat, k \in S PROVE k + 1 \in S
    <3> SUFFICES ASSUME k + 1 <= m PROVE at[k + 1] = o
      OBVIOUS
    <3>1. k + 1 \in 1 .. m /\ k + 1 - 1 = k /\ k <= m
      BY <1>1
    <3>2. at[k + 1] = After(t[k + 1], o, s)
      BY <1>1, <2>2, <3>1
    <3> QED
      BY <3>2 DEF After
  <2> HIDE DEF S
  <2> QED
    BY <2>1, <2>2, InductionOnSet
<1> QED
  BY <1>1, <1>2 DEF Read

(* The first line of a listing is read first.                              *)
LEMMA ReadFirst ==
  ASSUME NEW ln \in AllLines, NEW t \in Seq(AllLines), NEW o \in AnOutcome, NEW s
  PROVE  Read(<<ln>> \o t, o, s) = Read(t, After(ln, o, s), s)
<1> DEFINE u == <<ln>> \o t
           p == After(ln, o, s)
           m == Len(t)
           F == Outcomes(u, o, s)
           G == Outcomes(t, p, s)
           S == {k \in Nat : k <= m => F[k + 1] = G[k]}
<1>1. p \in AnOutcome /\ m \in Nat
  BY AfterType
<1>2. u \in Seq(AllLines) /\ Len(u) = m + 1 /\ u[1] = ln /\ \A i \in 1 .. m : u[i + 1] = t[i]
  OBVIOUS
<1> HIDE DEF u, p
<1>3. F[0] = o /\ \A i \in 1 .. m + 1 : F[i] = After(u[i], F[i - 1], s)
  BY <1>2, OutcomesEquation
<1>4. G[0] = p /\ \A i \in 1 .. m : G[i] = After(t[i], G[i - 1], s)
  BY <1>1, OutcomesEquation
<1> HIDE DEF F, G
<1>5. \A k \in Nat : k \in S
  <2>1. 0 \in S
    <3>1. 1 \in 1 .. m + 1 /\ 1 - 1 = 0 /\ 0 + 1 = 1
      BY <1>1
    <3>2. F[1] = After(ln, o, s)
      BY <1>2, <1>3, <3>1
    <3> QED
      BY <1>4, <3>1, <3>2 DEF p
  <2>2. ASSUME NEW k \in Nat, k \in S PROVE k + 1 \in S
    <3> SUFFICES ASSUME k + 1 <= m PROVE F[k + 1 + 1] = G[k + 1]
      OBVIOUS
    <3>1. /\ k + 1 \in 1 .. m /\ k + 1 - 1 = k /\ k <= m
          /\ k + 1 + 1 \in 1 .. m + 1 /\ k + 1 + 1 - 1 = k + 1
      BY <1>1
    <3>2. F[k + 1] = G[k] /\ u[k + 1 + 1] = t[k + 1]
      BY <1>2, <2>2, <3>1
    <3>3. G[k + 1] = After(t[k + 1], G[k], s)
      BY <1>4, <3>1
    <3>4. F[k + 1 + 1] = After(u[k + 1 + 1], F[k + 1 + 1 - 1], s)
      BY <1>3, <3>1
    <3> QED
      BY <3>1, <3>2, <3>3, <3>4
  <2> HIDE DEF S
  <2> QED
    BY <2>1, <2>2, InductionOnSet
<1>6. F[m + 1] = G[m]
  BY <1>1, <1>5
<1> QED
  BY <1>2, <1>6 DEF Read, F, G, u, p

-----------------------------------------------------------------------------
(* What is left to read, for file system w: the listings of the files that *)
(* an activation of level l may include, those of its lines from line i    *)
(* on, and those it reads once the file it included has returned.          *)
Nested(w, l) == Listings(World[w])[MAX_INCLUDE_LEVEL - l]

LinesIn(w, fr) == World[w].lines[fr.file]

LinesFrom(w, fr, l, i) ==
  Endings(EachLine(LinesIn(w, fr), World[w], Nested(w, l)))[Len(LinesIn(w, fr)) + 1 - i]

DirRest(w, fr, l) ==
  IF fr.dir THEN InDirectory(w, fr.glob, fr.todo, Nested(w, l)) ELSE {<<>>}

Rest(w, fr, l) == Join(DirRest(w, fr, l), LinesFrom(w, fr, l, fr.line + 1))

(* Whatever of A and then of K is read after the outcome o, the result is  *)
(* one of M.                                                               *)
Leads(M, s, o, A, K) == \A a \in A, k \in K : Checked(Read(a \o k, o, s)) \in M

(* Sets of listings that are not empty can be joined.                      *)
LEMMA SomeJoined ==
  ASSUME NEW A \in SomeListings, NEW B \in SomeListings
  PROVE  Join(A, B) \in SomeListings
BY JoinType DEF SomeListings

(* Joining is monotone.                                                    *)
LEMMA JoinFewer ==
  ASSUME NEW A, NEW B, NEW L, B \subseteq A
  PROVE  Join(B, L) \subseteq Join(A, L)
<1> SUFFICES ASSUME NEW x \in Join(B, L) PROVE x \in Join(A, L)
  OBVIOUS
<1>1. PICK b \in B, l \in L : x = b \o l
  BY JoinParts
<1>2. b \in A
  OBVIOUS
<1> QED
  BY <1>1, <1>2, Joined

(* One line is a listing.                                                  *)
LEMMA JustOne == ASSUME NEW ln \in AllLines PROVE {<<ln>>} \in SomeListings
<1>1. <<ln>> \in Seq(AllLines)
  OBVIOUS
<1> QED
  BY <1>1 DEF SomeListings

(* No line is a listing.                                                   *)
LEMMA JustNothing == {<<>>} \in SomeListings
<1>1. <<>> \in Seq(AllLines)
  OBVIOUS
<1> QED
  BY <1>1 DEF SomeListings

(* The lines of the file an activation reads.                              *)
LEMMA LinesInType ==
  ASSUME NEW w \in DOMAIN World, NEW fr \in Frames
  PROVE  /\ LinesIn(w, fr) \in Seq(Lines) /\ Len(LinesIn(w, fr)) \in Nat
         /\ \A i \in 1 .. Len(LinesIn(w, fr)) : LinesIn(w, fr)[i] \in Lines
<1>1. fr.file \in Files
  BY DEF Frames
<1>2. LinesIn(w, fr) \in Seq(Lines)
  BY <1>1, DiskAssumption DEF LinesIn
<1> QED
  BY <1>2

(* The files that may be included at a level have listings.                *)
LEMMA NestedType ==
  ASSUME NEW w \in DOMAIN World, NEW l \in 0 .. MAX_INCLUDE_LEVEL
  PROVE  Nested(w, l) \in Nestings /\ \A f \in Files : Nested(w, l)[f] \in SomeListings
<1>1. MAX_INCLUDE_LEVEL - l \in 0 .. MAX_INCLUDE_LEVEL
  BY BoundsAssumption
<1>2. Nested(w, l) \in Nestings
  BY <1>1, ListingsEquation DEF Nested
<1> QED
  BY <1>2 DEF Nestings

(* All the lines of a file.                                                *)
LEMMA WholeFile ==
  ASSUME NEW w \in DOMAIN World, NEW l \in 0 .. MAX_INCLUDE_LEVEL, NEW f \in Files,
         l < MAX_INCLUDE_LEVEL
  PROVE  LinesFrom(w, NewFrame(f), l + 1, 1) = FileListings(f, World[w], Nested(w, l + 1))
<1>3. LinesIn(w, NewFrame(f)) = World[w].lines[f] /\ World[w].lines[f] \in Seq(Lines)
  BY DiskAssumption DEF LinesIn, NewFrame
<1>4. l + 1 \in 0 .. MAX_INCLUDE_LEVEL
  BY BoundsAssumption
<1> DEFINE Q == EachLine(World[w].lines[f], World[w], Nested(w, l + 1))
<1>5. Len(Q) = Len(World[w].lines[f]) /\ Len(Q) \in Nat
  BY <1>3, <1>4, NestedType, EachLineType
<1>6. Len(World[w].lines[f]) + 1 - 1 = Len(Q)
  BY <1>5
<1> HIDE DEF Q
<1> QED
  BY <1>3, <1>6 DEF LinesFrom, InOrder, FileListings, Q

(* The file that is opened, and one that cannot be.                        *)
LEMMA NestedFile ==
  ASSUME NEW w \in DOMAIN World, NEW l \in 0 .. MAX_INCLUDE_LEVEL, NEW f \in Files
  PROVE  /\ l = MAX_INCLUDE_LEVEL \/ f \notin Stable(World[w]) => <<Failure>> \in Nested(w, l)[f]
         /\ l < MAX_INCLUDE_LEVEL /\ f \in Possible(World[w]) =>
              LinesFrom(w, NewFrame(f), l + 1, 1) \subseteq Nested(w, l)[f]
<1> DEFINE n == MAX_INCLUDE_LEVEL - l
<1>1. ASSUME l = MAX_INCLUDE_LEVEL \/ f \notin Stable(World[w])
      PROVE  <<Failure>> \in Nested(w, l)[f]
  <2>1. n \in 0 .. MAX_INCLUDE_LEVEL /\ (l = MAX_INCLUDE_LEVEL => n = 0)
    BY BoundsAssumption
  <2> HIDE DEF n
  <2>2. <<Failure>> \in Listings(World[w])[n][f]
    BY <1>1, <2>1, ListingsEquation
  <2> QED
    BY <2>2 DEF Nested, n
<1>2. ASSUME l < MAX_INCLUDE_LEVEL, f \in Possible(World[w])
      PROVE  LinesFrom(w, NewFrame(f), l + 1, 1) \subseteq Nested(w, l)[f]
  <2>1. n \in 1 .. MAX_INCLUDE_LEVEL /\ n - 1 = MAX_INCLUDE_LEVEL - (l + 1)
    BY <1>2, BoundsAssumption
  <2>2. FileListings(f, World[w], Nested(w, l + 1)) \subseteq Nested(w, l)[f]
    <3> DEFINE L == Listings(World[w])
    <3>1. \A k \in 1 .. MAX_INCLUDE_LEVEL : FileListings(f, World[w], L[k - 1]) \subseteq L[k][f]
      BY <1>2, ListingsEquation
    <3> HIDE DEF L, n
    <3>2. FileListings(f, World[w], L[n - 1]) \subseteq L[n][f]
      BY <2>1, <3>1
    <3> QED
      BY <2>1, <3>2 DEF Nested, L, n
  <2>7. LinesFrom(w, NewFrame(f), l + 1, 1) = FileListings(f, World[w], Nested(w, l + 1))
    BY <1>2, WholeFile
  <2> QED
    BY <2>2, <2>7
<1> QED
  BY <1>1, <1>2

(* A file is read line by line.                                            *)
LEMMA LinesFromEquation ==
  ASSUME NEW w \in DOMAIN World, NEW fr \in Frames, NEW l \in 0 .. MAX_INCLUDE_LEVEL
  PROVE  LET n == Len(LinesIn(w, fr))
         IN  /\ LinesFrom(w, fr, l, n + 1) = {<<>>}
             /\ \A i \in 1 .. n + 1 : LinesFrom(w, fr, l, i) \in SomeListings
             /\ \A i \in 1 .. n :
                  LinesFrom(w, fr, l, i) =
                    Join(LineListings(LinesIn(w, fr)[i], World[w], Nested(w, l)),
                         LinesFrom(w, fr, l, i + 1))
<1> DEFINE n == Len(LinesIn(w, fr))
           Q == EachLine(LinesIn(w, fr), World[w], Nested(w, l))
           E == Endings(Q)
<1>1. LinesIn(w, fr) \in Seq(Lines) /\ n \in Nat /\ Nested(w, l) \in Nestings
  BY LinesInType, NestedType
<1>2. /\ Q \in Seq(SUBSET Seq(AllLines)) /\ Len(Q) = n
      /\ \A i \in 1 .. n : Q[i] = LineListings(LinesIn(w, fr)[i], World[w], Nested(w, l))
      /\ \A k \in 0 .. n : E[k] \in SomeListings
  BY <1>1, EachLineType
<1>3. \A i : LinesFrom(w, fr, l, i) = E[n + 1 - i]
  BY DEF LinesFrom
<1> HIDE DEF Q, n
<1>4. E[0] = {<<>>} /\ \A k \in 1 .. n : E[k] = Join(Q[n - k + 1], E[k - 1])
  BY <1>2, EndingsEquation
<1> HIDE DEF E
<1>5. LinesFrom(w, fr, l, n + 1) = {<<>>}
  <2>1. n + 1 - (n + 1) = 0
    BY <1>1
  <2> QED
    BY <1>3, <1>4, <2>1
<1>6. ASSUME NEW i \in 1 .. n + 1 PROVE LinesFrom(w, fr, l, i) \in SomeListings
  <2>1. n + 1 - i \in 0 .. n
    BY <1>1
  <2> QED
    BY <1>2, <1>3, <2>1
<1>7. ASSUME NEW i \in 1 .. n
      PROVE  LinesFrom(w, fr, l, i) =
               Join(LineListings(LinesIn(w, fr)[i], World[w], Nested(w, l)), LinesFrom(w, fr, l, i + 1))
  <2>1. n + 1 - i \in 1 .. n /\ n - (n + 1 - i) + 1 = i /\ (n + 1 - i) - 1 = n + 1 - (i + 1)
    BY <1>1
  <2>2. E[n + 1 - i] = Join(Q[n - (n + 1 - i) + 1], E[(n + 1 - i) - 1])
    BY <1>4, <2>1
  <2>3. E[n + 1 - i] = Join(Q[i], E[n + 1 - (i + 1)])
    BY <2>1, <2>2
  <2> QED
    BY <1>2, <1>3, <2>3
<1> QED
  BY <1>5, <1>6, <1>7 DEF n

(* What an activation reads after a return has listings.                   *)
LEMMA RestType ==
  ASSUME NEW w \in DOMAIN World, NEW fr \in Frames, NEW l \in 0 .. MAX_INCLUDE_LEVEL,
         fr.line <= Len(LinesIn(w, fr)), IsFiniteSet(fr.todo)
  PROVE  /\ DirRest(w, fr, l) \in SomeListings
         /\ LinesFrom(w, fr, l, fr.line + 1) \in SomeListings
         /\ Rest(w, fr, l) \in SomeListings
         /\ ~fr.dir => Rest(w, fr, l) = LinesFrom(w, fr, l, fr.line + 1)
<1>1. DirRest(w, fr, l) \in SomeListings
  BY NestedType, InDirectoryType, JustNothing DEF DirRest
<1>2. LinesFrom(w, fr, l, fr.line + 1) \in SomeListings
  <2>1. fr.line + 1 \in 1 .. Len(LinesIn(w, fr)) + 1
    BY LinesInType DEF Frames
  <2> QED
    BY <2>1, LinesFromEquation
<1>3. Rest(w, fr, l) \in SomeListings
  BY <1>1, <1>2, SomeJoined DEF Rest
<1>4. ~fr.dir => Rest(w, fr, l) = LinesFrom(w, fr, l, fr.line + 1)
  BY <1>2, JoinEmpty DEF Rest, DirRest, SomeListings
<1> QED
  BY <1>1, <1>2, <1>3, <1>4

-----------------------------------------------------------------------------
(* Reading on.                                                             *)
LEMMA CheckedFailure ==
  ASSUME NEW o \in AnOutcome, o.ret = "FAIL"
  PROVE  Checked(o) = o
BY DEF Checked, AnOutcome

(* The first line is read: the outcome is the one after it.                *)
LEMMA LeadsFirst ==
  ASSUME NEW M, NEW s, NEW o \in AnOutcome, NEW ln \in AllLines,
         NEW A \in SomeListings, NEW K \in SomeListings, Leads(M, s, o, Join({<<ln>>}, A), K)
  PROVE  Leads(M, s, After(ln, o, s), A, K)
<1> SUFFICES ASSUME NEW a \in A, NEW k \in K
             PROVE  Checked(Read(a \o k, After(ln, o, s), s)) \in M
  BY DEF Leads
<1>1. a \in Seq(AllLines) /\ k \in Seq(AllLines) /\ <<ln>> \in Seq(AllLines)
  BY DEF SomeListings
<1>2. <<ln>> \o a \in Join({<<ln>>}, A)
  BY Joined
<1>3. (<<ln>> \o a) \o k = <<ln>> \o (a \o k) /\ a \o k \in Seq(AllLines)
  BY <1>1, ConcatAssociative, ConcatProperties
<1>4. Checked(Read(<<ln>> \o (a \o k), o, s)) \in M
  BY <1>2, <1>3 DEF Leads
<1> QED
  BY <1>3, <1>4, ReadFirst

(* An outcome that is a failure is final.                                  *)
LEMMA LeadsToFailure ==
  ASSUME NEW M, NEW s, NEW o \in AnOutcome, o.ret = "FAIL",
         NEW A \in SomeListings, NEW K \in SomeListings, Leads(M, s, o, A, K)
  PROVE  o \in M
<1>1. PICK a \in A, k \in K : TRUE
  BY DEF SomeListings
<1>2. a \o k \in Seq(AllLines)
  BY ConcatProperties DEF SomeListings
<1>3. Checked(Read(a \o k, o, s)) \in M
  BY DEF Leads
<1> QED
  BY <1>2, <1>3, ReadAfterFailure, CheckedFailure

(* An included file is entered: what its includer has left is read after   *)
(* it.                                                                     *)
LEMMA LeadsInto ==
  ASSUME NEW M, NEW s, NEW o, NEW A \in SomeListings, NEW B \in SomeListings,
         NEW K \in SomeListings, Leads(M, s, o, Join(A, B), K)
  PROVE  Leads(M, s, o, A, Join(B, K))
<1> SUFFICES ASSUME NEW a \in A, NEW j \in Join(B, K)
             PROVE  Checked(Read(a \o j, o, s)) \in M
  BY DEF Leads
<1>1. PICK b \in B, k \in K : j = b \o k
  BY JoinParts
<1>2. a \in Seq(AllLines) /\ b \in Seq(AllLines) /\ k \in Seq(AllLines)
  BY <1>1 DEF SomeListings
<1>3. (a \o b) \o k = a \o j
  BY <1>1, <1>2, ConcatAssociative
<1>4. a \o b \in Join(A, B)
  BY Joined
<1> QED
  BY <1>1, <1>3, <1>4 DEF Leads

(* An included file is left: its includer reads what it has left.          *)
LEMMA LeadsBack ==
  ASSUME NEW M, NEW s, NEW o, NEW A \in SomeListings, NEW K \in SomeListings,
         NEW K0 \in SomeListings, Join(A, K0) \subseteq K, Leads(M, s, o, {<<>>}, K)
  PROVE  Leads(M, s, o, A, K0)
<1> SUFFICES ASSUME NEW a \in A, NEW k \in K0
             PROVE  Checked(Read(a \o k, o, s)) \in M
  BY DEF Leads
<1>1. a \o k \in K /\ a \o k \in Seq(AllLines)
  BY Joined, ConcatProperties DEF SomeListings
<1>2. <<>> \o (a \o k) = a \o k
  BY <1>1, ConcatEmptySeq
<1> QED
  BY <1>1, <1>2 DEF Leads

(* A choice has been made among the listings.                              *)
LEMMA LeadsFewer ==
  ASSUME NEW M, NEW s, NEW o, NEW A, NEW B, NEW K, B \subseteq A, Leads(M, s, o, A, K)
  PROVE  Leads(M, s, o, B, K)
BY DEF Leads

-----------------------------------------------------------------------------
(* Where the lines are: no activation that is suspended, or is busy with a *)
(* line, is past its last line, and an Include line stays the current line *)
(* while it is followed.                                                   *)
InLines ==
  \A l \in 1 .. depth :
    /\ frame[l].line <= Len(LinesIn(disk, frame[l])) + (IF l = depth /\ pc = "line" THEN 1 ELSE 0)
    /\ IsFiniteSet(frame[l].todo)

Placed ==
  /\ InLines
  /\ pc \in {"glob", "stat", "opendir"} => Line.kind = "include" /\ Top.glob = Line.glob
  /\ pc \in {"stat", "opendir"} => Top.glob.form # "bad"
  /\ pc = "stat" => Top.ptrs = GlobStrings(Top.glob)
  /\ pc = "match" => Line.kind = "set"

(* What the innermost activation is still to read.                         *)
Ahead ==
  CASE pc \in {"line", "glob", "stat", "opendir"} -> LinesFrom(disk, Top, depth, Top.line)
    [] pc \in {"match", "clean"} -> LinesFrom(disk, Top, depth, Top.line + 1)
    [] pc = "close" -> Join(Closing(Top.glob.path), LinesFrom(disk, Top, depth, Top.line + 1))
    [] pc \in {"readdir", "return"}               -> Rest(disk, Top, depth)
    [] pc = "call" -> Join(Nested(disk, depth)[arg], Rest(disk, Top, depth))

(* K[l] is what is read once the activation of level l + 1 has returned.   *)
Follow(K) ==
  /\ K \in [0 .. MAX_INCLUDE_LEVEL -> SomeListings] /\ K[0] = {<<>>}
  /\ \A l \in 1 .. depth - 1 : Join(Rest(disk, frame[l], l), K[l - 1]) \subseteq K[l]

(* v are the values before the assignment that is being made.              *)
Passed     == {e \in Setters(Line) : e < entry}
Halfway(v) ==
  /\ Passed \cap Rejects(Line) = {}
  /\ vals = Assign(Line, v, Passed)
  /\ Top.value = IF \E d \in Passed : cfg[d].type = "STRING_LIST"
                   THEN trimmed[Line.value] ELSE Line.value

Targets == Meaning(Disk, strict, optional)

Promise(K) ==
  /\ pc # "match" => Leads(Targets, strict, Result, Ahead, K[depth - 1])
  /\ pc = "match" =>
       \E v \in Variables :
         /\ Halfway(v)
         /\ Leads(Targets, strict, AssignmentMeaning(Line, v, strict), Ahead, K[depth - 1])

(* Reading what is ahead of a reader that has not failed yields one of the *)
(* meanings of the configuration.                                          *)
Story ==
  /\ Result \in AnOutcome
  /\ pc = "done" \/ ret = "FAIL" \/ (pc = "return" /\ depth = 0) => Result \in Targets
  /\ pc = "mandatory" => Checked(Result) \in Targets
  /\ pc = "call" /\ depth = 0 => Result = Initial /\ arg = Disk.main
  /\ depth > 0 /\ ret = "SUCCEED" /\ pc \notin Stops => \E K : Follow(K) /\ Promise(K)

(* The files that are there all the time are there, no others can be.      *)
Existing == Stable(Disk) \subseteq present /\ present \subseteq Possible(Disk)

(* malloc failed, and the reader is on its way out.                        *)
Lost == MayRunOutOfMemory /\ ret = "FAIL"

-----------------------------------------------------------------------------
(* The innermost activation, its frame, and its line.                      *)
LEMMA TopFacts ==
  ASSUME Inv, Placed, depth > 0
  PROVE  /\ depth \in Levels /\ depth \in 0 .. MAX_INCLUDE_LEVEL /\ depth - 1 \in 0 .. MAX_INCLUDE_LEVEL
         /\ disk \in DOMAIN World /\ Top \in Frames /\ Top = frame[depth]
         /\ Top.line \in Nat \ {0} /\ IsFiniteSet(Top.todo)
         /\ Top.line <= Len(LinesIn(disk, Top)) + (IF pc = "line" THEN 1 ELSE 0)
         /\ Line = LinesIn(disk, Top)[Top.line]
         /\ AtEOF <=> Top.line > Len(LinesIn(disk, Top))
         /\ pc \notin {"line", "match"} => Top.glob \in Globs
<1>1. /\ depth \in Levels /\ depth \in 0 .. MAX_INCLUDE_LEVEL /\ depth - 1 \in 0 .. MAX_INCLUDE_LEVEL
      /\ depth \in 1 .. depth /\ disk \in DOMAIN World /\ Top = frame[depth]
  BY BoundsAssumption DEF Inv, TypeOK, Levels, Top
<1>2. frame[depth] \in Frames /\ (pc \notin {"line", "match"} => frame[depth].glob \in Globs)
  BY <1>1 DEF Inv, StackInv, Waiting
<1>3. /\ IsFiniteSet(frame[depth].todo)
      /\ frame[depth].line <= Len(LinesIn(disk, frame[depth])) + (IF pc = "line" THEN 1 ELSE 0)
  BY <1>1 DEF Placed, InLines
<1>4. Top.line \in Nat \ {0}
  BY <1>1, <1>2 DEF Frames
<1> QED
  BY <1>1, <1>2, <1>3, <1>4 DEF Line, AtEOF, LinesIn, Disk

(* The line an activation is busy with.                                    *)
LEMMA AtLine ==
  ASSUME Inv, Placed, depth > 0, pc # "line" \/ ~AtEOF
  PROVE  /\ Top.line \in 1 .. Len(LinesIn(disk, Top)) /\ Line \in Lines
         /\ LinesFrom(disk, Top, depth, Top.line + 1) \in SomeListings
         /\ LinesFrom(disk, Top, depth, Top.line) =
              Join(LineListings(Line, Disk, Nested(disk, depth)),
                   LinesFrom(disk, Top, depth, Top.line + 1))
<1> DEFINE n == Len(LinesIn(disk, Top))
<1>1. /\ disk \in DOMAIN World /\ Top \in Frames /\ depth \in 0 .. MAX_INCLUDE_LEVEL
      /\ Top.line \in Nat \ {0} /\ Top.line <= n + (IF pc = "line" THEN 1 ELSE 0)
      /\ Line = LinesIn(disk, Top)[Top.line] /\ (AtEOF <=> Top.line > n)
  BY TopFacts
<1>2. n \in Nat /\ \A i \in 1 .. n : LinesIn(disk, Top)[i] \in Lines
  BY <1>1, LinesInType
<1>3. Top.line \in 1 .. n /\ Top.line + 1 \in 1 .. n + 1
  BY <1>1, <1>2
<1>4. Line \in Lines
  BY <1>1, <1>2, <1>3
<1> QED
  BY <1>1, <1>3, <1>4, LinesFromEquation DEF Disk

(* The caller's arguments and the file system have not changed.            *)
LEMMA EnvSame ==
  ASSUME UNCHANGED env
  PROVE  disk' = disk /\ present' = present /\ optional' = optional /\ strict' = strict /\ Targets' = Targets /\ Disk' = Disk
BY DEF env, Targets, Disk

(* Replacing the innermost frame, and leaving it.                          *)
LEMMA UpdateFacts ==
  ASSUME Inv, depth > 0, NEW f, Update(f), depth' = depth
  PROVE  Top' = f /\ \A l \in 1 .. depth - 1 : frame'[l] = frame[l]
<1>1. depth \in Levels /\ depth \in Nat /\ frame \in [Levels -> Frames \cup {NoFrame}]
  BY BoundsAssumption DEF Inv, TypeOK, Levels
<1> QED
  BY <1>1 DEF Update, Top

(* Leaving the innermost frame.                                            *)
LEMMA CloseFacts ==
  ASSUME Inv, depth > 0, Close
  PROVE  depth' = depth - 1 /\ \A l \in 1 .. depth - 1 : frame'[l] = frame[l]
<1>1. depth \in Levels /\ depth \in Nat /\ frame \in [Levels -> Frames \cup {NoFrame}]
  BY BoundsAssumption DEF Inv, TypeOK, Levels
<1> QED
  BY <1>1 DEF Close

(* What is read after the returns does not change with the innermost       *)
(* frame.                                                                  *)
LEMMA FollowSame ==
  ASSUME Inv, NEW K, Follow(K), UNCHANGED env, depth' \in Nat, depth' <= depth,
         \A l \in 1 .. depth - 1 : frame'[l] = frame[l]
  PROVE  Follow(K)'
<1>1. depth \in Nat /\ disk' = disk
  BY EnvSame DEF Inv, TypeOK
<1>2. PICK d : d = depth'
  OBVIOUS
<1>3. d \in Nat /\ d <= depth
  BY <1>2
<1>4. \A l \in 1 .. d - 1 : l \in 1 .. depth - 1
  BY <1>1, <1>3
<1> QED
  BY <1>1, <1>2, <1>4 DEF Follow

(* A step that fails, with an outcome the configuration may have.          *)
LEMMA Fails ==
  ASSUME Inv, Story, UNCHANGED env, vals' = vals, ret' = "FAIL", pc' \notin {"mandatory", "call"},
         [ret |-> "FAIL", vals |-> vals] \in Targets
  PROVE  Story'
<1>1. Result' = [ret |-> "FAIL", vals |-> vals]
  BY DEF Result
<1>2. Result' \in AnOutcome
  BY <1>1 DEF Story, AnOutcome, Result
<1> QED
  BY <1>1, <1>2, EnvSame DEF Story

(* A step of a reader that has already failed.                             *)
LEMMA KeepsFailing ==
  ASSUME Inv, Story, UNCHANGED env, vals' = vals, ret = "FAIL", ret' = "FAIL",
         pc' \notin {"mandatory", "call"}
  PROVE  Story'
<1>1. [ret |-> "FAIL", vals |-> vals] \in Targets
  BY DEF Story, Result
<1> QED
  BY <1>1, Fails

(* What a running reader has been promised, for a leaf to pick.            *)
LEMMA Promised ==
  ASSUME Inv, Placed, Story, depth > 0, ret = "SUCCEED", pc \notin Stops
  PROVE  \E K : /\ Follow(K) /\ Promise(K) /\ K[depth - 1] \in SomeListings
                /\ Result \in AnOutcome
<1>1. PICK K : Follow(K) /\ Promise(K)
  BY DEF Story
<1>2. K[depth - 1] \in SomeListings
  BY <1>1, TopFacts DEF Follow
<1> QED
  BY <1>1, <1>2 DEF Story

(* The line that is read next fails, in whatever way.                      *)
LEMMA FailsAtLine ==
  ASSUME Inv, Placed, Story, depth > 0, ret = "SUCCEED", pc \notin Stops \cup {"match"},
         NEW ln \in AllLines, NEW A \in SomeListings, Join({<<ln>>}, A) \subseteq Ahead,
         After(ln, Result, strict) = [ret |-> "FAIL", vals |-> vals]
  PROVE  [ret |-> "FAIL", vals |-> vals] \in Targets
<1>1. PICK K : /\ Follow(K) /\ Promise(K) /\ K[depth - 1] \in SomeListings
               /\ Result \in AnOutcome
  BY Promised
<1>2. Leads(Targets, strict, Result, Join({<<ln>>}, A), K[depth - 1])
  BY <1>1, LeadsFewer DEF Promise
<1>3. Leads(Targets, strict, After(ln, Result, strict), A, K[depth - 1])
  BY <1>1, <1>2, LeadsFirst
<1>4. After(ln, Result, strict) \in AnOutcome
  BY <1>1, AfterType
<1> QED
  BY <1>1, <1>3, <1>4, LeadsToFailure

(* An Include that cannot be followed fails.                               *)
LEMMA FailureAt ==
  ASSUME Inv, Placed, Story, depth > 0, ret = "SUCCEED", pc \notin Stops \cup {"match"},
         NEW A \in SomeListings, Join({<<Failure>>}, A) \subseteq Ahead
  PROVE  [ret |-> "FAIL", vals |-> vals] \in Targets
<1>1. Failure \in AllLines
  BY DEF AllLines
<1>2. After(Failure, Result, strict) = [ret |-> "FAIL", vals |-> vals]
  BY DEF After, Failure, Result
<1> QED
  BY <1>1, <1>2, FailsAtLine

(* A step that leaves the values alone and reads on.                       *)
LEMMA ReadsOn ==
  ASSUME Inv, Placed, Story, UNCHANGED env, vals' = vals, ret = "SUCCEED", ret' = ret,
         depth > 0, depth' = depth, \A l \in 1 .. depth - 1 : frame'[l] = frame[l],
         pc \notin Stops \cup {"match"}, pc' \notin Stops \cup {"match", "mandatory"},
         Ahead' \subseteq Ahead
  PROVE  Story'
<1>1. PICK K : /\ Follow(K) /\ Promise(K) /\ K[depth - 1] \in SomeListings
               /\ Result \in AnOutcome
  BY Promised
<1>2. Follow(K)'
  <2>1. depth' \in Nat /\ depth' <= depth
    BY DEF Inv, TypeOK
  <2> QED
    BY <1>1, <2>1, FollowSame
<1>3. Result' = Result
  BY DEF Result
<1>4. Leads(Targets, strict, Result, Ahead', K[depth - 1])
  <2>1. Leads(Targets, strict, Result, Ahead, K[depth - 1])
    BY <1>1 DEF Promise
  <2> QED
    BY <2>1, LeadsFewer
<1>5. Promise(K)'
  BY <1>3, <1>4, EnvSame DEF Promise
<1> QED
  BY <1>2, <1>3, <1>5, EnvSame DEF Story, Stops

-----------------------------------------------------------------------------
(* Steps that stay in the line they are at, replace the innermost frame,   *)
(* leave it, or push one.                                                  *)
LEMMA InLinesSame ==
  ASSUME Inv, InLines, UNCHANGED <<env, stack>>, pc # "line"
  PROVE  InLines'
<1>1. disk' = disk /\ depth' = depth /\ frame' = frame
  BY DEF env, stack
<1>2. ASSUME NEW l \in 1 .. depth
      PROVE  /\ frame[l].line <= Len(LinesIn(disk, frame[l])) /\ IsFiniteSet(frame[l].todo)
             /\ frame[l].line \in Nat /\ Len(LinesIn(disk, frame[l])) \in Nat
  <2>1. disk \in DOMAIN World /\ frame[l] \in Frames
    BY DEF Inv, TypeOK, StackInv
  <2>2. frame[l].line \in Nat /\ Len(LinesIn(disk, frame[l])) \in Nat
    BY <2>1, LinesInType DEF Frames
  <2> QED
    BY <2>2 DEF InLines
<1> QED
  BY <1>1, <1>2 DEF InLines

(* A new frame that is within its file.                                    *)
LEMMA InLinesUpdated ==
  ASSUME Inv, InLines, UNCHANGED env, depth > 0, depth' = depth, NEW f, Update(f),
         f.line <= Len(LinesIn(disk, f)) + (IF pc' = "line" THEN 1 ELSE 0), IsFiniteSet(f.todo)
  PROVE  InLines'
<1>1. disk' = disk /\ depth \in Nat
  BY DEF env, Inv, TypeOK
<1>2. frame'[depth] = f /\ \A l \in 1 .. depth - 1 : frame'[l] = frame[l]
  BY UpdateFacts DEF Top
<1>3. ASSUME NEW l \in 1 .. depth, l # depth
      PROVE  /\ frame'[l].line <= Len(LinesIn(disk, frame'[l])) + 0
             /\ IsFiniteSet(frame'[l].todo)
  <2>1. l \in 1 .. depth - 1
    BY <1>1, <1>3
  <2> QED
    BY <1>2, <1>3, <2>1 DEF InLines
<1> QED
  BY <1>1, <1>2, <1>3 DEF InLines

(* The activation that is returned to is at a line.                        *)
LEMMA InLinesClosed ==
  ASSUME Inv, InLines, UNCHANGED env, depth > 0, Close, pc' # "line"
  PROVE  InLines'
<1>1. disk' = disk /\ depth \in Nat
  BY DEF env, Inv, TypeOK
<1>2. depth' = depth - 1 /\ \A l \in 1 .. depth - 1 : frame'[l] = frame[l]
  BY CloseFacts
<1>3. ASSUME NEW l \in 1 .. depth - 1
      PROVE  /\ frame[l].line <= Len(LinesIn(disk, frame[l])) + 0
             /\ IsFiniteSet(frame[l].todo)
  <2>1. l \in 1 .. depth /\ l # depth
    BY <1>1
  <2> QED
    BY <2>1 DEF InLines
<1> QED
  BY <1>1, <1>2, <1>3 DEF InLines

(* The frame of a file that was opened.                                    *)
LEMMA OpenFacts ==
  ASSUME Inv, Open
  PROVE  /\ depth \in 0 .. MAX_INCLUDE_LEVEL /\ depth < MAX_INCLUDE_LEVEL /\ depth' = depth + 1
         /\ frame'[depth + 1] = NewFrame(arg) /\ Top' = NewFrame(arg) /\ arg \in Files
         /\ NewFrame(arg) \in Frames
         /\ \A l \in 1 .. depth : frame'[l] = frame[l]
<1>1. /\ depth \in 0 .. MAX_INCLUDE_LEVEL /\ depth < MAX_INCLUDE_LEVEL /\ depth + 1 \in Levels
      /\ frame \in [Levels -> Frames \cup {NoFrame}] /\ arg \in Files
  BY BoundsAssumption DEF Inv, TypeOK, Levels, Open
<1>2. NewFrame(arg) \in Frames
  BY <1>1 DEF NewFrame, Frames
<1>3. depth' = depth + 1 /\ frame' = [frame EXCEPT ![depth + 1] = NewFrame(arg)]
  BY DEF Open
<1>4. frame'[depth + 1] = NewFrame(arg)
  BY <1>1, <1>3
<1>5. ASSUME NEW l \in 1 .. depth PROVE frame'[l] = frame[l]
  <2>1. l \in Levels /\ l # depth + 1
    BY <1>1, BoundsAssumption DEF Levels
  <2> QED
    BY <1>1, <1>3, <2>1
<1> QED
  BY <1>1, <1>2, <1>3, <1>4, <1>5 DEF Top

(* A file that was opened is at its first line.                            *)
LEMMA InLinesOpened ==
  ASSUME Inv, InLines, Open
  PROVE  InLines'
<1>1. disk' = disk /\ depth \in Nat /\ pc = "call" /\ pc' = "line" /\ disk \in DOMAIN World
  BY DEF env, Inv, TypeOK, Open
<1>2. /\ depth' = depth + 1 /\ frame'[depth + 1] = NewFrame(arg) /\ NewFrame(arg) \in Frames
      /\ \A l \in 1 .. depth : frame'[l] = frame[l]
  BY OpenFacts
<1>3. Len(LinesIn(disk, NewFrame(arg))) \in Nat
  BY <1>1, <1>2, LinesInType
<1>4. /\ NewFrame(arg).line <= Len(LinesIn(disk, NewFrame(arg))) + 1
      /\ IsFiniteSet(NewFrame(arg).todo)
  BY <1>3, FS_EmptySet DEF NewFrame
<1>5. ASSUME NEW l \in 1 .. depth
      PROVE  /\ frame[l].line <= Len(LinesIn(disk, frame[l])) + 0
             /\ IsFiniteSet(frame[l].todo)
  BY <1>1 DEF InLines
<1>6. \A l \in 1 .. depth + 1 : l # depth + 1 => l \in 1 .. depth
  BY <1>1
<1> QED
  BY <1>1, <1>2, <1>4, <1>5, <1>6 DEF InLines

(* A new frame for the innermost activation that is at the same line.      *)
LEMMA SameLineFacts ==
  ASSUME Inv, Placed, depth > 0, UNCHANGED env, depth' = depth, NEW f, Update(f),
         f.file = Top.file, f.line = Top.line
  PROVE  LinesIn(disk, f) = LinesIn(disk, Top) /\ Line' = Line /\ Top' = f
<1>1. Top' = f /\ Disk' = Disk
  BY UpdateFacts, EnvSame
<1> QED
  BY <1>1 DEF LinesIn, Line

(* Every step keeps the positions right.                                   *)
LEMMA PlacedPreserved ==
  ASSUME Inv, Placed, [Next]_vars
  PROVE  Placed'
<1> USE DEF Placed
<1>1. /\ pc \in InFile => depth > 0
      /\ depth > 0 => /\ Top \in Frames /\ Top.line \in Nat \ {0} /\ IsFiniteSet(Top.todo)
                      /\ Top.line <= Len(LinesIn(disk, Top)) + (IF pc = "line" THEN 1 ELSE 0)
                      /\ Len(LinesIn(disk, Top)) \in Nat
                      /\ AtEOF <=> Top.line > Len(LinesIn(disk, Top))
  BY TopFacts, LinesInType DEF Inv, StackInv, Where
<1>2. ASSUME pc \in InFile, pc # "line"
      PROVE  Top.line <= Len(LinesIn(disk, Top))
  BY <1>1, <1>2
<1>3. ASSUME UNCHANGED env, depth > 0, depth' = depth, NEW f, Update(f), f.file = Top.file,
             f.line = Top.line, Top.line <= Len(LinesIn(disk, Top)), IsFiniteSet(f.todo)
      PROVE  InLines' /\ Line' = Line /\ Top' = f
  <2>1. LinesIn(disk, f) = LinesIn(disk, Top) /\ Line' = Line /\ Top' = f
    BY <1>3, SameLineFacts
  <2>2. f.line <= Len(LinesIn(disk, f)) + (IF pc' = "line" THEN 1 ELSE 0)
    BY <1>1, <1>3, <2>1
  <2> QED
    BY <1>3, <2>1, <2>2, InLinesUpdated
<1>4. ASSUME UNCHANGED env, pc \in InFile, depth' = depth, pc' = "line", Update(NextLine),
             Top.line <= Len(LinesIn(disk, Top))
      PROVE  Placed'
  <2>1. /\ LinesIn(disk, NextLine) = LinesIn(disk, Top)
        /\ NextLine.line = Top.line + 1 /\ NextLine.todo = Top.todo
    BY <1>1, <1>4 DEF NextLine, LinesIn, Frames
  <2>2. NextLine.line <= Len(LinesIn(disk, NextLine)) + (IF pc' = "line" THEN 1 ELSE 0)
    BY <1>1, <1>4, <2>1
  <2> QED
    BY <1>1, <1>4, <2>1, <2>2, InLinesUpdated
<1>5. ASSUME UNCHANGED <<env, stack>>, pc # "line",
             pc' \notin {"glob", "stat", "opendir", "match"}
      PROVE  Placed'
  BY <1>5, InLinesSame
<1>6. ASSUME UNCHANGED env, pc \in InFile, Close, pc' \in {"return", "mandatory"}
      PROVE  Placed'
  BY <1>1, <1>6, InLinesClosed
<1>7. CASE \/ RecursionDetected \/ NoFileGiven \/ CannotOpen \/ BadGlob \/ StatFails \/ StatFile
           \/ DoubleFree \/ EndOfDir \/ ReturnToObject \/ ReturnToDir
           \/ ReturnToCaller \/ CheckMandatory
  BY <1>5, <1>7
  DEF RecursionDetected, NoFileGiven, CannotOpen, BadGlob, StatFails, StatFile, DoubleFree,
      EndOfDir, ReturnToObject, ReturnToDir, ReturnToCaller, CheckMandatory, Return
<1>8. CASE CannotOpenDir \/ ReadDirOutOfMemory
  BY <1>5, <1>8 DEF CannotOpenDir, ReadDirOutOfMemory
<1>25. CASE CopyStringError
  BY <1>6, <1>25 DEF CopyStringError, Matching, Error, Return, InFile
<1>26. CASE OtherProcess
  BY <1>26 DEF OtherProcess, stack, InLines, Line, Top, Disk
<1>27. CASE ParseGlobOutOfMemory
  <2>1. pc = "glob" /\ pc' = "clean" /\ UNCHANGED env /\ depth' = depth
    BY <1>27 DEF ParseGlobOutOfMemory
  <2>2. CASE UNCHANGED frame
    BY <1>5, <2>1, <2>2 DEF stack
  <2>3. CASE Update([Top EXCEPT !.ptrs = {"path"}])
    <3> DEFINE f == [Top EXCEPT !.ptrs = {"path"}]
    <3>1. f.file = Top.file /\ f.line = Top.line /\ f.todo = Top.todo /\ depth > 0
      BY <1>1, <2>1 DEF InFile, Frames
    <3>2. Top.line <= Len(LinesIn(disk, Top)) /\ Update(f)
      BY <1>2, <2>1, <2>3 DEF InFile
    <3> HIDE DEF f
    <3>3. InLines'
      BY <1>1, <1>3, <2>1, <3>1, <3>2
    <3> QED
      BY <2>1, <3>3
  <2> QED
    BY <1>27, <2>2, <2>3 DEF ParseGlobOutOfMemory
<1>9. CASE Open
  <2>1. InLines' /\ pc' = "line"
    BY <1>9, InLinesOpened DEF Open
  <2> QED
    BY <2>1
<1>10. CASE SkipLine
  BY <1>1, <1>4, <1>10 DEF SkipLine, InFile
<1>11. CASE InvalidLine \/ IncorrectConfig
  BY <1>6, <1>11 DEF InvalidLine, IncorrectConfig, Matching, Error, Return, InFile
<1>12. CASE IncludeLine
  <2> DEFINE f == [Top EXCEPT !.glob = Line.glob]
  <2>1. f.file = Top.file /\ f.line = Top.line /\ f.todo = Top.todo /\ f.glob = Line.glob
    BY <1>1, <1>12 DEF IncludeLine, InFile, Frames
  <2>2. /\ UNCHANGED env /\ depth > 0 /\ depth' = depth /\ Update(f) /\ pc' = "glob"
        /\ Line.kind = "include" /\ Top.line <= Len(LinesIn(disk, Top))
    BY <1>1, <1>12 DEF IncludeLine, InFile
  <2> HIDE DEF f
  <2>3. InLines' /\ Line' = Line /\ Top' = f
    BY <1>1, <1>3, <2>1, <2>2
  <2> QED
    BY <2>1, <2>2, <2>3
<1>13. CASE AssignmentLine
  <2> DEFINE f == [Top EXCEPT !.value = Line.value]
  <2>1. f.file = Top.file /\ f.line = Top.line /\ f.todo = Top.todo
    BY <1>1, <1>13 DEF AssignmentLine, InFile, Frames
  <2>2. /\ UNCHANGED env /\ depth > 0 /\ depth' = depth /\ Update(f) /\ pc' = "match"
        /\ Line.kind = "set" /\ Top.line <= Len(LinesIn(disk, Top))
    BY <1>1, <1>13 DEF AssignmentLine, InFile
  <2> HIDE DEF f
  <2>3. InLines' /\ Line' = Line
    BY <1>1, <1>3, <2>1, <2>2
  <2> QED
    BY <2>2, <2>3
<1>14. CASE EndOfFile
  BY <1>6, <1>14 DEF EndOfFile, Return, InFile
<1>15. CASE OtherParameter \/ StoreNumber \/ StoreString \/ StoreMultistring
  <2>1. UNCHANGED <<env, stack>> /\ pc = "match" /\ pc' = pc
    BY <1>15 DEF OtherParameter, StoreNumber, StoreString, StoreMultistring, Store, Matching, stack
  <2>2. InLines'
    BY <2>1, InLinesSame
  <2>3. Line' = Line
    BY <2>1 DEF Line, Top, Disk, env, stack
  <2> QED
    BY <2>1, <2>2, <2>3
<1>16. CASE StoreStringList
  <2> DEFINE f == [Top EXCEPT !.value = trimmed[@]]
  <2>1. f.file = Top.file /\ f.line = Top.line /\ f.todo = Top.todo
    BY <1>1, <1>16 DEF StoreStringList, Matching, InFile, Frames
  <2>2. /\ UNCHANGED env /\ depth > 0 /\ depth' = depth /\ Update(f) /\ pc = "match" /\ pc' = pc
        /\ Top.line <= Len(LinesIn(disk, Top))
    BY <1>1, <1>2, <1>16 DEF StoreStringList, Store, Matching, InFile
  <2> HIDE DEF f
  <2>3. InLines' /\ Line' = Line
    BY <1>1, <1>3, <2>1, <2>2
  <2> QED
    BY <2>2, <2>3
<1>17. CASE EndOfTable
  <2>1. pc = "match" /\ pc \in InFile /\ UNCHANGED env
    BY <1>17 DEF EndOfTable, InFile
  <2>2. CASE Error
    BY <1>6, <2>1, <2>2 DEF Error, Return
  <2>3. CASE Update(NextLine) /\ pc' = "line" /\ depth' = depth
    BY <1>2, <1>4, <2>1, <2>3
  <2> QED
    BY <1>17, <2>2, <2>3 DEF EndOfTable
<1>18. CASE ParseGlob
  <2> DEFINE f == [Top EXCEPT !.ptrs = GlobStrings(Top.glob)]
  <2>1. /\ f.file = Top.file /\ f.line = Top.line /\ f.todo = Top.todo /\ f.glob = Top.glob
        /\ f.ptrs = GlobStrings(Top.glob)
    BY <1>1, <1>18 DEF ParseGlob, InFile, Frames
  <2>2. /\ UNCHANGED env /\ depth > 0 /\ depth' = depth /\ Update(f) /\ pc = "glob" /\ pc' = "stat"
        /\ Top.glob.form # "bad" /\ Top.line <= Len(LinesIn(disk, Top))
    BY <1>1, <1>2, <1>18 DEF ParseGlob, InFile
  <2> HIDE DEF f
  <2>3. InLines' /\ Line' = Line /\ Top' = f
    BY <1>1, <1>3, <2>1, <2>2
  <2> QED
    BY <2>1, <2>2, <2>3
<1>19. CASE StatDir
  <2>1. UNCHANGED <<env, stack>> /\ pc = "stat" /\ pc' = "opendir"
    BY <1>19 DEF StatDir
  <2>2. InLines'
    BY <2>1, InLinesSame
  <2>3. Line' = Line /\ Top' = Top
    BY <2>1 DEF Line, Top, Disk, env, stack
  <2> QED
    BY <2>1, <2>2, <2>3
<1>20. CASE Clean
  <2>1. pc = "clean" /\ pc \in InFile /\ UNCHANGED env
    BY <1>20 DEF Clean, InFile
  <2>2. CASE Error
    BY <1>6, <2>1, <2>2 DEF Error, Return
  <2>3. CASE Update(NextLine) /\ pc' = "line" /\ depth' = depth
    BY <1>2, <1>4, <2>1, <2>3
  <2> QED
    BY <1>20, <2>2, <2>3 DEF Clean
<1>21. CASE OpenDir
  <2> DEFINE f == [Top EXCEPT !.dir = TRUE, !.todo = Disk.members[Top.glob.path]]
  <2>1. /\ f.file = Top.file /\ f.line = Top.line /\ f.todo = Disk.members[Top.glob.path]
        /\ pc \in InFile
    BY <1>1, <1>21 DEF OpenDir, InFile, Frames
  <2>2. /\ UNCHANGED env /\ depth > 0 /\ depth' = depth /\ Update(f) /\ pc' = "readdir"
        /\ Top.line <= Len(LinesIn(disk, Top))
    BY <1>1, <1>2, <1>21 DEF OpenDir, InFile
  <2> HIDE DEF f
  <2>3. IsFiniteSet(f.todo)
    BY <1>21, <2>1, TreeAssumption DEF OpenDir, Inv, StackInv, Where, TypeOK, Disk
  <2>4. InLines'
    BY <1>1, <1>3, <2>1, <2>2, <2>3
  <2> QED
    BY <2>2, <2>4
<1>22. CASE ReadDir
  <2>1. PICK p \in Top.todo : Update([Top EXCEPT !.todo = @ \ {p}])
    BY <1>22 DEF ReadDir
  <2> DEFINE f == [Top EXCEPT !.todo = @ \ {p}]
  <2>2. /\ UNCHANGED env /\ depth > 0 /\ depth' = depth /\ Update(f) /\ pc' \in {"readdir", "call"}
        /\ Top.line <= Len(LinesIn(disk, Top))
    BY <1>1, <1>2, <1>22, <2>1 DEF ReadDir, InFile
  <2>3. f.file = Top.file /\ f.line = Top.line /\ f.todo = Top.todo \ {p}
    BY <1>1, <2>2 DEF Frames
  <2> HIDE DEF f
  <2>4. IsFiniteSet(f.todo)
    BY <1>1, <2>2, <2>3, FS_RemoveElement
  <2>5. InLines'
    BY <1>3, <2>2, <2>3, <2>4
  <2> QED
    BY <2>2, <2>5
<1>23. CASE CloseDir
  <2> DEFINE f == [Top EXCEPT !.dir = FALSE, !.todo = {}]
  <2>1. f.file = Top.file /\ f.line = Top.line /\ f.todo = {}
    BY <1>1, <1>23 DEF CloseDir, InFile, Frames
  <2>2. /\ UNCHANGED env /\ depth > 0 /\ depth' = depth /\ Update(f) /\ pc' = "clean"
        /\ Top.line <= Len(LinesIn(disk, Top))
    BY <1>1, <1>2, <1>23 DEF CloseDir, InFile
  <2> HIDE DEF f
  <2>3. InLines'
    BY <1>3, <2>1, <2>2, FS_EmptySet
  <2> QED
    BY <2>2, <2>3
<1>24. CASE UNCHANGED vars
  BY <1>24 DEF vars, env, stack, InLines, Line, Top, Disk
<1> QED
  BY <1>7, <1>8, <1>9, <1>10, <1>11, <1>12, <1>13, <1>14, <1>15, <1>16, <1>17, <1>18, <1>19,
     <1>20, <1>21, <1>22, <1>23, <1>24, <1>25, <1>26, <1>27
  DEF Next, Parse, Stopped

(* Another process only touches the files it may touch.                    *)
LEMMA ExistingPreserved ==
  ASSUME Existing, [Next]_vars
  PROVE  Existing'
<1>1. CASE UNCHANGED env
  BY <1>1, EnvSame DEF Existing
<1>2. CASE OtherProcess
  <2>1. disk' = disk /\ Disk' = Disk
    BY <1>2 DEF OtherProcess, Disk
  <2>2. PICK f \in Volatile : present' \in {present \ {f}, present \cup {f}}
    BY <1>2 DEF OtherProcess
  <2>3. Stable(Disk) \subseteq present' /\ present' \subseteq Possible(Disk)
    BY <2>2 DEF Existing, Stable, Possible
  <2> QED
    BY <2>1, <2>3 DEF Existing
<1>3. Parse => UNCHANGED env
  BY DEF Parse, RecursionDetected, NoFileGiven, CannotOpen, Open, SkipLine, InvalidLine,
     IncludeLine, AssignmentLine, EndOfFile, OtherParameter, IncorrectConfig, StoreNumber,
     StoreString, StoreStringList, StoreMultistring, Store, CopyStringError, EndOfTable,
     ParseGlob, BadGlob, ParseGlobOutOfMemory, StatFails, StatFile, StatDir, Clean,
     DoubleFree, OpenDir, CannotOpenDir, ReadDir, ReadDirOutOfMemory, EndOfDir, CloseDir,
     ReturnToObject, ReturnToDir, ReturnToCaller, CheckMandatory
<1> QED
  BY <1>1, <1>2, <1>3 DEF Next, Stopped, vars

-----------------------------------------------------------------------------
(* The loop over the table.                                                *)
LEMMA HalfwayValue ==
  ASSUME Inv, NEW v, Halfway(v), entry \in Setters(Line), Line \in Lines, Line.kind = "set"
  PROVE  Value(Line, entry) = IF cfg[entry].type = "STRING_LIST" THEN trimmed[Top.value]
                                                                 ELSE Top.value
<1>1. \A d \in Setters(Line) : d \in Int /\ (d <= entry <=> d < entry \/ d = entry)
  BY DEF Setters, Entries
<1>2. (\E d \in Setters(Line) : d <= entry /\ cfg[d].type = "STRING_LIST")
        <=> (\E d \in Passed : cfg[d].type = "STRING_LIST") \/ cfg[entry].type = "STRING_LIST"
  BY <1>1 DEF Passed
<1>3. Line.value \in Texts /\ trimmed[trimmed[Line.value]] = trimmed[Line.value]
  BY TrimAssumption DEF Lines
<1> QED
  BY <1>2, <1>3 DEF Value, Halfway

(* The variables are well typed in the middle of an assignment.            *)
LEMMA HalfwayType ==
  ASSUME NEW v \in Variables, Halfway(v), Line \in Lines, Line.kind = "set"
  PROVE  vals \in Variables
<1>1. Passed \in SUBSET Setters(Line)
  BY DEF Passed
<1> QED
  BY <1>1, AssignType DEF Halfway

(* Another entry is done with.                                             *)
LEMMA HalfwayStored ==
  ASSUME Inv, NEW v, Halfway(v), pc = "match", entry \in Setters(Line), entry \notin Rejects(Line),
         Line' = Line, entry' = entry + 1,
         vals' = [vals EXCEPT ![entry] = Assigned(Line, entry, vals[entry])],
         Top'.value = IF cfg[entry].type = "STRING_LIST" THEN trimmed[Top.value] ELSE Top.value,
         Line \in Lines, Line.kind = "set"
  PROVE  Halfway(v)'
<1>1. entry \in Entries /\ entry \in Int /\ \A d \in Setters(Line) : d \in Int
  BY DEF Setters, Entries
<1>2. Passed' = Passed \cup {entry} /\ entry \notin Passed
  <2>1. Passed' = {d \in Setters(Line) : d < entry + 1}
    BY DEF Passed
  <2>2. \A d \in Setters(Line) : d < entry + 1 <=> d < entry \/ d = entry
    BY <1>1
  <2>3. entry \notin Passed
    BY <1>1 DEF Passed
  <2>4. {d \in Setters(Line) : d < entry + 1} = {d \in Setters(Line) : d < entry} \cup {entry}
    BY <2>2
  <2> QED
    BY <2>1, <2>3, <2>4 DEF Passed
<1>3. vals = Assign(Line, v, Passed)
  BY DEF Halfway
<1>4. vals[entry] = v[entry]
  BY <1>1, <1>2, <1>3 DEF Assign
<1>5. vals' = Assign(Line, v, Passed \cup {entry})
  <2>1. vals' = [e \in Entries |-> IF e = entry THEN Assigned(Line, entry, v[entry])
                                   ELSE Assign(Line, v, Passed)[e]]
    BY <1>1, <1>3, <1>4 DEF Assign
  <2>2. \A e \in Entries :
          (IF e = entry THEN Assigned(Line, entry, v[entry]) ELSE Assign(Line, v, Passed)[e])
            = IF e \in Passed \cup {entry} THEN Assigned(Line, e, v[e]) ELSE v[e]
    BY <1>2 DEF Assign
  <2> QED
    BY <2>1, <2>2 DEF Assign
<1>6. Passed' \cap Rejects(Line)' = {}
  BY <1>2 DEF Halfway, Rejects, Setters
<1>7. Top'.value = IF \E d \in Passed \cup {entry} : cfg[d].type = "STRING_LIST"
                     THEN trimmed[Line.value] ELSE Line.value
  <2>1. Value(Line, entry) = Top'.value
    BY HalfwayValue
  <2>2. CASE cfg[entry].type = "STRING_LIST"
    <3>1. entry <= entry
      BY <1>1
    <3> QED
      BY <2>1, <2>2, <3>1 DEF Value
  <2>3. CASE cfg[entry].type # "STRING_LIST"
    BY <2>3 DEF Halfway
  <2> QED
    BY <2>2, <2>3
<1> QED
  BY <1>2, <1>5, <1>6, <1>7 DEF Halfway

(* An entry of another parameter is passed.                                *)
LEMMA HalfwayPassed ==
  ASSUME Inv, NEW v, Halfway(v), pc = "match", entry \notin Setters(Line),
         Line' = Line, entry' = entry + 1, vals' = vals, Top' = Top
  PROVE  Halfway(v)'
<1>1. entry \in Int /\ \A d \in Setters(Line) : d \in Int
  BY DEF Setters, Entries, Inv, TypeOK
<1>2. Passed' = Passed
  BY <1>1 DEF Passed
<1> QED
  BY <1>2 DEF Halfway

(* The entry rejects the value: the entries before it have been set.       *)
LEMMA HalfwayRejected ==
  ASSUME Inv, NEW v, Halfway(v), entry \in Rejects(Line)
  PROVE  AssignmentMeaning(Line, v, strict) = [ret |-> "FAIL", vals |-> vals]
<1>1. entry \in Setters(Line) /\ Rejects(Line) \subseteq Setters(Line)
  BY DEF Rejects
<1>2. \A d \in Setters(Line) : d \in Int
  BY DEF Setters, Entries
<1>3. {e \in Setters(Line) : \A r \in Rejects(Line) : e < r} = Passed
  <2>1. \A r \in Rejects(Line) : r \in Int /\ entry <= r /\ entry \in Int
    BY <1>1, <1>2 DEF Halfway, Passed
  <2> QED
    BY <1>2, <2>1 DEF Passed
<1> QED
  BY <1>3 DEF AssignmentMeaning, Halfway

(* The whole table has been looked at.                                     *)
LEMMA HalfwayDone ==
  ASSUME Inv, NEW v, Halfway(v), entry > Len(cfg)
  PROVE  AssignmentMeaning(Line, v, strict) =
           [ret |-> IF strict /\ Unknown THEN "FAIL" ELSE "SUCCEED", vals |-> vals]
<1>1. Passed = Setters(Line)
  <2>1. entry \in Int /\ Len(cfg) \in Nat
    BY TableAssumption DEF Inv, TypeOK
  <2> QED
    BY <2>1 DEF Passed, Setters, Entries
<1>2. Rejects(Line) = {}
  BY <1>1 DEF Halfway, Rejects
<1>3. {e \in Setters(Line) : \A r \in Rejects(Line) : e < r} = Passed
  BY <1>1, <1>2
<1>4. Unknown <=> Setters(Line) = {}
  BY DEF Unknown, Setters
<1> QED
  BY <1>2, <1>3, <1>4 DEF AssignmentMeaning, Halfway

-----------------------------------------------------------------------------
(* Steps from which the story goes on.                                     *)
LEMMA GoesOn ==
  ASSUME Story, UNCHANGED env, ret' = "SUCCEED", pc' \notin Stops \cup {"match", "mandatory"},
         pc' \in {"call", "return"} => depth' # 0,
         NEW K, Follow(K)', Result' \in AnOutcome,
         Leads(Targets, strict, Result', Ahead', K[depth' - 1])
  PROVE  Story'
<1>1. Promise(K)'
  BY EnvSame DEF Promise
<1> QED
  BY <1>1, EnvSame DEF Story, Stops

(* The same, in the middle of an assignment.                               *)
LEMMA MatchGoesOn ==
  ASSUME Story, UNCHANGED env, ret' = "SUCCEED", pc' = "match", Line' = Line,
         NEW K, Follow(K)', Result' \in AnOutcome,
         NEW v \in Variables, Halfway(v)',
         Leads(Targets, strict, AssignmentMeaning(Line, v, strict), Ahead', K[depth' - 1])
  PROVE  Story'
<1>1. Promise(K)'
  BY EnvSame DEF Promise
<1> QED
  BY <1>1, EnvSame DEF Story, Stops

(* The next iteration of the loop over the table.                          *)
LEMMA NextEntry ==
  ASSUME Inv, Placed, Story, pc = "match", pc' = "match", UNCHANGED env, ret' = ret,
         depth' = depth, \A l \in 1 .. depth - 1 : frame'[l] = frame[l],
         Line' = Line, Top'.file = Top.file, Top'.line = Top.line,
         \A v \in Variables : Halfway(v) => Halfway(v)'
  PROVE  Story'
<1>1. depth > 0 /\ ret = "SUCCEED" /\ depth \in Nat
  BY DEF Inv, StackInv, Where, InFile, FailUnwinds, TypeOK
<1>2. PICK K : Follow(K) /\ Promise(K) /\ K[depth - 1] \in SomeListings
  BY <1>1, Promised DEF Stops
<1>3. PICK v \in Variables :
        /\ Halfway(v)
        /\ Leads(Targets, strict, AssignmentMeaning(Line, v, strict), Ahead, K[depth - 1])
  BY <1>2 DEF Promise
<1>4. Follow(K)'
  BY <1>1, <1>2, FollowSame
<1>5. Ahead' = Ahead
  BY EnvSame DEF Ahead, LinesFrom, LinesIn
<1>6. Line \in Lines /\ Line.kind = "set"
  BY <1>1, AtLine DEF Placed
<1>7. Halfway(v)'
  BY <1>3
<1>8. vals' \in Variables
  <2>1. Passed' \in SUBSET Setters(Line)
    BY DEF Passed
  <2>2. Passed' \cap Rejects(Line) = {} /\ vals' = Assign(Line, v, Passed')
    BY <1>7 DEF Halfway
  <2> QED
    BY <1>6, <2>1, <2>2, AssignType
<1>9. Result' \in AnOutcome
  BY <1>1, <1>8 DEF Result, AnOutcome
<1> QED
  BY <1>1, <1>3, <1>4, <1>5, <1>7, <1>9, MatchGoesOn

-----------------------------------------------------------------------------
(* Lines.                                                                  *)
LEMMA StoryAtLine ==
  ASSUME Inv, Placed, Story, pc = "line", ~AtEOF, ret = "SUCCEED"
  PROVE  /\ depth > 0 /\ depth \in Nat /\ Line \in Lines /\ Line \in AllLines
         /\ LinesFrom(disk, Top, depth, Top.line + 1) \in SomeListings
         /\ Result \in AnOutcome
         /\ Line.kind # "include" =>
              /\ Ahead = Join({<<Line>>}, LinesFrom(disk, Top, depth, Top.line + 1))
              /\ \E K : /\ Follow(K)
                        /\ Leads(Targets, strict, After(Line, Result, strict),
                                 LinesFrom(disk, Top, depth, Top.line + 1), K[depth - 1])
<1>1. depth > 0 /\ depth \in Nat
  BY DEF Inv, StackInv, Where, InFile, TypeOK
<1>2. /\ Line \in Lines /\ LinesFrom(disk, Top, depth, Top.line + 1) \in SomeListings
      /\ LinesFrom(disk, Top, depth, Top.line) =
           Join(LineListings(Line, Disk, Nested(disk, depth)),
                LinesFrom(disk, Top, depth, Top.line + 1))
  BY <1>1, AtLine
<1>3. Line \in AllLines
  BY <1>2 DEF AllLines
<1>4. Result \in AnOutcome
  BY DEF Story
<1>5. ASSUME Line.kind # "include"
      PROVE  Ahead = Join({<<Line>>}, LinesFrom(disk, Top, depth, Top.line + 1))
  BY <1>2, <1>5 DEF Ahead, LineListings
<1>6. PICK K : Follow(K) /\ Promise(K) /\ K[depth - 1] \in SomeListings
  BY <1>1, Promised DEF Stops
<1>7. Leads(Targets, strict, Result, Ahead, K[depth - 1])
  BY <1>6 DEF Promise
<1>8. ASSUME Line.kind # "include"
      PROVE  Leads(Targets, strict, After(Line, Result, strict),
                   LinesFrom(disk, Top, depth, Top.line + 1), K[depth - 1])
  BY <1>2, <1>3, <1>4, <1>5, <1>6, <1>7, <1>8, LeadsFirst
<1> QED
  BY <1>1, <1>2, <1>3, <1>4, <1>5, <1>6, <1>8

(* A comment is read, and means nothing.                                   *)
LEMMA SkipLineStory ==
  ASSUME Inv, Placed, Story, SkipLine
  PROVE  Story'
<1>1. ret = "SUCCEED"
  BY DEF SkipLine, Inv, FailUnwinds, TypeOK
<1>2. /\ depth > 0 /\ depth \in Nat /\ Result \in AnOutcome /\ Line.kind = "skip"
      /\ UNCHANGED env /\ depth' = depth /\ Update(NextLine) /\ pc' = "line" /\ pc = "line"
      /\ ret' = ret /\ vals' = vals /\ ~AtEOF
  BY <1>1, StoryAtLine DEF SkipLine, table
<1>3. PICK K : /\ Follow(K)
               /\ Leads(Targets, strict, After(Line, Result, strict),
                        LinesFrom(disk, Top, depth, Top.line + 1), K[depth - 1])
  BY <1>1, <1>2, StoryAtLine
<1>4. Top' = NextLine /\ \A l \in 1 .. depth - 1 : frame'[l] = frame[l]
  BY <1>2, UpdateFacts
<1>5. Follow(K)'
  BY <1>2, <1>3, <1>4, FollowSame
<1>6. NextLine.file = Top.file /\ NextLine.line = Top.line + 1
  BY <1>2, TopFacts DEF NextLine, Frames
<1>7. Ahead' = LinesFrom(disk, Top, depth, Top.line + 1)
  BY <1>2, <1>4, <1>6, EnvSame DEF Ahead, LinesFrom, LinesIn
<1>8. Result' = Result /\ After(Line, Result, strict) = Result
  BY <1>2 DEF Result, After
<1> QED
  BY <1>1, <1>2, <1>3, <1>5, <1>7, <1>8, GoesOn DEF Stops

(* An assignment begins, with no entry set.                                *)
LEMMA AssignmentLineStory ==
  ASSUME Inv, Placed, Story, AssignmentLine
  PROVE  Story'
<1>1. ret = "SUCCEED"
  BY DEF AssignmentLine, Inv, FailUnwinds, TypeOK
<1>2. /\ depth > 0 /\ depth \in Nat /\ Result \in AnOutcome /\ Line.kind = "set"
      /\ UNCHANGED env /\ depth' = depth /\ Update([Top EXCEPT !.value = Line.value])
      /\ pc' = "match" /\ pc = "line" /\ ret' = ret /\ vals' = vals /\ ~AtEOF /\ entry' = 1
  BY <1>1, StoryAtLine DEF AssignmentLine
<1>3. PICK K : /\ Follow(K)
               /\ Leads(Targets, strict, After(Line, Result, strict),
                        LinesFrom(disk, Top, depth, Top.line + 1), K[depth - 1])
  BY <1>1, <1>2, StoryAtLine
<1> DEFINE f == [Top EXCEPT !.value = Line.value]
<1>4. Top' = f /\ \A l \in 1 .. depth - 1 : frame'[l] = frame[l]
  BY <1>2, UpdateFacts
<1>5. Follow(K)'
  BY <1>2, <1>3, <1>4, FollowSame
<1>6. f.file = Top.file /\ f.line = Top.line /\ f.value = Line.value
  BY <1>2, TopFacts DEF Frames
<1> HIDE DEF f
<1>7. Ahead' = LinesFrom(disk, Top, depth, Top.line + 1)
  BY <1>2, <1>4, <1>6, EnvSame DEF Ahead, LinesFrom, LinesIn
<1>8. Line' = Line
  BY <1>2, <1>4, <1>6, EnvSame DEF Line
<1>9. Result' = Result /\ vals \in Variables
  BY <1>2 DEF Result, AnOutcome
<1>10. After(Line, Result, strict) = AssignmentMeaning(Line, vals, strict)
  BY <1>1, <1>2 DEF Result, After
<1>11. Halfway(vals)'
  <2>1. Passed' = {}
    BY <1>2, <1>8 DEF Passed, Setters, Entries
  <2>2. vals = Assign(Line, vals, {})
    BY <1>9 DEF Assign, Variables
  <2> QED
    BY <1>2, <1>4, <1>6, <1>8, <2>1, <2>2 DEF Halfway
<1> QED
  <2>1. \E v \in Variables : v = vals /\ v = vals'
    BY <1>2, <1>9
  <2>2. PICK v \in Variables : v = vals /\ v = vals'
    BY <2>1
  <2>3. Halfway(v)'
    BY <1>11, <2>2 DEF Halfway
  <2>4. Leads(Targets, strict, AssignmentMeaning(Line, v, strict), Ahead', K[depth' - 1])
    BY <1>2, <1>3, <1>7, <1>10, <2>2
  <2> QED
    BY <1>1, <1>2, <1>5, <1>8, <1>9, <2>3, <2>4, MatchGoesOn

(* A line that is not UTF-8 or has no "=" is a failure.                    *)
LEMMA InvalidLineStory ==
  ASSUME Inv, Placed, Story, InvalidLine
  PROVE  Story'
<1>1. ret = "SUCCEED"
  BY DEF InvalidLine, Inv, FailUnwinds, TypeOK
<1>2. /\ Line.kind \in {"non_utf8", "non_key_value"} /\ UNCHANGED env /\ pc = "line" /\ ~AtEOF
      /\ pc' = "return" /\ ret' = "FAIL" /\ vals' = vals
  BY DEF InvalidLine, Error, Return, table
<1> DEFINE A == LinesFrom(disk, Top, depth, Top.line + 1)
<1>3. depth > 0 /\ Line \in AllLines /\ A \in SomeListings /\ Ahead = Join({<<Line>>}, A)
  BY <1>1, <1>2, StoryAtLine
<1>4. After(Line, Result, strict) = [ret |-> "FAIL", vals |-> vals]
  BY <1>1, <1>2 DEF After, Result
<1> HIDE DEF A
<1>5. [ret |-> "FAIL", vals |-> vals] \in Targets
  BY <1>1, <1>2, <1>3, <1>4, FailsAtLine DEF Stops
<1> QED
  BY <1>2, <1>5, Fails

-----------------------------------------------------------------------------
(* The loop over the table.                                                *)
LEMMA MatchFacts ==
  ASSUME Inv, Placed, Story, pc = "match"
  PROVE  /\ depth > 0 /\ depth \in Nat /\ ret = "SUCCEED" /\ Line \in Lines /\ Line.kind = "set"
         /\ Top \in Frames /\ Top.line <= Len(LinesIn(disk, Top))
         /\ LinesFrom(disk, Top, depth, Top.line + 1) \in SomeListings
         /\ Ahead = LinesFrom(disk, Top, depth, Top.line + 1)
         /\ vals \in Variables
         /\ \A e : e \in Setters(Line) <=> e \in Entries /\ cfg[e].parameter = Line.parameter
         /\ \E K : \E v \in Variables :
              /\ Follow(K) /\ Halfway(v) /\ K[depth - 1] \in SomeListings
              /\ Leads(Targets, strict, AssignmentMeaning(Line, v, strict), Ahead, K[depth - 1])
<1>1. depth > 0 /\ ret = "SUCCEED" /\ depth \in Nat /\ pc \notin Stops
  BY DEF Inv, StackInv, Where, InFile, FailUnwinds, TypeOK, Stops
<1>2. PICK K : Follow(K) /\ Promise(K) /\ K[depth - 1] \in SomeListings
  BY <1>1, Promised
<1>3. Line \in Lines /\ Line.kind = "set" /\ LinesFrom(disk, Top, depth, Top.line + 1) \in SomeListings
  BY <1>1, AtLine DEF Placed
<1>4. Top \in Frames /\ Top.line <= Len(LinesIn(disk, Top))
  BY <1>1, TopFacts, LinesInType
<1>5. Ahead = LinesFrom(disk, Top, depth, Top.line + 1)
  BY DEF Ahead
<1>6. PICK v \in Variables :
        /\ Halfway(v)
        /\ Leads(Targets, strict, AssignmentMeaning(Line, v, strict), Ahead, K[depth - 1])
  BY <1>2 DEF Promise
<1>7. vals \in Variables
  BY <1>3, <1>6, HalfwayType
<1>8. \A e : e \in Setters(Line) <=> e \in Entries /\ cfg[e].parameter = Line.parameter
  BY DEF Setters
<1> QED
  BY <1>1, <1>2, <1>3, <1>4, <1>5, <1>6, <1>7, <1>8

(* An entry of another parameter is passed.                                *)
LEMMA OtherParameterStory ==
  ASSUME Inv, Placed, Story, OtherParameter
  PROVE  Story'
<1>1. /\ pc = "match" /\ pc' = "match" /\ UNCHANGED env /\ ret' = ret /\ depth' = depth
      /\ frame' = frame /\ entry' = entry + 1 /\ vals' = vals /\ entry \notin Setters(Line)
  BY DEF OtherParameter, stack, Setters, Entry
<1>2. Line' = Line /\ Top' = Top
  BY <1>1, EnvSame DEF Line, Top
<1>3. \A v \in Variables : Halfway(v) => Halfway(v)'
  BY <1>1, <1>2, HalfwayPassed
<1> QED
  BY <1>1, <1>2, <1>3, NextEntry

(* The value that is stored is the one the entry is meant to see.          *)
LEMMA MatchingFacts ==
  ASSUME Inv, Placed, Story, Matching
  PROVE  /\ pc = "match" /\ entry \in Setters(Line) /\ entry \in Entries /\ Entry = cfg[entry]
         /\ Entry.type \in Types
         /\ NumericType /\ ~Accepts(Entry, Top.value) => entry \in Rejects(Line)
         /\ ~NumericType \/ Accepts(Entry, Top.value) => entry \notin Rejects(Line)
         /\ Entry.type # "STRING_LIST" => Value(Line, entry) = Top.value
         /\ Entry.type = "STRING_LIST" => Value(Line, entry) = trimmed[Top.value]
<1>1. pc = "match" /\ entry \in Entries /\ Entry = cfg[entry] /\ Entry.parameter = Line.parameter
  BY TableAssumption DEF Matching, Entry, Entries, Inv, TypeOK
<1>2. entry \in Setters(Line) /\ Entry.type \in Types
  BY <1>1, EntryType DEF Setters
<1>3. Line \in Lines /\ Line.kind = "set" /\ \E v : Halfway(v)
  BY <1>1, MatchFacts
<1>4. /\ Entry.type # "STRING_LIST" => Value(Line, entry) = Top.value
      /\ Entry.type = "STRING_LIST" => Value(Line, entry) = trimmed[Top.value]
  BY <1>1, <1>2, <1>3, HalfwayValue
<1>5. entry \in Rejects(Line) <=> NumericType /\ ~Accepts(Entry, Top.value)
  BY <1>1, <1>2, <1>4 DEF Rejects, NumericType
<1> QED
  BY <1>1, <1>2, <1>4, <1>5

(* A value is stored.                                                      *)
LEMMA StoredStory ==
  ASSUME Inv, Placed, Story, Matching, ~NumericType \/ Accepts(Entry, Top.value),
         Store(Assigned(Line, entry, vals[entry])),
         IF Entry.type = "STRING_LIST" THEN Update([Top EXCEPT !.value = trimmed[@]])
                                       ELSE frame' = frame
  PROVE  Story'
<1>1. /\ pc = "match" /\ entry \in Setters(Line) /\ entry \notin Rejects(Line) /\ Entry = cfg[entry]
      /\ Line \in Lines /\ Line.kind = "set" /\ depth > 0 /\ Top \in Frames
  BY MatchingFacts, MatchFacts
<1>2. /\ pc' = "match" /\ UNCHANGED env /\ ret' = ret /\ depth' = depth /\ entry' = entry + 1
      /\ vals' = [vals EXCEPT ![entry] = Assigned(Line, entry, vals[entry])]
  BY <1>1 DEF Store
<1>3. /\ \A l \in 1 .. depth - 1 : frame'[l] = frame[l]
      /\ Top'.file = Top.file /\ Top'.line = Top.line
      /\ Top'.value = IF cfg[entry].type = "STRING_LIST" THEN trimmed[Top.value] ELSE Top.value
  <2>1. CASE Entry.type = "STRING_LIST"
    <3> DEFINE f == [Top EXCEPT !.value = trimmed[@]]
    <3>1. Update(f)
      BY <2>1
    <3>2. f.file = Top.file /\ f.line = Top.line /\ f.value = trimmed[Top.value]
      BY <1>1 DEF Frames
    <3> HIDE DEF f
    <3>3. Top' = f /\ \A l \in 1 .. depth - 1 : frame'[l] = frame[l]
      BY <1>1, <1>2, <3>1, UpdateFacts
    <3> QED
      BY <1>1, <2>1, <3>2, <3>3
  <2>2. CASE Entry.type # "STRING_LIST"
    BY <1>1, <1>2, <2>2 DEF Top
  <2> QED
    BY <2>1, <2>2
<1>4. Line' = Line
  BY <1>2, <1>3, EnvSame DEF Line
<1>5. \A v \in Variables : Halfway(v) => Halfway(v)'
  BY <1>1, <1>2, <1>3, <1>4, HalfwayStored
<1> QED
  BY <1>1, <1>2, <1>3, <1>4, <1>5, NextEntry

(* Each of the four ways to store a value.                                 *)
LEMMA StoreStory ==
  ASSUME Inv, Placed, Story,
         StoreNumber \/ StoreString \/ StoreStringList \/ StoreMultistring
  PROVE  Story'
<1>1. Matching /\ (~NumericType \/ Accepts(Entry, Top.value))
  BY DEF StoreNumber, StoreString, StoreStringList, StoreMultistring, NumericType
<1>2. /\ Entry = cfg[entry]
      /\ Entry.type # "STRING_LIST" => Value(Line, entry) = Top.value
      /\ Entry.type = "STRING_LIST" => Value(Line, entry) = trimmed[Top.value]
  BY <1>1, MatchingFacts
<1>3. Store(Assigned(Line, entry, vals[entry]))
  <2>1. CASE StoreNumber
    BY <1>2, <2>1 DEF StoreNumber, Assigned, NumericType
  <2>2. CASE StoreString
    BY <1>2, <2>2 DEF StoreString, Assigned
  <2>3. CASE StoreStringList
    BY <1>2, <2>3 DEF StoreStringList, Assigned
  <2>4. CASE StoreMultistring
    BY <1>2, <2>4 DEF StoreMultistring, Assigned
  <2> QED
    BY <2>1, <2>2, <2>3, <2>4
<1>4. IF Entry.type = "STRING_LIST" THEN Update([Top EXCEPT !.value = trimmed[@]])
                                    ELSE frame' = frame
  BY DEF StoreNumber, StoreString, StoreStringList, StoreMultistring, NumericType
<1> QED
  BY <1>1, <1>3, <1>4, StoredStory

(* A value that is rejected: the entries before it keep what they were     *)
(* given.                                                                  *)
LEMMA IncorrectConfigStory ==
  ASSUME Inv, Placed, Story, IncorrectConfig
  PROVE  Story'
<1>1. /\ pc = "match" /\ entry \in Rejects(Line) /\ UNCHANGED env /\ pc' = "return"
      /\ ret' = "FAIL" /\ vals' = vals
  BY MatchingFacts DEF IncorrectConfig, Error, Return, table
<1>2. /\ Ahead \in SomeListings /\ vals \in Variables
      /\ \E K : \E v \in Variables :
           /\ Follow(K) /\ Halfway(v) /\ K[depth - 1] \in SomeListings
           /\ Leads(Targets, strict, AssignmentMeaning(Line, v, strict), Ahead, K[depth - 1])
  BY <1>1, MatchFacts
<1>3. [ret |-> "FAIL", vals |-> vals] \in Targets
  <2>1. PICK K : \E v \in Variables :
          /\ Follow(K) /\ Halfway(v) /\ K[depth - 1] \in SomeListings
          /\ Leads(Targets, strict, AssignmentMeaning(Line, v, strict), Ahead, K[depth - 1])
    BY <1>2
  <2>4. PICK v \in Variables :
          /\ Halfway(v) /\ K[depth - 1] \in SomeListings
          /\ Leads(Targets, strict, AssignmentMeaning(Line, v, strict), Ahead, K[depth - 1])
    BY <2>1
  <2>2. AssignmentMeaning(Line, v, strict) = [ret |-> "FAIL", vals |-> vals]
    BY <1>1, <2>4, HalfwayRejected
  <2>3. [ret |-> "FAIL", vals |-> vals] \in AnOutcome
    BY <1>2 DEF AnOutcome
  <2> QED
    BY <1>2, <2>2, <2>3, <2>4, LeadsToFailure
<1> QED
  BY <1>1, <1>3, Fails

(* The assignment is complete, or its parameter is not known.              *)
LEMMA EndOfTableStory ==
  ASSUME Inv, Placed, Story, EndOfTable
  PROVE  Story'
<1>1. /\ pc = "match" /\ entry > Len(cfg) /\ UNCHANGED env /\ vals' = vals
  BY DEF EndOfTable, table
<1>2. /\ Ahead \in SomeListings /\ vals \in Variables /\ depth > 0 /\ depth \in Nat
      /\ ret = "SUCCEED" /\ Top \in Frames
      /\ Ahead = LinesFrom(disk, Top, depth, Top.line + 1)
      /\ \E K : \E v \in Variables :
           /\ Follow(K) /\ Halfway(v) /\ K[depth - 1] \in SomeListings
           /\ Leads(Targets, strict, AssignmentMeaning(Line, v, strict), Ahead, K[depth - 1])
  BY <1>1, MatchFacts
<1>7. PICK K : \E v \in Variables :
        /\ Follow(K) /\ Halfway(v) /\ K[depth - 1] \in SomeListings
        /\ Leads(Targets, strict, AssignmentMeaning(Line, v, strict), Ahead, K[depth - 1])
  BY <1>2
<1>3. PICK v \in Variables :
        /\ Follow(K) /\ Halfway(v) /\ K[depth - 1] \in SomeListings
        /\ Leads(Targets, strict, AssignmentMeaning(Line, v, strict), Ahead, K[depth - 1])
  BY <1>7
<1> DEFINE o == [ret |-> IF strict /\ Unknown THEN "FAIL" ELSE "SUCCEED", vals |-> vals]
<1>4. AssignmentMeaning(Line, v, strict) = o /\ o \in AnOutcome
  <2>1. AssignmentMeaning(Line, v, strict) = o
    BY <1>1, <1>3, HalfwayDone
  <2> QED
    BY <1>2, <2>1 DEF AnOutcome
<1>5. CASE strict /\ Unknown
  <2>1. pc' = "return" /\ ret' = "FAIL"
    BY <1>5 DEF EndOfTable, Error, Return
  <2>2. [ret |-> "FAIL", vals |-> vals] \in Targets
    BY <1>2, <1>3, <1>4, <1>5, LeadsToFailure
  <2> QED
    BY <1>1, <2>1, <2>2, Fails
<1>6. CASE ~(strict /\ Unknown)
  <2>1. Update(NextLine) /\ pc' = "line" /\ depth' = depth /\ ret' = ret
    BY <1>6 DEF EndOfTable
  <2>2. Top' = NextLine /\ \A l \in 1 .. depth - 1 : frame'[l] = frame[l]
    BY <1>2, <2>1, UpdateFacts
  <2>3. Follow(K)'
    BY <1>1, <1>2, <1>3, <2>1, <2>2, FollowSame
  <2>4. NextLine.file = Top.file /\ NextLine.line = Top.line + 1
    BY <1>2 DEF NextLine, Frames
  <2>5. Ahead' = Ahead
    BY <1>1, <1>2, <2>1, <2>2, <2>4, EnvSame DEF Ahead, LinesFrom, LinesIn
  <2>6. Result' = o /\ Result' \in AnOutcome
    BY <1>1, <1>2, <1>4, <1>6, <2>1 DEF Result
  <2> QED
    BY <1>1, <1>2, <1>3, <1>4, <2>1, <2>3, <2>5, <2>6, GoesOn DEF Stops
<1> QED
  BY <1>5, <1>6

-----------------------------------------------------------------------------
(* Include lines.                                                          *)
LEMMA IncludeLineStory ==
  ASSUME Inv, Placed, Story, IncludeLine
  PROVE  Story'
<1>1. /\ pc = "line" /\ pc' = "glob" /\ ret = "SUCCEED" /\ ret' = ret /\ vals' = vals
      /\ UNCHANGED env /\ depth' = depth /\ depth > 0 /\ Update([Top EXCEPT !.glob = Line.glob])
  BY DEF IncludeLine, Inv, FailUnwinds, TypeOK, table, StackInv, Where, InFile
<1> DEFINE f == [Top EXCEPT !.glob = Line.glob]
<1>2. Top' = f /\ \A l \in 1 .. depth - 1 : frame'[l] = frame[l]
  BY <1>1, UpdateFacts
<1>3. f.file = Top.file /\ f.line = Top.line
  BY <1>1, TopFacts DEF Frames
<1> HIDE DEF f
<1>4. Ahead' = Ahead
  BY <1>1, <1>2, <1>3, EnvSame DEF Ahead, LinesFrom, LinesIn
<1> QED
  BY <1>1, <1>2, <1>4, ReadsOn DEF Stops

(* The Include is split into a path and a pattern.                         *)
LEMMA ParseGlobStory ==
  ASSUME Inv, Placed, Story, ParseGlob
  PROVE  Story'
<1>1. /\ pc = "glob" /\ pc' = "stat" /\ ret = "SUCCEED" /\ ret' = ret /\ vals' = vals
      /\ UNCHANGED env /\ depth' = depth /\ depth > 0
      /\ Update([Top EXCEPT !.ptrs = GlobStrings(Top.glob)])
  BY DEF ParseGlob, Inv, FailUnwinds, TypeOK, table, StackInv, Where, InFile
<1> DEFINE f == [Top EXCEPT !.ptrs = GlobStrings(Top.glob)]
<1>2. Top' = f /\ \A l \in 1 .. depth - 1 : frame'[l] = frame[l]
  BY <1>1, UpdateFacts
<1>3. f.file = Top.file /\ f.line = Top.line
  BY <1>1, TopFacts DEF Frames
<1> HIDE DEF f
<1>4. Ahead' = Ahead
  BY <1>1, <1>2, <1>3, EnvSame DEF Ahead, LinesFrom, LinesIn
<1> QED
  BY <1>1, <1>2, <1>4, ReadsOn DEF Stops

(* The path is a directory.                                                *)
LEMMA StatDirStory ==
  ASSUME Inv, Placed, Story, StatDir
  PROVE  Story'
<1>1. /\ pc = "stat" /\ pc' = "opendir" /\ ret = "SUCCEED" /\ ret' = ret /\ vals' = vals
      /\ UNCHANGED env /\ depth' = depth /\ depth > 0 /\ frame' = frame
  BY DEF StatDir, Inv, FailUnwinds, TypeOK, table, stack, StackInv, Where, InFile
<1>2. Ahead' = Ahead
  BY <1>1, EnvSame DEF Ahead, Top
<1> QED
  BY <1>1, <1>2, ReadsOn DEF Stops

(* What an Include line stands for.                                        *)
LEMMA AtInclude ==
  ASSUME Inv, Placed, Story, pc \in {"glob", "stat", "opendir"}
  PROVE  /\ depth > 0 /\ ret = "SUCCEED" /\ Top.glob \in Globs /\ ~Top.dir
         /\ Top \in Frames /\ Top.line <= Len(LinesIn(disk, Top))
         /\ LinesFrom(disk, Top, depth, Top.line + 1) \in SomeListings
         /\ Ahead = Join(IncludeListings(Top.glob, Disk, Nested(disk, depth)),
                         LinesFrom(disk, Top, depth, Top.line + 1))
         /\ disk \in DOMAIN World /\ Disk = World[disk] /\ depth \in 0 .. MAX_INCLUDE_LEVEL
         /\ Nested(disk, depth) \in Nestings
<1>1. /\ depth > 0 /\ ret = "SUCCEED" /\ ~Top.dir
  BY DEF Inv, FailUnwinds, TypeOK, StackInv, Where, InFile, DirWhere
<1>2. Top.glob \in Globs /\ Top \in Frames /\ Top.line <= Len(LinesIn(disk, Top))
  BY <1>1, TopFacts, LinesInType
<1>3. Line.kind = "include" /\ Line.glob = Top.glob
  BY DEF Placed
<1>4. /\ LinesFrom(disk, Top, depth, Top.line + 1) \in SomeListings
      /\ LinesFrom(disk, Top, depth, Top.line) =
           Join(LineListings(Line, Disk, Nested(disk, depth)),
                LinesFrom(disk, Top, depth, Top.line + 1))
  BY <1>1, AtLine
<1>5. LineListings(Line, Disk, Nested(disk, depth))
        = IncludeListings(Top.glob, Disk, Nested(disk, depth))
  BY <1>3 DEF LineListings
<1>6. Ahead = LinesFrom(disk, Top, depth, Top.line)
  BY DEF Ahead
<1>7. /\ disk \in DOMAIN World /\ Disk = World[disk] /\ depth \in 0 .. MAX_INCLUDE_LEVEL
      /\ Nested(disk, depth) \in Nestings
  BY <1>1, TopFacts, NestedType DEF Disk
<1> QED
  BY <1>1, <1>2, <1>4, <1>5, <1>6, <1>7

(* The glob is refused, nothing is found at its path, or the directory     *)
(* cannot be opened.                                                       *)
LEMMA CannotFollowStory ==
  ASSUME Inv, Placed, Existing, Story, BadGlob \/ StatFails \/ CannotOpenDir
  PROVE  Story'
<1> DEFINE L == LinesFrom(disk, Top, depth, Top.line + 1)
           G == IncludeListings(Top.glob, Disk, Nested(disk, depth))
<1>1. /\ pc \in {"glob", "stat", "opendir"} /\ UNCHANGED env /\ vals' = vals /\ ret' = "FAIL"
      /\ pc' = "clean"
  BY DEF BadGlob, StatFails, CannotOpenDir, table
<1>2. /\ depth > 0 /\ ret = "SUCCEED" /\ Top.glob \in Globs /\ L \in SomeListings
      /\ Ahead = Join(G, L) /\ disk \in DOMAIN World /\ Disk = World[disk]
      /\ depth \in 0 .. MAX_INCLUDE_LEVEL
  BY <1>1, AtInclude
<1>3. <<Failure>> \in G
  <2>1. CASE BadGlob
    BY <2>1 DEF BadGlob, IncludeListings
  <2>2. CASE StatFails
    <3>1. Top.glob.path \in Files /\ Top.glob.path \notin Dirs
      BY <2>2, TreeAssumption DEF StatFails
    <3>2. CASE Top.glob.form # "plain"
      BY <3>1, <3>2 DEF IncludeListings
    <3>3. CASE Top.glob.form = "plain"
      <4>1. Top.glob.path \notin Stable(World[disk])
        BY <1>2, <2>2, <3>3 DEF StatFails, Placed, GlobStrings, Existing
      <4>2. <<Failure>> \in Nested(disk, depth)[Top.glob.path]
        BY <1>2, <3>1, <4>1, NestedFile
      <4> QED
        BY <3>1, <3>3, <4>2 DEF IncludeListings
    <3> QED
      BY <3>2, <3>3
  <2>3. CASE CannotOpenDir
    <3>1. /\ Top.glob.path \in Dirs /\ Top.glob.path \notin Files /\ Top.glob.form # "bad"
          /\ Top.glob.path \in Faulty
      BY <2>3, TreeAssumption DEF CannotOpenDir, Inv, StackInv, Where, Placed
    <3>2. <<Failure>> \in Refused(Top.glob.path)
      BY <3>1, ClosingType
    <3> QED
      BY <3>1, <3>2 DEF IncludeListings
  <2> QED
    BY <2>1, <2>2, <2>3
<1> HIDE DEF G, L
<1>4. Join({<<Failure>>}, L) \subseteq Ahead
  BY <1>2, <1>3, JoinFewer
<1>5. [ret |-> "FAIL", vals |-> vals] \in Targets
  BY <1>1, <1>2, <1>4, FailureAt DEF Stops
<1> QED
  BY <1>1, <1>5, Fails

(* The file is going to be read in the place of the line.                  *)
LEMMA StatFileStory ==
  ASSUME Inv, Placed, Story, StatFile
  PROVE  Story'
<1>1. /\ pc = "stat" /\ pc' = "call" /\ ret' = ret /\ vals' = vals /\ arg' = Top.glob.path
      /\ UNCHANGED env /\ depth' = depth /\ frame' = frame
      /\ Top.glob.path \in present /\ "pattern" \notin Top.ptrs
  BY DEF StatFile, table, stack
<1>2. /\ depth > 0 /\ ret = "SUCCEED" /\ Top.glob \in Globs /\ ~Top.dir
      /\ Ahead = Join(IncludeListings(Top.glob, Disk, Nested(disk, depth)),
                      LinesFrom(disk, Top, depth, Top.line + 1))
  BY <1>1, AtInclude
<1>3. Top.glob.form = "plain"
  BY <1>1, <1>2 DEF Placed, GlobStrings, Globs
<1>4. IncludeListings(Top.glob, Disk, Nested(disk, depth)) = Nested(disk, depth)[Top.glob.path]
  <2>1. Top.glob.path \in Files /\ Top.glob.path \notin Dirs
    BY <1>1, TreeAssumption DEF Inv, TypeOK
  <2> QED
    BY <1>3, <2>1 DEF IncludeListings
<1>5. Rest(disk, Top, depth) = LinesFrom(disk, Top, depth, Top.line + 1)
  <2>1. /\ disk \in DOMAIN World /\ depth \in 0 .. MAX_INCLUDE_LEVEL /\ IsFiniteSet(Top.todo)
    BY <1>2, TopFacts
  <2>2. Top \in Frames /\ Top.line <= Len(LinesIn(disk, Top))
    BY <1>1, AtInclude
  <2> QED
    BY <1>2, <2>1, <2>2, RestType
<1>6. Ahead' = Join(Nested(disk, depth)[arg'], Rest(disk, Top, depth))
  BY <1>1, EnvSame DEF Ahead, Top
<1>7. Ahead' = Ahead
  BY <1>1, <1>2, <1>4, <1>5, <1>6
<1> QED
  BY <1>1, <1>2, <1>7, ReadsOn DEF Stops

-----------------------------------------------------------------------------
(* Directories.                                                            *)
LEMMA OpenDirStory ==
  ASSUME Inv, Placed, Story, OpenDir
  PROVE  Story'
<1> DEFINE f == [Top EXCEPT !.dir = TRUE, !.todo = Disk.members[Top.glob.path]]
           L == LinesFrom(disk, Top, depth, Top.line + 1)
<1>1. /\ pc = "opendir" /\ pc' = "readdir" /\ ret' = ret /\ vals' = vals
      /\ UNCHANGED env /\ depth' = depth /\ Update(f)
  BY DEF OpenDir, table
<1>2. /\ depth > 0 /\ ret = "SUCCEED" /\ Top.glob \in Globs /\ Top \in Frames
      /\ Ahead = Join(IncludeListings(Top.glob, Disk, Nested(disk, depth)), L)
  BY <1>1, AtInclude
<1>3. /\ f.file = Top.file /\ f.line = Top.line /\ f.glob = Top.glob
      /\ f.dir = TRUE /\ f.todo = Disk.members[Top.glob.path]
  BY <1>2 DEF Frames
<1> HIDE DEF f
<1>4. Top' = f /\ \A l \in 1 .. depth - 1 : frame'[l] = frame[l]
  BY <1>1, <1>2, UpdateFacts
<1>5. Top.glob.path \in Dirs /\ Top.glob.path \notin Files /\ Top.glob.form # "bad"
  BY <1>1, TreeAssumption DEF Inv, StackInv, Where, Placed
<1> DEFINE D == InDirectory(disk, f.glob, f.todo, Nested(disk, depth))
<1>6. IncludeListings(Top.glob, Disk, Nested(disk, depth)) = Refused(Top.glob.path) \cup D
  <2>1. Disk = World[disk]
    BY DEF Disk
  <2> QED
    BY <1>3, <1>5, <2>1 DEF IncludeListings, InDirectory, Sure, Maybe
<1>7. Rest(disk, f, depth) = Join(D, L)
  BY <1>3 DEF Rest, DirRest, LinesFrom, LinesIn
<1>8. Ahead' = Rest(disk, f, depth)
  BY <1>1, <1>4, EnvSame DEF Ahead
<1> HIDE DEF D, L
<1>9. Ahead' \subseteq Ahead
  BY <1>2, <1>6, <1>7, <1>8, JoinFewer
<1> QED
  BY <1>1, <1>2, <1>4, <1>9, ReadsOn DEF Stops

(* A file that is read first, then what is behind it.                      *)
LEMMA JoinBehind ==
  ASSUME NEW A \in SomeListings, NEW B \in SomeListings, NEW L \in SomeListings, NEW C,
         Join(A, B) \subseteq C
  PROVE  Join(A, Join(B, L)) \subseteq Join(C, L)
<1> SUFFICES ASSUME NEW x \in Join(A, Join(B, L)) PROVE x \in Join(C, L)
  OBVIOUS
<1>1. PICK a \in A, y \in Join(B, L) : x = a \o y
  BY JoinParts, SMTT(30)
<1>2. PICK b \in B, l \in L : y = b \o l
  BY JoinParts
<1>3. a \in Seq(AllLines) /\ b \in Seq(AllLines) /\ l \in Seq(AllLines)
  BY <1>1, <1>2 DEF SomeListings
<1>4. x = (a \o b) \o l
  BY <1>1, <1>2, <1>3, ConcatAssociative, SMTT(30)
<1>5. a \o b \in C
  BY <1>1, <1>2, Joined
<1> QED
  BY <1>2, <1>4, <1>5, Joined

(* What an activation reads while it is in a directory.                    *)
LEMMA InDir ==
  ASSUME Inv, Placed, depth > 0, pc \in {"readdir", "close"} \/ (pc = "return" /\ Top.dir)
  PROVE  /\ Top \in Frames /\ Top.dir /\ disk \in DOMAIN World /\ depth \in 0 .. MAX_INCLUDE_LEVEL
         /\ Top.line <= Len(LinesIn(disk, Top)) /\ IsFiniteSet(Top.todo) /\ Disk = World[disk]
         /\ LinesFrom(disk, Top, depth, Top.line + 1) \in SomeListings
         /\ Nested(disk, depth) \in Nestings
         /\ Rest(disk, Top, depth) =
              Join(InDirectory(disk, Top.glob, Top.todo, Nested(disk, depth)),
                   LinesFrom(disk, Top, depth, Top.line + 1))
<1>1. Top.dir
  BY DEF Inv, StackInv, DirWhere
<1>2. /\ Top \in Frames /\ disk \in DOMAIN World /\ depth \in 0 .. MAX_INCLUDE_LEVEL
      /\ Top.line <= Len(LinesIn(disk, Top)) /\ IsFiniteSet(Top.todo)
  BY TopFacts, LinesInType
<1>3. LinesFrom(disk, Top, depth, Top.line + 1) \in SomeListings
  BY <1>2, RestType
<1>4. Nested(disk, depth) \in Nestings
  BY <1>2, NestedType
<1> QED
  BY <1>1, <1>2, <1>3, <1>4 DEF Rest, DirRest, Disk

(* An entry of a directory is read first, or is passed over.               *)
LEMMA FirstEntry ==
  ASSUME NEW w \in DOMAIN World, NEW g, NEW S, IsFiniteSet(S), NEW nested \in Nestings, NEW p
  PROVE  /\ p \in Maybe(w, g, S) =>
              Join(nested[p], InDirectory(w, g, S \ {p}, nested)) \subseteq InDirectory(w, g, S, nested)
         /\ p \notin Sure(w, g, S) =>
              InDirectory(w, g, S \ {p}, nested) \subseteq InDirectory(w, g, S, nested)
<1> DEFINE must == Sure(w, g, S)
           may  == Maybe(w, g, S)
           C    == Closing(g.path)
           D    == DirListings(must, may, nested)
           B    == DirListings(must \ {p}, may \ {p}, nested)
<1>1. may \in SUBSET Files /\ IsFiniteSet(may) /\ must \in SUBSET may
  BY FoundType
<1>2. Sure(w, g, S \ {p}) = must \ {p} /\ Maybe(w, g, S \ {p}) = may \ {p}
  BY DEF Sure, Maybe, Selection
<1>3. InDirectory(w, g, S \ {p}, nested) = Join(B, C) /\ InDirectory(w, g, S, nested) = Join(D, C)
  BY <1>2 DEF InDirectory
<1> HIDE DEF must, may, C
<1>4. C \in SomeListings
  BY ClosingType DEF C
<1>5. ASSUME p \in may PROVE Join(nested[p], Join(B, C)) \subseteq Join(D, C)
  <2>1. Join(nested[p], B) \subseteq D
    BY <1>1, <1>5, FirstFile
  <2>2. nested[p] \in SomeListings
    BY <1>1, <1>5 DEF Nestings
  <2>3. B \in SomeListings
    <3>1. may \ {p} \in SUBSET Files /\ IsFiniteSet(may \ {p}) /\ must \ {p} \in SUBSET (may \ {p})
      BY <1>1, FS_Subset
    <3> QED
      BY <3>1, DirType
  <2> HIDE DEF B, D
  <2> QED
    BY <1>4, <2>1, <2>2, <2>3, JoinBehind
<1>6. ASSUME p \notin must PROVE Join(B, C) \subseteq Join(D, C)
  <2>1. must \ {p} = must
    BY <1>6
  <2>2. B \subseteq D
    BY <1>6, <2>1, WithoutFile
  <2> HIDE DEF B, D
  <2> QED
    BY <2>2, JoinFewer
<1> QED
  BY <1>3, <1>5, <1>6 DEF must, may

(* readdir returns a file, which is the first one of some order, or one    *)
(* that is not selected or is not there.                                   *)
LEMMA ReadDirStory ==
  ASSUME Inv, Placed, Existing, Story, ReadDir
  PROVE  Story'
<1> DEFINE L == LinesFrom(disk, Top, depth, Top.line + 1)
           N == Nested(disk, depth)
<1>1. /\ pc = "readdir" /\ ret' = ret /\ vals' = vals /\ UNCHANGED env /\ depth' = depth
      /\ pc' \in {"readdir", "call"} /\ depth > 0 /\ ret = "SUCCEED"
  BY DEF ReadDir, table, Inv, FailUnwinds, TypeOK, StackInv, Where, InFile
<1>2. PICK p \in Top.todo :
        /\ Update([Top EXCEPT !.todo = @ \ {p}])
        /\ IF Selected(Top.glob, p) THEN arg' = p   /\ pc' = "call"
                                    ELSE arg' = arg /\ pc' = "readdir"
  BY <1>1 DEF ReadDir
<1> DEFINE f == [Top EXCEPT !.todo = @ \ {p}]
           D == InDirectory(disk, Top.glob, Top.todo, N)
           B == InDirectory(disk, Top.glob, Top.todo \ {p}, N)
<1>3. /\ Top \in Frames /\ Top.dir /\ disk \in DOMAIN World /\ depth \in 0 .. MAX_INCLUDE_LEVEL
      /\ IsFiniteSet(Top.todo) /\ Disk = World[disk] /\ L \in SomeListings /\ N \in Nestings
      /\ Rest(disk, Top, depth) = Join(D, L)
  BY <1>1, InDir
<1>4. f.file = Top.file /\ f.line = Top.line /\ f.glob = Top.glob /\ f.dir = Top.dir /\ f.todo = Top.todo \ {p}
  BY <1>3 DEF Frames
<1>5. Top' = f /\ \A l \in 1 .. depth - 1 : frame'[l] = frame[l]
  BY <1>1, <1>2, UpdateFacts
<1> HIDE DEF f
<1>6. Rest(disk, f, depth) = Join(B, L)
  BY <1>3, <1>4 DEF Rest, DirRest, LinesFrom, LinesIn
<1>7. Ahead = Join(D, L)
  BY <1>1, <1>3 DEF Ahead
<1>8. IsFiniteSet(Top.todo \ {p})
  BY <1>3, FS_RemoveElement
<1>9. B \in SomeListings
  <2> HIDE DEF N
  <2> QED
    BY <1>3, <1>8, InDirectoryType
<1>10. CASE Selected(Top.glob, p)
  <2>1. p \in Maybe(disk, Top.glob, Top.todo)
    BY <1>3, <1>10 DEF Selected, Maybe, Selection, Existing
  <2>2. N[p] \in SomeListings
    <3>1. p \in Files
      BY <1>3, <2>1, FoundType
    <3> QED
      BY <1>3, <3>1 DEF Nestings
  <2> HIDE DEF N
  <2>3. Join(N[p], B) \subseteq D
    BY <1>3, <2>1, FirstEntry
  <2> HIDE DEF D, B, L
  <2>5. Join(N[p], Join(B, L)) \subseteq Join(D, L)
    BY <1>3, <1>9, <2>2, <2>3, JoinBehind
  <2>6. Ahead' = Join(N[p], Rest(disk, f, depth))
    BY <1>1, <1>2, <1>5, <1>10, EnvSame DEF Ahead, N
  <2>7. Ahead' \subseteq Ahead
    BY <1>6, <1>7, <2>5, <2>6
  <2> QED
    BY <1>1, <1>2, <1>5, <2>7, ReadsOn DEF Stops
<1>11. CASE ~Selected(Top.glob, p)
  <2>1. p \notin Sure(disk, Top.glob, Top.todo)
    BY <1>3, <1>11 DEF Selected, Sure, Selection, Existing
  <2> HIDE DEF N
  <2>2. B \subseteq D
    BY <1>3, <2>1, FirstEntry
  <2>3. Ahead' = Rest(disk, f, depth)
    BY <1>1, <1>2, <1>5, <1>11, EnvSame DEF Ahead
  <2> HIDE DEF B, D, L
  <2>4. Ahead' \subseteq Ahead
    BY <1>6, <1>7, <2>2, <2>3, JoinFewer
  <2> QED
    BY <1>1, <1>2, <1>5, <2>4, ReadsOn DEF Stops
<1> QED
  BY <1>10, <1>11

(* Every file of the directory has been read, and it is to be closed.      *)
LEMMA EndOfDirStory ==
  ASSUME Inv, Placed, Story, EndOfDir
  PROVE  Story'
<1> DEFINE L == LinesFrom(disk, Top, depth, Top.line + 1)
           N == Nested(disk, depth)
<1>1. /\ pc = "readdir" /\ pc' = "close" /\ ret' = ret /\ vals' = vals /\ UNCHANGED env
      /\ depth' = depth /\ frame' = frame /\ Top.todo = {} /\ depth > 0 /\ ret = "SUCCEED"
  BY DEF EndOfDir, table, stack, Inv, FailUnwinds, TypeOK, StackInv, Where, InFile
<1>2. N \in Nestings /\ Rest(disk, Top, depth) = Join(InDirectory(disk, Top.glob, Top.todo, N), L)
  BY <1>1, InDir
<1>3. Sure(disk, Top.glob, Top.todo) = {} /\ Maybe(disk, Top.glob, Top.todo) = {}
  BY <1>1 DEF Sure, Maybe, Selection
<1>4. InDirectory(disk, Top.glob, Top.todo, N) = Closing(Top.glob.path)
  <2> HIDE DEF N
  <2>1. DirListings({}, {}, N) = {<<>>}
    BY <1>2, NoFile
  <2>2. Join({<<>>}, Closing(Top.glob.path)) = Closing(Top.glob.path)
    BY ClosingType, JoinEmpty DEF SomeListings
  <2> QED
    BY <1>3, <2>1, <2>2 DEF InDirectory
<1>5. Ahead = Rest(disk, Top, depth) /\ Ahead' = Join(Closing(Top.glob.path), L)
  BY <1>1, EnvSame DEF Ahead, Top
<1>6. Ahead' = Ahead
  BY <1>2, <1>4, <1>5
<1> QED
  BY <1>1, <1>6, ReadsOn DEF Stops

(* The directory is closed, after its last file or after a failure, and    *)
(* closing it may fail.                                                    *)
LEMMA CloseDirStory ==
  ASSUME Inv, Placed, Story, CloseDir
  PROVE  Story'
<1> DEFINE f == [Top EXCEPT !.dir = FALSE, !.todo = {}]
           L == LinesFrom(disk, Top, depth, Top.line + 1)
           C == Closing(Top.glob.path)
<1>1. /\ pc = "close" /\ pc' = "clean" /\ vals' = vals /\ UNCHANGED env
      /\ depth' = depth /\ Update(f) /\ depth > 0 /\ ret \in {"SUCCEED", "FAIL"}
      /\ ret' = ret \/ (ret' = "FAIL" /\ Top.glob.path \in Faulty)
  BY DEF CloseDir, table, Inv, TypeOK, StackInv, Where, InFile
<1>2. CASE ret = "FAIL"
  <2>1. ret' = "FAIL"
    BY <1>1, <1>2
  <2> QED
    BY <1>1, <1>2, <2>1, KeepsFailing
<1>3. ASSUME ret = "SUCCEED"
      PROVE  Ahead = Join(C, L) /\ L \in SomeListings
  BY <1>1, InDir DEF Ahead
<1>4. CASE ret = "SUCCEED" /\ ret' = ret
  <2>1. f.file = Top.file /\ f.line = Top.line
    BY <1>1, TopFacts DEF Frames
  <2> HIDE DEF f
  <2>2. Top' = f /\ \A l \in 1 .. depth - 1 : frame'[l] = frame[l]
    BY <1>1, UpdateFacts
  <2>3. Ahead' = L
    BY <1>1, <2>1, <2>2, EnvSame DEF Ahead, LinesFrom, LinesIn
  <2>4. <<>> \in C
    BY ClosingType
  <2>5. Join({<<>>}, L) = L
    BY <1>3, <1>4, JoinEmpty DEF SomeListings
  <2> HIDE DEF C, L
  <2>6. Join({<<>>}, L) \subseteq Join(C, L)
    BY <2>4, JoinFewer
  <2>7. Ahead' \subseteq Ahead
    BY <1>3, <1>4, <2>3, <2>5, <2>6
  <2> QED
    BY <1>1, <1>4, <2>2, <2>7, ReadsOn DEF Stops
<1>5. CASE ret = "SUCCEED" /\ ret' = "FAIL"
  <2>1. <<Failure>> \in C
    BY <1>1, <1>5, ClosingType
  <2> HIDE DEF C, L
  <2>2. Join({<<Failure>>}, L) \subseteq Ahead
    BY <1>3, <1>5, <2>1, JoinFewer
  <2>3. [ret |-> "FAIL", vals |-> vals] \in Targets
    BY <1>1, <1>3, <1>5, <2>2, FailureAt DEF Stops
  <2> QED
    BY <1>1, <1>5, <2>3, Fails
<1> QED
  BY <1>1, <1>2, <1>4, <1>5

(* The Include line is over: the next line, or a failure.                  *)
LEMMA CleanStory ==
  ASSUME Inv, Placed, Story, Clean
  PROVE  Story'
<1>1. pc = "clean" /\ vals' = vals /\ UNCHANGED env /\ depth > 0 /\ ret \in {"SUCCEED", "FAIL"}
  BY DEF Clean, table, Inv, TypeOK, StackInv, Where, InFile
<1>2. CASE ret = "FAIL"
  <2>1. ret' = "FAIL" /\ pc' = "return"
    BY <1>2 DEF Clean, Error, Return
  <2> QED
    BY <1>1, <1>2, <2>1, KeepsFailing
<1>3. CASE ret = "SUCCEED"
  <2>1. Update(NextLine) /\ pc' = "line" /\ depth' = depth /\ ret' = ret
    BY <1>3 DEF Clean
  <2>2. NextLine.file = Top.file /\ NextLine.line = Top.line + 1
    BY <1>1, TopFacts DEF NextLine, Frames
  <2>3. Top' = NextLine /\ \A l \in 1 .. depth - 1 : frame'[l] = frame[l]
    BY <1>1, <2>1, UpdateFacts
  <2>4. Ahead' = Ahead
    BY <1>1, <2>1, <2>2, <2>3, EnvSame DEF Ahead, LinesFrom, LinesIn
  <2> QED
    BY <1>1, <1>3, <2>1, <2>3, <2>4, ReadsOn DEF Stops
<1> QED
  BY <1>1, <1>2, <1>3

(* An included file is over, and its includer reads on or fails.           *)
LEMMA ReturnStory ==
  ASSUME Inv, Placed, Story, ReturnToObject \/ ReturnToDir
  PROVE  Story'
<1>1. /\ pc = "return" /\ ret' = ret /\ vals' = vals /\ UNCHANGED env /\ depth' = depth
      /\ frame' = frame /\ depth > 0 /\ ret \in {"SUCCEED", "FAIL"}
      /\ pc' \in {"clean", "readdir", "close"}
  BY DEF ReturnToObject, ReturnToDir, table, stack, Inv, TypeOK
<1>2. CASE ret = "FAIL"
  BY <1>1, <1>2, KeepsFailing
<1>3. CASE ret = "SUCCEED"
  <2>1. /\ Top.dir  => pc' = "readdir"
        /\ ~Top.dir => pc' = "clean"
    BY <1>3 DEF ReturnToObject, ReturnToDir
  <2>2. Ahead = Rest(disk, Top, depth)
    BY <1>1 DEF Ahead
  <2>3. CASE Top.dir
    <3>1. Ahead' = Ahead
      BY <1>1, <2>1, <2>2, <2>3, EnvSame DEF Ahead, Top
    <3> QED
      BY <1>1, <1>3, <2>1, <2>3, <3>1, ReadsOn DEF Stops
  <2>4. CASE ~Top.dir
    <3>1. /\ Top \in Frames /\ disk \in DOMAIN World /\ depth \in 0 .. MAX_INCLUDE_LEVEL
          /\ Top.line <= Len(LinesIn(disk, Top)) /\ IsFiniteSet(Top.todo)
      BY <1>1, TopFacts, LinesInType
    <3>2. Rest(disk, Top, depth) = LinesFrom(disk, Top, depth, Top.line + 1)
      BY <2>4, <3>1, RestType
    <3>3. Ahead' = Ahead
      BY <1>1, <2>1, <2>2, <2>4, <3>2, EnvSame DEF Ahead, Top
    <3> QED
      BY <1>1, <1>3, <2>1, <2>4, <3>3, ReadsOn DEF Stops
  <2> QED
    BY <2>3, <2>4
<1> QED
  BY <1>1, <1>2, <1>3

-----------------------------------------------------------------------------
(* Entering and leaving an activation.                                     *)
LEMMA CallFacts ==
  ASSUME Inv, Placed, Story, pc = "call", depth > 0
  PROVE  /\ disk \in DOMAIN World /\ depth \in 0 .. MAX_INCLUDE_LEVEL /\ Disk = World[disk]
         /\ depth \in Nat /\ ret = "SUCCEED" /\ arg \in Files
         /\ Rest(disk, Top, depth) \in SomeListings
         /\ Ahead = Join(Nested(disk, depth)[arg], Rest(disk, Top, depth))
<1>1. /\ disk \in DOMAIN World /\ depth \in 0 .. MAX_INCLUDE_LEVEL /\ Top \in Frames
      /\ Top.line <= Len(LinesIn(disk, Top)) /\ IsFiniteSet(Top.todo)
  BY TopFacts, LinesInType
<1>2. Rest(disk, Top, depth) \in SomeListings
  BY <1>1, RestType
<1>3. ret = "SUCCEED" /\ arg \in Files /\ depth \in Nat
  BY DEF Inv, FailUnwinds, TypeOK, StackInv, Where
<1> QED
  BY <1>1, <1>2, <1>3 DEF Ahead, Disk

(* The file is gone or nested too deep: the includer fails.                *)
LEMMA CannotCallStory ==
  ASSUME Inv, Placed, Existing, Story, depth > 0, RecursionDetected \/ CannotOpen
  PROVE  Story'
<1>1. /\ pc = "call" /\ pc' = "return" /\ ret' = "FAIL" /\ vals' = vals /\ UNCHANGED env
  BY DEF RecursionDetected, CannotOpen, Return, table, Inv, TypeOK
<1>2. /\ disk \in DOMAIN World /\ depth \in 0 .. MAX_INCLUDE_LEVEL /\ Disk = World[disk]
      /\ ret = "SUCCEED" /\ arg \in Files /\ Rest(disk, Top, depth) \in SomeListings
      /\ Ahead = Join(Nested(disk, depth)[arg], Rest(disk, Top, depth))
  BY <1>1, CallFacts
<1>3. depth = MAX_INCLUDE_LEVEL \/ arg \notin Stable(World[disk])
  <2>1. CASE RecursionDetected
    BY <1>2, <2>1, BoundsAssumption DEF RecursionDetected
  <2>2. CASE CannotOpen
    BY <1>2, <2>2 DEF CannotOpen, Existing
  <2> QED
    BY <2>1, <2>2
<1>4. <<Failure>> \in Nested(disk, depth)[arg]
  BY <1>2, <1>3, NestedFile
<1>5. Join({<<Failure>>}, Rest(disk, Top, depth)) \subseteq Ahead
  BY <1>2, <1>4, JoinFewer
<1>6. [ret |-> "FAIL", vals |-> vals] \in Targets
  BY <1>1, <1>2, <1>5, FailureAt DEF Stops
<1> QED
  BY <1>1, <1>6, Fails

(* The outermost call.                                                     *)
LEMMA OutermostFails ==
  ASSUME Inv, Existing, Story, depth = 0, RecursionDetected \/ CannotOpen
  PROVE  Story'
<1>1. /\ CannotOpen /\ pc = "call" /\ pc' = "return" /\ vals' = vals /\ UNCHANGED env
      /\ ret' = IF optional THEN "SUCCEED" ELSE "FAIL"
  BY BoundsAssumption DEF RecursionDetected, CannotOpen, Return, table
<1>2. /\ Result = Initial /\ arg = Disk.main /\ Result \in AnOutcome
      /\ Disk.main \notin Stable(Disk) \cup {NULL}
  BY <1>1 DEF Story, CannotOpen, Existing
<1>3. (IF optional THEN Initial ELSE [Initial EXCEPT !.ret = "FAIL"]) \in Targets
  BY <1>2 DEF Targets, Meaning, WithoutMain
<1>4. Result' = (IF optional THEN Initial ELSE [Initial EXCEPT !.ret = "FAIL"])
  <2>1. Initial = [ret |-> "SUCCEED", vals |-> vals]
    BY <1>2 DEF Initial, Result
  <2> QED
    BY <1>1, <2>1 DEF Result
<1>5. Result' \in Targets /\ Result' \in AnOutcome
  <2>1. Result' \in Targets
    BY <1>3, <1>4
  <2>2. Result' \in AnOutcome
    BY <1>1, <1>2 DEF Result, AnOutcome
  <2> QED
    BY <2>1, <2>2
<1>6. depth' = 0
  BY <1>1 DEF CannotOpen, stack
<1> QED
  BY <1>1, <1>5, <1>6, EnvSame DEF Story

(* Without a file, only the mandatory parameters are looked at.            *)
LEMMA NoFileGivenStory ==
  ASSUME Inv, Story, NoFileGiven
  PROVE  Story'
<1>1. /\ pc = "call" /\ pc' = "mandatory" /\ vals' = vals /\ UNCHANGED env /\ ret' = ret
      /\ depth' = depth /\ arg = NULL /\ depth = 0
  BY DEF NoFileGiven, table, stack, Inv, StackInv, Where, TypeOK
<1>2. /\ Result = Initial /\ Disk.main = NULL /\ Initial \in AnOutcome /\ ret = "SUCCEED"
  BY <1>1 DEF Story, Inv, FailUnwinds, TypeOK
<1>3. Checked(Read(<<>>, Initial, strict)) \in Targets
  <2>1. NULL \notin Possible(Disk)
    BY FilesOf, DiskAssumption DEF Inv, TypeOK, Disk, Paths
  <2>2. MainListings(Disk) = {<<>>}
    BY <1>2, <2>1 DEF MainListings
  <2> QED
    BY <2>2 DEF Targets, Meaning
<1>4. Checked(Result) \in Targets
  BY <1>2, <1>3, ReadNothing
<1>5. Result' = Result
  BY <1>1 DEF Result
<1>6. Checked(Result') \in Targets /\ Result' \in AnOutcome
  BY <1>2, <1>4, <1>5
<1> QED
  BY <1>1, <1>2, <1>6, EnvSame DEF Story

(* A file is opened: its listings come before what its includer has left.  *)
LEMMA OpenStory ==
  ASSUME Inv, Placed, Existing, Story, Open
  PROVE  Story'
<1>1. /\ pc = "call" /\ pc' = "line" /\ vals' = vals /\ UNCHANGED env /\ ret' = ret
      /\ arg \in Possible(World[disk]) /\ ret = "SUCCEED" /\ Result \in AnOutcome
      /\ disk \in DOMAIN World /\ Disk = World[disk]
  BY DEF Open, table, Story, Inv, FailUnwinds, TypeOK, Disk, Existing
<1>2. /\ depth \in 0 .. MAX_INCLUDE_LEVEL /\ depth < MAX_INCLUDE_LEVEL /\ depth' = depth + 1
      /\ Top' = NewFrame(arg) /\ arg \in Files
      /\ \A l \in 1 .. depth : frame'[l] = frame[l]
  BY OpenFacts
<1>3. Result' = Result
  BY <1>1 DEF Result
<1> DEFINE A == LinesFrom(disk, NewFrame(arg), depth + 1, 1)
<1>4. Ahead' = A
  <2>1. NewFrame(arg).line = 1
    BY DEF NewFrame
  <2> QED
    BY <1>1, <1>2, <2>1, EnvSame DEF Ahead
<1>5. A \in SomeListings
  <2>1. /\ NewFrame(arg) \in Frames /\ depth + 1 \in 0 .. MAX_INCLUDE_LEVEL
        /\ NewFrame(arg).line = 1
    BY <1>2, OpenFacts, BoundsAssumption DEF NewFrame
  <2>2. Len(LinesIn(disk, NewFrame(arg))) \in Nat
    BY <1>1, <2>1, LinesInType
  <2>3. 1 \in 1 .. Len(LinesIn(disk, NewFrame(arg))) + 1
    BY <2>2
  <2> QED
    BY <1>1, <2>1, <2>3, LinesFromEquation
<1>7. CASE depth = 0
  <2> DEFINE K == [l \in 0 .. MAX_INCLUDE_LEVEL |-> {<<>>}]
  <2>1. 0 \in 0 .. MAX_INCLUDE_LEVEL
    BY BoundsAssumption
  <2>2. Follow(K)'
    <3>1. K \in [0 .. MAX_INCLUDE_LEVEL -> SomeListings] /\ K[0] = {<<>>}
      BY <2>1, JustNothing
    <3>2. depth' = 1
      BY <1>2, <1>7
    <3> HIDE DEF K
    <3>3. \A l \in 1 .. depth' - 1 : FALSE
      BY <3>2
    <3> QED
      BY <3>1, <3>3 DEF Follow
  <2>3. Result = Initial /\ arg = Disk.main
    BY <1>1, <1>7 DEF Story
  <2>4. \A t \in A : Checked(Read(t, Initial, strict)) \in Targets
    <3>1. MAX_INCLUDE_LEVEL - (depth + 1) = MAX_INCLUDE_LEVEL - 1
      BY <1>7, BoundsAssumption
    <3>2. Disk.main \in Possible(Disk) /\ Disk.main # NULL
      BY <1>1, <1>2, <2>3, DiskAssumption DEF Paths
    <3>3. A = FileListings(arg, World[disk], Nested(disk, depth + 1))
      BY <1>1, <1>2, WholeFile
    <3>4. A = MainListings(Disk)
      BY <1>1, <2>3, <3>1, <3>2, <3>3 DEF MainListings, Nested
    <3> HIDE DEF A
    <3> QED
      BY <3>4 DEF Targets, Meaning
  <2>5. Leads(Targets, strict, Result, A, {<<>>})
    <3> SUFFICES ASSUME NEW a \in A, NEW k \in {<<>>}
                 PROVE  Checked(Read(a \o k, Result, strict)) \in Targets
      BY DEF Leads
    <3>1. a \in Seq(AllLines)
      BY <1>5 DEF SomeListings
    <3>2. a \o k = a
      BY <3>1
    <3> QED
      BY <2>3, <2>4, <3>2
  <2>6. K[depth' - 1] = {<<>>}
    <3>1. depth' - 1 = 0
      BY <1>2, <1>7
    <3> QED
      BY <2>1, <3>1
  <2> HIDE DEF K, A
  <2> QED
    BY <1>1, <1>3, <1>4, <2>2, <2>5, <2>6, GoesOn DEF Stops
<1>8. CASE depth > 0
  <2> DEFINE R == Rest(disk, Top, depth)
  <2>1. PICK K : Follow(K) /\ Promise(K) /\ K[depth - 1] \in SomeListings
    BY <1>1, <1>8, Promised DEF Stops
  <2>2. R \in SomeListings /\ Ahead = Join(Nested(disk, depth)[arg], R)
    BY <1>1, <1>8, CallFacts
  <2> DEFINE J == Join(R, K[depth - 1])
  <2>3. J \in SomeListings
    BY <2>1, <2>2, SomeJoined
  <2>4. Leads(Targets, strict, Result, Ahead, K[depth - 1])
    BY <1>1, <2>1 DEF Promise
  <2>5. Leads(Targets, strict, Result, A, J)
    <3>1. A \subseteq Nested(disk, depth)[arg]
      BY <1>1, <1>2, NestedFile
    <3>2. Nested(disk, depth)[arg] \in SomeListings
      BY <1>1, <1>2, NestedType
    <3> HIDE DEF R, A
    <3>3. Leads(Targets, strict, Result, Nested(disk, depth)[arg], J)
      BY <2>1, <2>2, <2>4, <3>2, LeadsInto
    <3> QED
      BY <3>1, <3>3, LeadsFewer
  <2> HIDE DEF J, R, A
  <2>6. K \in [0 .. MAX_INCLUDE_LEVEL -> SomeListings] /\ K[0] = {<<>>}
    BY <2>1 DEF Follow
  <2>11. PICK H : H = [K EXCEPT ![depth] = J]
    OBVIOUS
  <2>7. /\ H \in [0 .. MAX_INCLUDE_LEVEL -> SomeListings] /\ H[0] = {<<>>}
        /\ H[depth] = J /\ \A l \in 0 .. depth - 1 : H[l] = K[l]
    BY <1>2, <1>8, <2>3, <2>6, <2>11, BoundsAssumption
  <2>8. ASSUME NEW l \in 1 .. depth
        PROVE  Join(Rest(disk, frame[l], l), H[l - 1]) \subseteq H[l]
    <3>1. l - 1 \in 0 .. depth - 1 /\ l \in Int
      BY <1>2
    <3>2. CASE l = depth
      BY <2>7, <3>1, <3>2 DEF J, R, Top
    <3>3. CASE l # depth
      <4>1. l \in 1 .. depth - 1 /\ l \in 0 .. depth - 1
        BY <1>2, <3>3
      <4> QED
        BY <2>1, <2>7, <3>1, <4>1 DEF Follow
    <3> QED
      BY <3>2, <3>3
  <2>9. Follow(H)'
    <3>1. depth' - 1 = depth
      BY <1>2
    <3>2. disk' = disk
      BY <1>1, EnvSame
    <3>3. \A l \in 1 .. depth : Join(Rest(disk, frame'[l], l), H[l - 1]) \subseteq H[l]
      BY <1>2, <2>8
    <3> QED
      BY <2>7, <3>1, <3>2, <3>3 DEF Follow
  <2>10. H[depth' - 1] = J
    <3>1. depth' - 1 = depth
      BY <1>2
    <3> QED
      BY <2>7, <3>1
  <2> QED
    BY <1>1, <1>3, <1>4, <2>5, <2>9, <2>10, GoesOn DEF Stops
<1> QED
  BY <1>2, <1>7, <1>8

(* A file ends: what its includer has left is what is left.                *)
LEMMA EndOfFileStory ==
  ASSUME Inv, Placed, Story, EndOfFile
  PROVE  Story'
<1>1. /\ pc = "line" /\ AtEOF /\ Close /\ UNCHANGED env /\ vals' = vals /\ ret = "SUCCEED"
      /\ depth > 0 /\ depth \in Nat /\ Result \in AnOutcome
  BY DEF EndOfFile, table, Inv, FailUnwinds, TypeOK, StackInv, Where, InFile, Story
<1>2. PICK K : Follow(K) /\ Promise(K) /\ K[depth - 1] \in SomeListings
  BY <1>1, Promised DEF Stops
<1>3. Ahead = {<<>>}
  <2>1. /\ Top \in Frames /\ disk \in DOMAIN World /\ depth \in 0 .. MAX_INCLUDE_LEVEL
        /\ Top.line \in Nat /\ Len(LinesIn(disk, Top)) \in Nat
        /\ Top.line > Len(LinesIn(disk, Top)) /\ Top.line <= Len(LinesIn(disk, Top)) + 1
    BY <1>1, TopFacts, LinesInType
  <2>2. Top.line = Len(LinesIn(disk, Top)) + 1
    BY <2>1
  <2> QED
    BY <1>1, <2>1, <2>2, LinesFromEquation DEF Ahead
<1>4. Leads(Targets, strict, Result, {<<>>}, K[depth - 1])
  BY <1>1, <1>2, <1>3 DEF Promise
<1>5. depth' = depth - 1 /\ \A l \in 1 .. depth - 1 : frame'[l] = frame[l]
  BY <1>1, CloseFacts
<1>6. CASE depth = 1
  <2>1. pc' = "mandatory" /\ ret' = ret
    BY <1>6 DEF EndOfFile
  <2>2. K[depth - 1] = {<<>>}
    <3>1. depth - 1 = 0
      BY <1>6
    <3> QED
      BY <1>2, <3>1 DEF Follow
  <2>3. <<>> \in {<<>>} /\ <<>> \o <<>> = <<>>
    OBVIOUS
  <2>4. Checked(Read(<<>> \o <<>>, Result, strict)) \in Targets
    BY <1>4, <2>2, <2>3 DEF Leads
  <2>5. Checked(Result) \in Targets
    BY <1>1, <2>3, <2>4, ReadNothing
  <2>6. Result' = Result
    BY <1>1, <2>1 DEF Result
  <2>7. Checked(Result') \in Targets /\ Result' \in AnOutcome
    BY <1>1, <2>5, <2>6
  <2>8. depth' = 0
    BY <1>5, <1>6
  <2> QED
    BY <1>1, <2>1, <2>7, <2>8, EnvSame DEF Story
<1>7. CASE depth # 1
  <2> DEFINE d == depth - 1
  <2>1. pc' = "return" /\ ret' = "SUCCEED" /\ d \in 1 .. depth - 1 /\ d \in Nat /\ d # 0
    BY <1>1, <1>7 DEF EndOfFile, Return
  <2>2. Follow(K)'
    BY <1>1, <1>2, <1>5, <2>1, FollowSame
  <2>3. Join(Rest(disk, frame[d], d), K[d - 1]) \subseteq K[d]
    BY <1>2, <2>1 DEF Follow
  <2>4. /\ frame[d] \in Frames /\ disk \in DOMAIN World /\ d \in 0 .. MAX_INCLUDE_LEVEL
        /\ frame[d].line <= Len(LinesIn(disk, frame[d])) /\ IsFiniteSet(frame[d].todo)
    <3>1. d \in 1 .. depth /\ d # depth /\ depth \in 0 .. MAX_INCLUDE_LEVEL
      BY <1>1, <2>1 DEF Inv, TypeOK
    <3>2. frame[d] \in Frames /\ disk \in DOMAIN World /\ d \in 0 .. MAX_INCLUDE_LEVEL
      BY <3>1, BoundsAssumption DEF Inv, StackInv, TypeOK
    <3>3. /\ frame[d].line <= Len(LinesIn(disk, frame[d])) + 0 /\ IsFiniteSet(frame[d].todo)
      BY <3>1 DEF Placed, InLines
    <3> QED
      BY <3>2, <3>3, LinesInType
  <2>5. Rest(disk, frame[d], d) \in SomeListings
    BY <2>4, RestType
  <2>6. K[d - 1] \in SomeListings /\ K[d] \in SomeListings
    <3>1. d - 1 \in 0 .. MAX_INCLUDE_LEVEL /\ d \in 0 .. MAX_INCLUDE_LEVEL
      BY <1>1, <1>7, BoundsAssumption DEF Inv, TypeOK
    <3> QED
      BY <1>2, <3>1 DEF Follow
  <2>7. Leads(Targets, strict, Result, Rest(disk, frame[d], d), K[d - 1])
    BY <1>4, <2>3, <2>5, <2>6, LeadsBack
  <2>8. Ahead' = Rest(disk, frame[d], d)
    <3>1. depth' = d /\ frame'[d] = frame[d]
      BY <1>5, <2>1
    <3> HIDE DEF d
    <3> QED
      BY <1>1, <2>1, <3>1, EnvSame DEF Ahead, Top
  <2>9. Result' = Result
    BY <1>1, <2>1 DEF Result
  <2>10. Leads(Targets, strict, Result', Ahead', K[depth' - 1]) /\ depth' # 0
    BY <1>5, <2>1, <2>7, <2>8, <2>9
  <2> QED
    BY <1>1, <2>1, <2>2, <2>9, <2>10, GoesOn DEF Stops
<1> QED
  BY <1>6, <1>7

(* The mandatory parameters, at the end of everything.                     *)
LEMMA CheckMandatoryStory ==
  ASSUME Inv, Story, CheckMandatory
  PROVE  Story'
<1>1. /\ pc = "mandatory" /\ pc' = "return" /\ vals' = vals /\ UNCHANGED env /\ depth' = depth
      /\ depth = 0 /\ ret = "SUCCEED" /\ Checked(Result) \in Targets /\ Result \in AnOutcome
      /\ ret' = IF \E e \in Entries : Missing(e) THEN "FAIL" ELSE "SUCCEED"
  BY DEF CheckMandatory, Return, table, stack, Inv, FailUnwinds, TypeOK, StackInv, Where, Story
<1>2. \A e \in Entries : Missing(e) <=> e \in Unset(vals)
  <2> SUFFICES ASSUME NEW e \in Entries PROVE Missing(e) <=> e \in Unset(vals)
    OBVIOUS
  <2>1. cfg[e].type \in Types
    BY EntryType
  <2>2. CASE cfg[e].type \in {"INT", "UINT64"}
    BY <2>2 DEF Missing, Unset, InitialValue
  <2>3. CASE cfg[e].type \in {"STRING", "STRING_LIST", "MULTISTRING"}
    BY <2>3 DEF Missing, Unset, InitialValue
  <2> QED
    BY <2>1, <2>2, <2>3 DEF Types
<1>3. (\E e \in Entries : Missing(e)) <=> Unset(vals) # {}
  BY <1>2 DEF Unset
<1>4. Result' = Checked(Result)
  BY <1>1, <1>3 DEF Result, Checked
<1>5. Result' \in AnOutcome
  BY <1>1 DEF Result, AnOutcome
<1>6. Result' \in Targets
  BY <1>1, <1>4
<1> QED
  BY <1>1, <1>5, <1>6, EnvSame DEF Story

(* The reader stops.                                                       *)
LEMMA StopStory ==
  ASSUME Inv, Story, ReturnToCaller \/ DoubleFree
  PROVE  Story'
<1>1. /\ vals' = vals /\ UNCHANGED env /\ ret' = ret /\ ret \in {"SUCCEED", "FAIL"}
      /\ depth' = depth
  BY DEF ReturnToCaller, DoubleFree, table, stack, Inv, TypeOK
<1>2. Result' = Result /\ Result \in AnOutcome
  BY <1>1 DEF Result, Story
<1>3. CASE ReturnToCaller
  <2>1. pc' = "done" /\ Result \in Targets
    BY <1>3 DEF ReturnToCaller, Story
  <2>2. Result' \in Targets /\ Result' \in AnOutcome
    BY <1>2, <2>1
  <2> QED
    BY <1>1, <2>1, <2>2, EnvSame DEF Story, Stops
<1>4. CASE DoubleFree
  <2>1. pc' = "double_free"
    BY <1>4 DEF DoubleFree
  <2>2. ret = "FAIL" => Result \in Targets
    BY DEF Story
  <2>3. (ret' = "FAIL" => Result' \in Targets) /\ Result' \in AnOutcome
    BY <1>1, <1>2, <2>2
  <2> QED
    BY <1>1, <2>1, <2>3, EnvSame DEF Story, Stops
<1> QED
  BY <1>3, <1>4

-----------------------------------------------------------------------------
(* Every step keeps the promise, or malloc failed.                         *)
LEMMA StoryPreserved ==
  ASSUME Inv, Placed, Existing, Story, [Next]_vars
  PROVE  Lost' \/ Story'
<1>1. CASE RecursionDetected \/ CannotOpen
  <2>1. depth \in Nat
    BY DEF Inv, TypeOK
  <2> QED
    BY <1>1, <2>1, CannotCallStory, OutermostFails
<1>2. CASE NoFileGiven
  BY <1>2, NoFileGivenStory
<1>3. CASE Open
  BY <1>3, OpenStory
<1>4. CASE SkipLine
  BY <1>4, SkipLineStory
<1>5. CASE InvalidLine
  BY <1>5, InvalidLineStory
<1>6. CASE IncludeLine
  BY <1>6, IncludeLineStory
<1>7. CASE AssignmentLine
  BY <1>7, AssignmentLineStory
<1>8. CASE EndOfFile
  BY <1>8, EndOfFileStory
<1>9. CASE OtherParameter
  BY <1>9, OtherParameterStory
<1>10. CASE IncorrectConfig
  BY <1>10, IncorrectConfigStory
<1>11. CASE StoreNumber \/ StoreString \/ StoreStringList \/ StoreMultistring
  BY <1>11, StoreStory
<1>12. CASE EndOfTable
  BY <1>12, EndOfTableStory
<1>13. CASE ParseGlob
  BY <1>13, ParseGlobStory
<1>14. CASE BadGlob \/ StatFails \/ CannotOpenDir
  BY <1>14, CannotFollowStory
<1>15. CASE StatFile
  BY <1>15, StatFileStory
<1>16. CASE StatDir
  BY <1>16, StatDirStory
<1>17. CASE Clean
  BY <1>17, CleanStory
<1>18. CASE OpenDir
  BY <1>18, OpenDirStory
<1>19. CASE ReadDir
  BY <1>19, ReadDirStory
<1>20. CASE EndOfDir
  BY <1>20, EndOfDirStory
<1>21. CASE CloseDir
  BY <1>21, CloseDirStory
<1>22. CASE ReturnToObject \/ ReturnToDir
  BY <1>22, ReturnStory
<1>23. CASE CheckMandatory
  BY <1>23, CheckMandatoryStory
<1>24. CASE ReturnToCaller \/ DoubleFree
  BY <1>24, StopStory
<1>25. CASE CopyStringError \/ ParseGlobOutOfMemory
  BY <1>25 DEF Lost, CopyStringError, ParseGlobOutOfMemory, Error, Return
<1>26. CASE UNCHANGED vars
  BY <1>26, ZenonT(30)
  DEF vars, env, stack, table, Story, Result, Targets, Disk, Follow, Promise, Ahead, Top,
      Halfway, Passed, Line
<1>27. CASE ReadDirOutOfMemory
  <2>1. /\ pc' = "null_write" /\ ret = "SUCCEED" /\ ret' = ret /\ vals' = vals
    BY <1>27 DEF ReadDirOutOfMemory, Inv, FailUnwinds, TypeOK, table
  <2>2. Result' = Result /\ Result \in AnOutcome
    BY <2>1 DEF Result, Story
  <2> QED
    BY <2>1, <2>2 DEF Story, Stops
<1>28. CASE OtherProcess
  <2>1. UNCHANGED <<pc, disk, optional, strict, arg, stack, table, ret, handles>>
    BY <1>28 DEF OtherProcess
  <2> QED
    BY <2>1, ZenonT(30)
    DEF stack, table, Story, Result, Targets, Disk, Follow, Promise, Ahead, Top, Halfway, Passed,
        Line
<1> QED
  BY <1>1, <1>2, <1>3, <1>4, <1>5, <1>6, <1>7, <1>8, <1>9, <1>10, <1>11, <1>12, <1>13, <1>14,
     <1>15, <1>16, <1>17, <1>18, <1>19, <1>20, <1>21, <1>22, <1>23, <1>24, <1>25, <1>26, <1>27,
     <1>28
  DEF Next, Parse, Stopped

(* The promise is made at the start.                                       *)
LEMMA StoryStarts == Init => Placed /\ Existing /\ Story
<1> SUFFICES ASSUME Init PROVE Placed /\ Existing /\ Story
  OBVIOUS
<1>1. pc = "call" /\ depth = 0 /\ ret = "SUCCEED" /\ present = Disk.files /\ arg = Disk.main
  BY DEF Init
<1>2. Placed /\ Existing
  BY <1>1 DEF Placed, InLines, Existing, Stable, Possible
<1>3. Result = Initial
  BY DEF Init, Result, Initial
<1>4. Initial \in AnOutcome
  <2>1. Inv
    BY Initially
  <2>2. /\ DOMAIN vals = Entries /\ \A e \in Entries : vals[e] \in Values(cfg[e])
        /\ \A e \in Entries : cfg[e].type = "MULTISTRING" => vals[e] \in Seq(Texts)
    BY <1>1, <2>1 DEF Inv, TypeOK, MultiOK
  <2>3. vals \in Variables
    BY <2>2 DEF Init, Variables
  <2> QED
    BY <2>3, <1>3, <1>1 DEF Result, AnOutcome
<1>5. Story
  BY <1>1, <1>3, <1>4 DEF Story
<1> QED
  BY <1>2, <1>5

(* parse_cfg_file returns and stores what the files mean, for every table, *)
(* every tree of files with every nesting, cycle and order of readdir,     *)
(* every level limit and every width of an int, while other processes      *)
(* remove and create any of the files and directories fail to open and to  *)
(* close: the recursion, the early returns, the loop over the table and    *)
(* the values trimmed in place amount to reading the lines one below the   *)
(* other.  When malloc may fail this holds of every success.               *)
THEOREM ReadingIsMeaning == Spec => []ReadsMeaning
<1>1. Init => Inv /\ Placed /\ Existing /\ (Lost \/ Story)
  BY Initially, StoryStarts
<1>2. Inv /\ Placed /\ Existing /\ (Lost \/ Story) /\ [Next]_vars
        => (Inv /\ Placed /\ Existing /\ (Lost \/ Story))'
  <2> SUFFICES ASSUME Inv, Placed, Existing, Lost \/ Story, [Next]_vars
               PROVE  (Inv /\ Placed /\ Existing /\ (Lost \/ Story))'
    OBVIOUS
  <2>1. Inv' /\ Placed' /\ Existing'
    BY Preserved, PlacedPreserved, ExistingPreserved
  <2>2. CASE Lost
    <3>1. ret' = "FAIL"
      BY <2>2, FailureStays DEF Lost
    <3> QED
      BY <2>1, <2>2, <3>1 DEF Lost
  <2>3. CASE Story
    BY <2>1, <2>3, StoryPreserved
  <2> QED
    BY <2>2, <2>3
<1>3. Inv /\ Placed /\ Existing /\ (Lost \/ Story) => ReadsMeaning
  BY DEF Story, ReadsMeaning, Targets, Lost
<1> QED
  BY <1>1, <1>2, <1>3, PTL DEF Spec
=============================================================================
