----------------------------- MODULE MCCfgParser -----------------------------
(* Values for the constants of CfgParser: three files, a directory, a      *)
(* table with one entry of each type, and small sets of lines.             *)
EXTENDS CfgMeaning, TLC

CONSTANTS main, f, g, d

MCFiles == {main, f, g}
MCDirs  == {d}

(* An int is 4 bits wide: 9 is stored as -7.                               *)
MCTexts   == {"0", "2", "9", "x", " y"}
MCNumber  == "0" :> 0 @@ "2" :> 2 @@ "9" :> 9 @@ "x" :> NaN @@ " y" :> NaN
MCTrimmed == [t \in MCTexts |-> IF t = " y" THEN "x" ELSE t]
MCIntModulus == 16

Param(p, type, mand, min, max) ==
  [parameter |-> p, type |-> type, mandatory |-> mand, min |-> min, max |-> max]

(* level is bounded, size is not, lvsize is set through two entries.       *)
MCCfg == << Param("level",  "INT",         TRUE,  0, 3),
            Param("lvsize", "STRING_LIST", TRUE,  0, 0),
            Param("lvsize", "STRING",      FALSE, 0, 0),
            Param("size",   "INT",         FALSE, 1, 0),
            Param("bytes",  "UINT64",      FALSE, 0, 0),
            Param("more",   "MULTISTRING", FALSE, 0, 0) >>

Set(p, t)     == [kind |-> "set", parameter |-> p, value |-> t]
Plain(k)      == [kind |-> k]
Include(F, p, M) == [kind |-> "include",
                     glob |-> [form |-> F, path |-> p, match |-> M]]

AWorld(m, l1, l2, l3, files, mem) ==
  [main |-> m, files |-> files, members |-> d :> mem,
   lines |-> main :> l1 @@ f :> l2 @@ g :> l3]

Level2 == Set("level", "2")
Size9  == Set("size", "9")
(* Two lines of main: every pair of the kinds of line there are.           *)
MainLines == <<Plain("skip"), Plain("non_utf8"), Level2, Set("level", "9"),
               Set("lvsize", " y"), Set("size", "x"), Set("other", "x"),
               Include("plain", f, {}), Include("plain", main, {}),
               Include("plain", d, {}), Include("star", d, {f}),
               Include("star", f, {}), Include("slash", d, {})>>
(* The included file f, which may include main again, and g.               *)
FLines == << <<>>, <<Set("more", "x")>>, <<Set("level", "0"), Size9>>,
             <<Plain("non_key_value")>>,
             <<Set("bytes", "9"), Include("plain", main, {})>>,
             <<Include("bad", g, {}), Level2>>, <<Include("plain", g, {})>> >>
GLines == <<Set("lvsize", "2"), Level2>>

Pairs ==
  [w \in (1 .. Len(MainLines)) \X (1 .. Len(MainLines)) \X (1 .. Len(FLines)) |->
     AWorld(main, <<MainLines[w[1]], MainLines[w[2]]>>, FLines[w[3]], GLines,
            MCFiles, {f, g, d})]

(* No file given, and files missing.                                       *)
FileSets == <<{}, {main}, {main, f}, {main, g}, MCFiles>>
Lacking ==
  [w \in {0} \X (1 .. 2) \X (1 .. Len(FileSets)) |->
     AWorld(IF w[2] = 1 THEN main ELSE NULL,
            <<Include("plain", g, {}), Include("plain", f, {})>>,
            <<Set("lvsize", "2")>>, <<Level2>>, FileSets[w[3]], {})]

StaticWorlds == Pairs @@ Lacking

(* Worlds in which f and g can be read once or, f or g changing between    *)
(* two Includes of the directory, twice, and cycles.                       *)
DirOf(M) == Include("star", d, M)
Changing ==
  << AWorld(main, <<Level2, DirOf({f, g})>>, <<Set("more", "x")>>,
            <<Set("lvsize", "x"), Set("more", "2")>>, MCFiles, {main, f, g, d}),
     AWorld(main, <<Level2, Include("plain", f, {})>>, <<Set("lvsize", "x"), DirOf({g})>>,
            <<Set("level", "0"), Set("more", "2")>>, MCFiles, {f, g}),
     AWorld(main, <<Level2, Set("lvsize", "x"), Include("plain", f, {}), Include("plain", g, {})>>,
            <<Set("more", "x")>>, <<Set("more", "2")>>, MCFiles \ {g}, {}),
     AWorld(main, <<DirOf({f, g}), Set("lvsize", "x"), DirOf({f, g})>>, <<Level2>>,
            <<Set("more", "2")>>, MCFiles \ {g}, {f, g}),
     AWorld(main, <<Level2, DirOf({f}), Include("plain", f, {})>>,
            <<Set("lvsize", "x"), DirOf({g})>>, <<Set("more", "2")>>, MCFiles, {f, g}),
     AWorld(main, <<Include("slash", d, {})>>, <<Level2>>,
            <<Include("plain", main, {})>>, MCFiles, {f, g}) >>

(* A directory of two files, one with a string of each kind, the other bad *)
(* or nested.                                                              *)
Exhausting ==
  << AWorld(main, <<Level2, DirOf({f, g})>>, <<Set("lvsize", " y"), Set("more", "x")>>,
            <<Plain("non_utf8")>>, MCFiles, {f, g, d}),
     AWorld(main, <<Include("plain", f, {}), Level2>>,
            <<Include("slash", d, {}), Set("more", "x"), Set("more", "x")>>,
            <<Set("lvsize", "x")>>, MCFiles, {g}) >>

ChangingOrExhausting == Changing \o Exhausting
=============================================================================
