--------------------------- MODULE SimulatorProofs ---------------------------
(***************************************************************************)
(* Proofs about Simulator, for every configuration file and file system,   *)
(* whatever atoi makes of a text and whatever memory malloc returns.       *)
(*                                                                         *)
(* main takes no step of the reader, so the reader's invariants hold of it *)
(* here; when it has returned they say what main may rely on (TableTyped). *)
(* MainInv adds what the values of the table have become: the two arrays   *)
(* (Arrays), the caches (Created), why main gave up (Blame), and which     *)
(* object each list head points at (Memory).                               *)
(***************************************************************************)
EXTENDS Simulator, CfgParserProofs

ReaderInv == Inv /\ HeapInv /\ NumbersInRange /\ NoFileOrComplete

(* Where main is, and what it has not touched yet.                         *)
Progress ==
  /\ at \in {"start", "load_cfg", "get_cache_lvsize", "get_cache_sways", "check", "levels"}
              \cup MainStops
  /\ at \notin {"start", "load_cfg", "aborted"} => pc = "done"
  /\ at = "aborted" => pc \in {"double_free", "null_write"}
  /\ at \in {"start", "load_cfg", "get_cache_lvsize"} => lvsize = NULL /\ sw = NULL
  /\ at = "get_cache_sways" => sw = NULL
  /\ at \notin {"levels", "done", "overflow", "divide_by_zero", "out_of_memory"} => made = <<>>

(* An array holds the tokens of its string, and no more than cfg_level.    *)
Holds(a, str) == a = Tokens(str) /\ Len(a) <= cfg_level
Arrays ==
  /\ lvsize = NULL \/ Holds(lvsize, cfg_lvsize)
  /\ sw = NULL \/ Holds(sw, cfg_sw)
  /\ at \in {"levels", "done", "divide_by_zero", "out_of_memory"} => NULL \notin {lvsize, sw}

(* What every way to give up says about the configuration or the memory.   *)
Blame ==
  /\ at = "null_read" => cfg_lvsize = NULL
  /\ at \in {"overflow", "divide_by_zero"} => ~WellFormed
  /\ at = "null_write" => MayRunOutOfMemory
  /\ at = "out_of_memory" => MayRunOutOfMemory \/ ~WellFormed
  /\ at \in {"get_cache_sways", "check", "adjust"} =>
       lvsize # NULL \/ MayRunOutOfMemory \/ cfg_lvsize = NULL
  /\ at \in {"check", "adjust"} => sw # NULL \/ MayRunOutOfMemory \/ cfg_sw = NULL
  /\ at = "adjust" => NULL \in {lvsize, sw}
  /\ at = "done" => Len(made) >= cfg_level

(* The caches that have been created.                                      *)
Caches == [t_cache : Int, l_cache : Nat, hp_cache : {"H_inclusive"}, cp_cache : {"CP_lru"},
           size : Nat \ {0}, ways : Int \ {0}, sets : Nat]
Created ==
  /\ made \in Seq(Caches)
  /\ made # <<>> => Len(made) <= cfg_level /\ cfg_linesize # 0
  /\ \A i \in DOMAIN made :
       made[i].sets = SET_WAYS_2_SETS(made[i].size, cfg_linesize, made[i].ways)

(* g_caches and the cache created last point at each other; the others     *)
(* still point at g_caches.                                                *)
ListHeads == {g_caches} \cup (1 .. MaxLevel)
Pointer(x) == IF x = g_caches THEN (IF made = <<>> THEN g_caches ELSE Len(made))
              ELSE IF x <= Len(made) THEN g_caches ELSE POISON
Memory ==
  IF at = "start" THEN m = [next |-> [x \in ListHeads |-> POISON], prev |-> [x \in ListHeads |-> POISON]]
  ELSE m = [next |-> [x \in ListHeads |-> Pointer(x)], prev |-> [x \in ListHeads |-> Pointer(x)]]

MainInv == ReaderInv /\ Progress /\ Arrays /\ Blame /\ Created /\ Memory

-----------------------------------------------------------------------------
(* The entries of the table.                                               *)
LEMMA TableEntries ==
  /\ cfg = Table /\ Entries = 1 .. 8 /\ MaxLevel = 3
  /\ \A e \in 1 .. 4 : cfg[e].type = "INT" /\ cfg[e].min = 0 /\ cfg[e].mandatory
  /\ \A e \in 5 .. 8 : cfg[e].type = "STRING" /\ cfg[e].mandatory
  /\ cfg[2].max = 1 /\ cfg[3].max = 3 /\ cfg[4].max = 64
<1>1. cfg = Table
  BY TableOfMain DEF TableOfMain
<1>2. Len(Table) = 8
  BY DEF Table
<1> QED BY <1>1, <1>2 DEF Entries, MaxLevel, Table, TYPE_INT, TYPE_STRING

(* What main may rely on, even when it ignores that the reader failed.     *)
LEMMA TableTyped ==
  ASSUME ReaderInv
  PROVE  /\ cfg_type \in Int /\ cfg_level \in 0 .. MaxLevel /\ cfg_linesize \in 0 .. 64
         /\ cfg_lvsize \in Texts \cup {NULL} /\ cfg_sw \in Texts \cup {NULL}
<1>1. \A e \in {2, 3, 4} : 2 * cfg[e].max < INT_MODULUS
  BY TableEntries, IntAssumption DEF IntAssumption
<1>2. cfg_level \in 0 .. 3 /\ cfg_linesize \in 0 .. 64 /\ cfg_type \in 0 .. 1
  BY <1>1, TableEntries, RangeFits DEF ReaderInv, cfg_level, cfg_linesize, cfg_type
<1>3. cfg_lvsize \in Texts \cup {NULL} /\ cfg_sw \in Texts \cup {NULL}
  BY TableEntries, ValuesOf DEF ReaderInv, Inv, TypeOK, cfg_lvsize, cfg_sw
<1> QED BY <1>2, <1>3, TableEntries

LEMMA TokensTyped ==
  ASSUME NEW str \in Texts \cup {NULL}
  PROVE  Tokens(str) \in Seq(Int) /\ (str # NULL => Tokens(str) # NULL)
BY TokensAssumption DEF TokensAssumption, Tokens

LEMMA Sizes == \A index : CACHE_LV_2_SIZE_K(index) \in Nat \ {0}
<1> TAKE index
<1> DEFINE sizes == <<16*K, 32*K, 64*K, 128*K, K*K, 2*K*K, 4*K*K, 8*K*K, 16*K*K>>
<1>1. \A i \in 1 .. 9 : sizes[i] \in Nat \ {0}
  BY DEF K
<1>2. 64*K \in Nat \ {0}
  BY DEF K
<1>3. CACHE_LV_2_SIZE_K(index) = IF index \in 1 .. 9 THEN sizes[index] ELSE 64*K
  BY DEF CACHE_LV_2_SIZE_K
<1> HIDE DEF sizes
<1> QED BY <1>1, <1>2, <1>3

LEMMA IntsTyped ==
  ASSUME NEW a \in Seq(Int), NEW i \in Nat
  PROVE  Ints(a, i) \subseteq Int
<1>1. CASE i < Len(a)
  <2>1. i + 1 \in 1 .. Len(a)
    BY <1>1
  <2> QED BY <1>1, <2>1 DEF Ints
<1>2. CASE ~(i < Len(a))
  BY <1>2, TokensAssumption DEF TokensAssumption, Ints
<1> QED BY <1>1, <1>2

-----------------------------------------------------------------------------
(* Rounding down loses less than one divisor.                              *)
LEMMA Division ==
  ASSUME NEW a \in Nat, NEW b \in Nat \ {0}
  PROVE  a \div b \in Nat /\ (a \div b) * b <= a /\ a < ((a \div b) + 1) * b
OBVIOUS

LEMMA Products ==
  ASSUME NEW a \in Nat, NEW b \in Nat, NEW x \in Nat, a <= b
  PROVE  a * x <= b * x /\ a * x \in Nat /\ b * x \in Nat
OBVIOUS

(* A positive number of ways makes a number of sets that fill the size.    *)
LEMMA Filled ==
  ASSUME NEW size \in Nat, NEW linesize \in Nat \ {0}, NEW ways \in Nat \ {0}
  PROVE  /\ SET_WAYS_2_SETS(size, linesize, ways) \in Nat
         /\ SET_WAYS_2_SETS(size, linesize, ways) * ways * linesize <= size
         /\ size < (SET_WAYS_2_SETS(size, linesize, ways) + 1) * ways * linesize
<1> DEFINE lines == size \div linesize
           sets  == lines \div ways
<1>1. lines \in Nat /\ lines * linesize <= size /\ size < (lines + 1) * linesize
  BY Division
<1>2. sets \in Nat /\ sets * ways <= lines /\ lines < (sets + 1) * ways
  BY <1>1, Division
<1>3. SET_WAYS_2_SETS(size, linesize, ways) = sets
  BY DEF SET_WAYS_2_SETS, Quotient
<1> HIDE DEF lines, sets
<1>4. sets * ways \in Nat /\ (sets + 1) * ways \in Nat
  BY <1>2, Products
<1>5. (sets * ways) * linesize <= lines * linesize
  BY <1>1, <1>2, <1>4, Products
<1>6. lines + 1 <= (sets + 1) * ways /\ lines + 1 \in Nat
  BY <1>1, <1>2, <1>4
<1>7. (lines + 1) * linesize <= ((sets + 1) * ways) * linesize
  BY <1>4, <1>6, Products
<1>8. /\ lines * linesize \in Nat /\ (lines + 1) * linesize \in Nat
      /\ (sets * ways) * linesize \in Nat /\ ((sets + 1) * ways) * linesize \in Nat
  BY <1>1, <1>4, <1>6, Products
<1> QED BY <1>1, <1>2, <1>3, <1>5, <1>7, <1>8

-----------------------------------------------------------------------------
(* INIT_LIST_HEAD, and what list_add makes of a new head in which g_caches *)
(* is entered: the two are a list.                                         *)
LEMMA Initialised ==
  ASSUME NEW N, NEW P, NEW x
  PROVE  INIT_LIST_HEAD([next |-> N, prev |-> P], x)
           = [next |-> [N EXCEPT ![x] = x], prev |-> [P EXCEPT ![x] = x]]
<1> DEFINE r == INIT_LIST_HEAD([next |-> N, prev |-> P], x)
<1>1. r = [[next |-> N, prev |-> P] EXCEPT !.next[x] = x, !.prev[x] = x]
  BY DEF INIT_LIST_HEAD
<1> HIDE DEF r
<1>2. r = [next |-> [N EXCEPT ![x] = x], prev |-> [P EXCEPT ![x] = x]]
  BY <1>1
<1> QED BY <1>2 DEF r

LEMMA Enlisted ==
  ASSUME NEW D, NEW N, DOMAIN N = D, NEW node \in D, g_caches \in D, node # g_caches,
         N = [x \in D |-> N[x]], m = [next |-> N, prev |-> N], NEW R,
         R = [x \in D |-> IF x = g_caches THEN node ELSE IF x = node THEN g_caches ELSE N[x]]
  PROVE  Enlist(node) = [next |-> R, prev |-> R]
<1> DEFINE N1 == [N EXCEPT ![node] = node]
           N2 == [[N1 EXCEPT ![g_caches] = node] EXCEPT ![node] = g_caches]
           P2 == [[N1 EXCEPT ![node] = g_caches] EXCEPT ![g_caches] = node]
<1>1. INIT_LIST_HEAD(m, node) = [next |-> N1, prev |-> N1] /\ N1[node] = node
  BY Initialised
<1>2. Enlist(node) = list_add([next |-> N1, prev |-> N1], g_caches, node)
  BY <1>1 DEF Enlist
<1>3. Enlist(node) = __list_add([next |-> N1, prev |-> N1], g_caches, node, node)
  BY <1>1, <1>2 DEF list_add
<1> HIDE DEF N1
<1>4. Enlist(node) = [next |-> N2, prev |-> P2]
  BY <1>3 DEF __list_add
<1> USE DEF N1
<1>5. N2 = R /\ P2 = R
  OBVIOUS
<1> QED BY <1>4, <1>5

-----------------------------------------------------------------------------
(* The steps of the reader keep its invariants, those of main do not touch *)
(* them.                                                                   *)
LEMMA ReaderStart == Init => ReaderInv
<1>1. Init => HeapInv
  BY DEF Init, HeapInv, NoLeak
<1> QED BY <1>1, Initially, RangesStart, SuccessStart DEF ReaderInv

LEMMA ReaderStep == ASSUME ReaderInv, Parse PROVE ReaderInv'
<1>1. [Next]_vars
  BY DEF Next
<1> QED BY <1>1, Preserved, HeapPreserved, RangesPreserved, SuccessPreserved DEF ReaderInv

LEMMA ReaderRests == ASSUME ReaderInv, UNCHANGED vars PROVE ReaderInv'
<1>1. NoFileOrComplete'
  BY DEF ReaderInv, NoFileOrComplete, Returning, Missing, vars, env, stack, table
<1> QED BY <1>1, Preserved, HeapPreserved, RangesPreserved DEF ReaderInv

(* What main reads of the reader's variables.                              *)
LEMMA Settings ==
  ASSUME UNCHANGED vars
  PROVE  /\ pc' = pc /\ vals' = vals /\ cfg_level' = cfg_level /\ cfg_linesize' = cfg_linesize
         /\ cfg_lvsize' = cfg_lvsize /\ cfg_sw' = cfg_sw /\ cfg_type' = cfg_type
         /\ WellFormed' = WellFormed
BY DEF vars, table, cfg_level, cfg_linesize, cfg_lvsize, cfg_sw, cfg_type, WellFormed

-----------------------------------------------------------------------------
LEMMA MainStart == MainInit => MainInv
<1> SUFFICES ASSUME MainInit PROVE MainInv
  OBVIOUS
<1>1. ReaderInv
  BY ReaderStart DEF MainInit
<1>2. Progress /\ Arrays /\ Blame
  BY DEF MainInit, Progress, Arrays, Blame
<1>3. Created /\ Memory
  BY DEF MainInit, Created, Memory, ListHeads
<1> QED BY <1>1, <1>2, <1>3 DEF MainInv

LEMMA StartInv == MainInv /\ Start => MainInv'
<1> SUFFICES ASSUME MainInv, Start PROVE MainInv'
  OBVIOUS
<1> USE DEF MainInv
<1>1. ReaderInv' /\ UNCHANGED vars /\ at = "start" /\ at' = "load_cfg" /\ UNCHANGED <<lvsize, sw, made>>
  BY ReaderRests DEF Start
<1>2. Progress' /\ Arrays' /\ Blame'
  BY <1>1, Settings DEF Progress, Arrays, Blame, Holds, MainStops, Faults
<1>3. Created'
  BY <1>1, Settings DEF Created
<1>4. Memory'
  <2> DEFINE poison == [x \in ListHeads |-> POISON]
             heads  == [x \in ListHeads |-> Pointer(x)]
  <2>1. m = [next |-> poison, prev |-> poison] /\ made = <<>>
    BY <1>1 DEF Memory, Progress
  <2>2. m' = [next |-> [poison EXCEPT ![g_caches] = g_caches],
              prev |-> [poison EXCEPT ![g_caches] = g_caches]]
    BY <2>1, Initialised DEF Start
  <2>3. [poison EXCEPT ![g_caches] = g_caches] = heads
    <3>1. \A x \in ListHeads : x # g_caches => x \in 1 .. 3 /\ ~(x <= Len(made))
      BY <2>1, TableEntries DEF ListHeads
    <3> QED BY <2>1, <3>1 DEF Pointer, ListHeads
  <2>4. heads' = heads
    BY <1>1 DEF Pointer
  <2> QED BY <1>1, <2>2, <2>3, <2>4 DEF Memory
<1> QED BY <1>1, <1>2, <1>3, <1>4

LEMMA LoadInv == MainInv /\ Load => MainInv'
<1> SUFFICES ASSUME MainInv, Load PROVE MainInv'
  OBVIOUS
<1> USE DEF MainInv
<1>1. ReaderInv' /\ at = "load_cfg" /\ UNCHANGED <<at, m, lvsize, sw, made>>
  BY ReaderStep DEF Load
<1>2. lvsize = NULL /\ sw = NULL /\ made = <<>>
  BY <1>1 DEF Progress
<1>3. Progress' /\ Arrays' /\ Blame'
  BY <1>1, <1>2 DEF Progress, Arrays, Blame
<1>4. Created'
  BY <1>1, <1>2 DEF Created
<1>5. Memory'
  BY <1>1 DEF Memory, Pointer
<1> QED BY <1>1, <1>3, <1>4, <1>5

(* What a step that only moves main keeps.                                 *)
LEMMA Moved ==
  ASSUME MainInv, UNCHANGED <<vars, m, made>>, at # "start", at' # "start"
  PROVE  ReaderInv' /\ Created' /\ Memory'
<1>1. Created'
  BY Settings DEF MainInv, Created
<1>2. Memory'
  BY DEF MainInv, Memory, Pointer
<1> QED BY <1>1, <1>2, ReaderRests DEF MainInv

LEMMA LoadedInv == MainInv /\ Loaded => MainInv'
<1> SUFFICES ASSUME MainInv, Loaded PROVE MainInv'
  OBVIOUS
<1>1. ReaderInv' /\ Created' /\ Memory'
  BY Moved DEF Loaded
<1>2. /\ at = "load_cfg" /\ UNCHANGED <<vars, m, lvsize, sw, made>>
      /\ \/ pc = "done" /\ at' = "get_cache_lvsize"
         \/ pc \in {"double_free", "null_write"} /\ at' = "aborted"
  BY DEF Loaded, Stops
<1>3. lvsize = NULL /\ sw = NULL /\ made = <<>>
  BY <1>2 DEF MainInv, Progress
<1>4. Progress' /\ Arrays' /\ Blame'
  BY <1>2, <1>3, Settings DEF Progress, Arrays, Blame, MainStops, Faults
<1> QED BY <1>1, <1>4 DEF MainInv

(* The call of strtok on no string before any other.                       *)
LEMMA StrtokNullInv == MainInv /\ StrtokNull => MainInv'
<1> SUFFICES ASSUME MainInv, StrtokNull PROVE MainInv'
  OBVIOUS
<1>1. ReaderInv' /\ Created' /\ Memory'
  BY Moved DEF StrtokNull
<1>2. /\ at = "get_cache_lvsize" /\ at' = "null_read" /\ UNCHANGED <<vars, m, lvsize, sw, made>>
      /\ cfg_lvsize = NULL /\ lvsize = NULL /\ sw = NULL /\ made = <<>> /\ pc = "done"
  BY DEF StrtokNull, MainInv, Progress
<1>3. Progress' /\ Arrays' /\ Blame'
  BY <1>2, Settings DEF Progress, Arrays, Blame, MainStops, Faults
<1> QED BY <1>1, <1>3 DEF MainInv

(* An array is overrun only if its string has more tokens than cfg_level,  *)
(* which no well-formed configuration has.                                 *)
LEMMA LvsizeInv == MainInv /\ get_cache_lvsize => MainInv'
<1> SUFFICES ASSUME MainInv, get_cache_lvsize PROVE MainInv'
  OBVIOUS
<1>1. /\ at = "get_cache_lvsize" /\ UNCHANGED <<vars, m, sw, made>> /\ cfg_lvsize # NULL
      /\ Array(lvsize, cfg_lvsize, "get_cache_sways")
      /\ lvsize = NULL /\ sw = NULL /\ made = <<>> /\ pc = "done"
  BY DEF get_cache_lvsize, MainInv, Progress
<1>2. /\ at' \in {"get_cache_sways", "overflow", "null_write"}
      /\ at' = "overflow" => Len(Tokens(cfg_lvsize)) > cfg_level
      /\ at' = "null_write" => MayRunOutOfMemory
      /\ lvsize' = NULL \/ (lvsize' = Tokens(cfg_lvsize) /\ Len(lvsize') <= cfg_level)
      /\ at' = "get_cache_sways" => lvsize' = Tokens(cfg_lvsize) \/ MayRunOutOfMemory
  BY <1>1 DEF Array
<1>3. cfg_level \in Nat /\ Tokens(cfg_lvsize) \in Seq(Int) /\ Tokens(cfg_lvsize) # NULL
  BY <1>1, TableTyped, TokensTyped, TableEntries, SMTT(30) DEF MainInv
<1>4. at' = "overflow" => ~WellFormed
  BY <1>2, <1>3 DEF WellFormed
<1>5. ReaderInv' /\ Created' /\ Memory'
  BY <1>1, <1>2, Moved
<1>6. Progress'
  BY <1>1, <1>2, Settings DEF Progress, MainStops, Faults
<1>7. Arrays'
  BY <1>1, <1>2, Settings DEF Arrays, Holds, Tokens
<1>8. Blame'
  BY <1>1, <1>2, <1>3, <1>4, Settings DEF Blame
<1> QED BY <1>5, <1>6, <1>7, <1>8 DEF MainInv

LEMMA SwaysInv == MainInv /\ get_cache_sways => MainInv'
<1> SUFFICES ASSUME MainInv, get_cache_sways PROVE MainInv'
  OBVIOUS
<1>1. /\ at = "get_cache_sways" /\ UNCHANGED <<vars, m, lvsize, made>>
      /\ Array(sw, cfg_sw, "check")
      /\ sw = NULL /\ made = <<>> /\ pc = "done"
      /\ lvsize # NULL \/ MayRunOutOfMemory \/ cfg_lvsize = NULL
  BY DEF get_cache_sways, MainInv, Progress, Blame
<1>2. /\ at' \in {"check", "overflow", "null_write"}
      /\ at' = "overflow" => Len(Tokens(cfg_sw)) > cfg_level
      /\ at' = "null_write" => MayRunOutOfMemory
      /\ sw' = NULL \/ (sw' = Tokens(cfg_sw) /\ Len(sw') <= cfg_level)
      /\ at' = "check" => sw' = Tokens(cfg_sw) \/ MayRunOutOfMemory
  BY <1>1 DEF Array
<1>3. /\ cfg_level \in Nat /\ Tokens(cfg_sw) \in Seq(Int)
      /\ cfg_sw # NULL => Tokens(cfg_sw) # NULL
  BY <1>1, TableTyped, TokensTyped, TableEntries DEF MainInv
<1>4. at' = "overflow" => ~WellFormed
  BY <1>2, <1>3 DEF WellFormed
<1>5. ReaderInv' /\ Created' /\ Memory'
  BY <1>1, <1>2, Moved
<1>6. Progress'
  BY <1>1, <1>2, Settings DEF Progress, MainStops, Faults
<1>7. Arrays'
  BY <1>1, <1>2, Settings DEF MainInv, Arrays, Holds, Tokens
<1>8. Blame'
  BY <1>1, <1>2, <1>3, <1>4, Settings DEF Blame
<1> QED BY <1>5, <1>6, <1>7, <1>8 DEF MainInv

LEMMA CheckInv == MainInv /\ Check => MainInv'
<1> SUFFICES ASSUME MainInv, Check PROVE MainInv'
  OBVIOUS
<1>1. /\ at = "check" /\ UNCHANGED <<vars, m, lvsize, sw, made>>
      /\ at' = IF NULL \in {lvsize, sw} THEN "adjust" ELSE "levels"
      /\ made = <<>> /\ pc = "done"
  BY DEF Check, MainInv, Progress
<1>2. ReaderInv' /\ Created' /\ Memory'
  BY <1>1, Moved
<1>3. Progress'
  BY <1>1, Settings DEF Progress, MainStops, Faults
<1>4. Arrays'
  BY <1>1, Settings DEF MainInv, Arrays, Holds, Tokens
<1>5. Blame'
  BY <1>1, Settings DEF MainInv, Blame
<1> QED BY <1>2, <1>3, <1>4, <1>5 DEF MainInv

-----------------------------------------------------------------------------
(* In the loop: the arrays exist, and if the configuration is well-formed  *)
(* they have a positive number of ways for the next level.                 *)
LEMMA Looping ==
  ASSUME MainInv, More
  PROVE  /\ lvsize \in Seq(Int) /\ sw \in Seq(Int)
         /\ Len(made) \in Nat /\ Len(made) < cfg_level /\ cfg_level \in 0 .. MaxLevel
         /\ cfg_linesize \in Nat
         /\ Ints(lvsize, Len(made)) \subseteq Int /\ Ints(sw, Len(made)) \subseteq Int
         /\ WellFormed => \A ways \in Ints(sw, Len(made)) : ways > 0
<1>1. /\ cfg_linesize \in Nat /\ cfg_level \in 0 .. MaxLevel /\ cfg_level \in Nat
      /\ cfg_lvsize \in Texts \cup {NULL} /\ cfg_sw \in Texts \cup {NULL}
  BY TableTyped, TableEntries DEF MainInv
<1>2. lvsize = Tokens(cfg_lvsize) /\ sw = Tokens(cfg_sw)
  BY DEF MainInv, More, Arrays, Holds
<1>3. lvsize \in Seq(Int) /\ sw \in Seq(Int) /\ Len(made) \in Nat /\ Len(made) < cfg_level
  BY <1>1, <1>2, TokensTyped DEF MainInv, More, Created
<1>4. Ints(lvsize, Len(made)) \subseteq Int /\ Ints(sw, Len(made)) \subseteq Int
  BY <1>3, IntsTyped
<1>5. ASSUME WellFormed, NEW ways \in Ints(sw, Len(made))
      PROVE  ways > 0
  <2>1. Len(sw) = cfg_level /\ \A i \in 1 .. cfg_level : sw[i] > 0
    BY <1>2, <1>5 DEF WellFormed
  <2>2. Len(made) + 1 \in 1 .. cfg_level /\ ways = sw[Len(made) + 1]
    BY <1>1, <1>3, <1>5, <2>1 DEF Ints
  <2> QED BY <2>1, <2>2
<1> QED BY <1>1, <1>3, <1>4, <1>5

(* The cache that is created, from any size and any number of ways but 0.  *)
LEMMA CacheTyped ==
  ASSUME MainInv, More, cfg_linesize # 0, NEW index \in Ints(lvsize, Len(made)),
         NEW ways \in Ints(sw, Len(made)), ways # 0
  PROVE  /\ Cache(index, ways).sets \in Int
         /\ Cache(index, ways).sets >= 0 => Cache(index, ways) \in Caches
         /\ Cache(index, ways).sets
              = SET_WAYS_2_SETS(Cache(index, ways).size, cfg_linesize, Cache(index, ways).ways)
         /\ ways > 0 => Cache(index, ways).sets >= 0
<1> DEFINE size == CACHE_LV_2_SIZE_K(index)
           sets == SET_WAYS_2_SETS(size, cfg_linesize, ways)
<1>1. /\ ways \in Int \ {0} /\ cfg_linesize \in Nat \ {0} /\ Len(made) \in Nat
      /\ size \in Nat \ {0} /\ cfg_type \in Int
  BY Looping, Sizes, TableTyped DEF MainInv
<1>2. ways > 0 => sets \in Nat
  <2> SUFFICES ASSUME ways > 0 PROVE sets \in Nat
    OBVIOUS
  <2>1. ways \in Nat \ {0} /\ size \in Nat
    BY <1>1
  <2> HIDE DEF size
  <2> QED BY ONLY <1>1, <2>1, Filled
<1>3. sets \in Int
  <2>1. size \div cfg_linesize \in Nat
    BY <1>1, Division
  <2>2. CASE ways > 0
    BY <1>2, <2>2
  <2>3. CASE ~(ways > 0)
    <3>1. -ways \in Nat \ {0}
      BY <1>1, <2>3
    <3>2. (size \div cfg_linesize) \div (-ways) \in Nat
      BY <2>1, <3>1, Division
    <3>3. sets = -((size \div cfg_linesize) \div (-ways))
      BY <2>3 DEF SET_WAYS_2_SETS, Quotient
    <3> QED BY <3>2, <3>3
  <2> QED BY <2>2, <2>3
<1>4. Cache(index, ways) = [t_cache |-> cfg_type, l_cache |-> Len(made), hp_cache |-> "H_inclusive",
                            cp_cache |-> "CP_lru", size |-> size, ways |-> ways, sets |-> sets]
  BY DEF Cache
<1> HIDE DEF size, sets
<1>5. /\ Cache(index, ways).sets = sets /\ Cache(index, ways).size = size
      /\ Cache(index, ways).ways = ways
  BY <1>4
<1>6. sets >= 0 => Cache(index, ways) \in Caches
  BY <1>1, <1>3, <1>4 DEF Caches
<1> QED BY <1>2, <1>3, <1>5, <1>6 DEF sets

LEMMA CreateLevelInv == MainInv /\ CreateLevel => MainInv'
<1> SUFFICES ASSUME MainInv, CreateLevel PROVE MainInv'
  OBVIOUS
<1>1. More /\ cfg_linesize # 0 /\ UNCHANGED <<vars, at, lvsize, sw>>
  BY DEF CreateLevel
<1>2. PICK index \in Ints(lvsize, Len(made)), ways \in Ints(sw, Len(made)) :
        /\ ways # 0 /\ Cache(index, ways).sets >= 0
        /\ made' = Append(made, Cache(index, ways)) /\ m' = Enlist(Len(made) + 1)
  BY DEF CreateLevel
<1> DEFINE c == Cache(index, ways)
           k == Len(made) + 1
<1>3. c \in Caches /\ c.sets = SET_WAYS_2_SETS(c.size, cfg_linesize, c.ways)
  BY <1>1, <1>2, CacheTyped
<1>4. /\ made \in Seq(Caches) /\ Len(made) \in Nat /\ cfg_level \in 0 .. MaxLevel
      /\ k \in 1 .. MaxLevel /\ k <= cfg_level
  <2>1. Len(made) \in Nat /\ Len(made) < cfg_level /\ cfg_level \in 0 .. 3
    BY <1>1, Looping, TableEntries
  <2> QED BY <2>1, TableEntries DEF MainInv, Created
<1> HIDE DEF c
<1>5. /\ made' \in Seq(Caches) /\ Len(made') = k /\ DOMAIN made' = 1 .. k /\ DOMAIN made = 1 .. Len(made)
      /\ \A i \in 1 .. k : made'[i] = IF i = k THEN c ELSE made[i]
  BY <1>2, <1>3, <1>4 DEF c
<1>6. ReaderInv'
  BY <1>1, ReaderRests DEF MainInv
<1>7. at = "levels" /\ pc = "done" /\ lvsize # NULL /\ sw # NULL
  BY <1>1 DEF More, MainInv, Progress, Arrays
<1>8. Progress' /\ Arrays' /\ Blame'
  BY <1>1, <1>7, Settings DEF MainInv, Progress, Arrays, Blame, Holds, Tokens
<1>9. Created'
  <2>1. ASSUME NEW i \in 1 .. k
        PROVE  made'[i].sets = SET_WAYS_2_SETS(made'[i].size, cfg_linesize, made'[i].ways)
    <3>1. CASE i = k
      BY <1>3, <1>5, <3>1
    <3>2. CASE i # k
      <4>1. i \in DOMAIN made
        BY <1>4, <1>5, <3>2
      <4> QED BY <1>5, <3>2, <4>1 DEF MainInv, Created
    <3> QED BY <3>1, <3>2
  <2> QED BY <1>1, <1>4, <1>5, <2>1, Settings DEF Created
<1>10. Memory'
  <2> DEFINE N == [x \in ListHeads |-> Pointer(x)]
             R == [x \in ListHeads |-> IF x = g_caches THEN k ELSE IF x = k THEN g_caches ELSE N[x]]
  <2>1. m = [next |-> N, prev |-> N]
    BY <1>7 DEF MainInv, Memory
  <2>2. k \in ListHeads /\ g_caches \in ListHeads /\ k # g_caches
    BY <1>4, TokensAssumption DEF ListHeads, TokensAssumption
  <2>3. DOMAIN N = ListHeads /\ N = [x \in ListHeads |-> N[x]]
    OBVIOUS
  <2> HIDE DEF N, R
  <2>4. R = [x \in ListHeads |-> IF x = g_caches THEN k ELSE IF x = k THEN g_caches ELSE N[x]]
    BY DEF R
  <2>5. m' = [next |-> R, prev |-> R]
    BY <1>2, <2>1, <2>2, <2>3, <2>4, Enlisted
  <2>6. ASSUME NEW x \in ListHeads
        PROVE  R[x] = Pointer(x)'
    <3>1. CASE x = g_caches
      <4>1. made' # <<>>
        BY <1>4, <1>5
      <4> QED BY <1>5, <2>4, <3>1, <4>1 DEF Pointer
    <3>2. CASE x # g_caches
      <4>1. x \in 1 .. MaxLevel /\ MaxLevel \in Nat
        BY <3>2, TableEntries DEF ListHeads
      <4>2. x <= k <=> x = k \/ x <= Len(made)
        BY <1>4, <4>1
      <4> QED BY <1>5, <2>4, <3>2, <4>2 DEF Pointer, N
    <3> QED BY <3>1, <3>2
  <2>7. R = [x \in ListHeads |-> Pointer(x)']
    BY <2>4, <2>6
  <2> QED BY <1>1, <1>7, <2>5, <2>7 DEF Memory, ListHeads
<1> QED BY <1>6, <1>8, <1>9, <1>10 DEF MainInv

(* main gives up in the loop, and not without reason.                      *)
LEMMA GiveUp ==
  ASSUME MainInv, More,
         NEW where \in {"divide_by_zero", "overflow", "out_of_memory"}, Fault(where),
         where # "out_of_memory" => ~WellFormed,
         where = "out_of_memory" => MayRunOutOfMemory \/ ~WellFormed
  PROVE  MainInv'
<1>1. at = "levels" /\ at' = where /\ UNCHANGED <<vars, m, lvsize, sw, made>>
  BY DEF More, Fault
<1>2. pc = "done" /\ lvsize # NULL /\ sw # NULL
  BY <1>1 DEF MainInv, Progress, Arrays
<1>3. ReaderInv' /\ Created' /\ Memory'
  BY <1>1, Moved
<1>4. Progress' /\ Arrays' /\ Blame'
  BY <1>1, <1>2, Settings DEF MainInv, Progress, Arrays, Blame, Holds, Tokens, MainStops, Faults
<1> QED BY <1>3, <1>4 DEF MainInv

LEMMA DivideByZeroInv == MainInv /\ DivideByZero => MainInv'
<1> SUFFICES ASSUME MainInv, DivideByZero PROVE MainInv'
  OBVIOUS
<1>1. ~WellFormed
  <2> SUFFICES ASSUME WellFormed PROVE FALSE
    OBVIOUS
  <2>1. \A ways \in Ints(sw, Len(made)) : ways > 0
    BY Looping DEF DivideByZero
  <2> QED BY <2>1 DEF DivideByZero, WellFormed
<1> QED BY <1>1, GiveUp DEF DivideByZero

LEMMA TooSmallInv == MainInv /\ TooSmall => MainInv'
<1> SUFFICES ASSUME MainInv, TooSmall PROVE MainInv'
  OBVIOUS
<1>1. PICK index \in Ints(lvsize, Len(made)), ways \in Ints(sw, Len(made)) :
        ways # 0 /\ Cache(index, ways).sets < 0
  BY DEF TooSmall
<1>2. ~WellFormed
  <2> SUFFICES ASSUME WellFormed PROVE FALSE
    OBVIOUS
  <2>1. ways > 0
    BY Looping DEF TooSmall
  <2>2. Cache(index, ways).sets >= 0 /\ Cache(index, ways).sets \in Int
    BY <1>1, <2>1, CacheTyped DEF TooSmall
  <2> QED BY <1>1, <2>2
<1> QED BY <1>2, GiveUp DEF TooSmall

LEMMA OutOfMemoryInv == MainInv /\ OutOfMemory => MainInv'
<1> SUFFICES ASSUME MainInv, OutOfMemory PROVE MainInv'
  OBVIOUS
<1>1. PICK index \in Ints(lvsize, Len(made)), ways \in Ints(sw, Len(made)) :
        ways # 0 /\ (MayRunOutOfMemory \/ Request(Cache(index, ways).sets) < 0)
  BY DEF OutOfMemory
<1>2. MayRunOutOfMemory \/ ~WellFormed
  <2> SUFFICES ASSUME WellFormed, ~MayRunOutOfMemory PROVE FALSE
    OBVIOUS
  <2>1. ways > 0
    BY Looping DEF OutOfMemory
  <2>2. Cache(index, ways).sets >= 0 /\ Cache(index, ways).sets \in Int
    BY <1>1, <2>1, CacheTyped DEF OutOfMemory
  <2> QED BY <1>1, <2>2 DEF Request, SIZEOF_CACHE
<1> QED BY <1>2, GiveUp DEF OutOfMemory

LEMMA DoneInv == MainInv /\ Done => MainInv'
<1> SUFFICES ASSUME MainInv, Done PROVE MainInv'
  OBVIOUS
<1>1. /\ at = "levels" /\ at' = "done" /\ UNCHANGED <<vars, m, lvsize, sw, made>>
      /\ Len(made) >= cfg_level
  BY DEF Done
<1>2. pc = "done" /\ lvsize # NULL /\ sw # NULL
  BY <1>1 DEF MainInv, Progress, Arrays
<1>3. ReaderInv' /\ Created' /\ Memory'
  BY <1>1, Moved
<1>4. Progress' /\ Arrays' /\ Blame'
  BY <1>1, <1>2, Settings DEF MainInv, Progress, Arrays, Blame, Holds, Tokens, MainStops, Faults
<1> QED BY <1>3, <1>4 DEF MainInv

LEMMA MainStutters == MainInv /\ UNCHANGED main_vars => MainInv'
<1> SUFFICES ASSUME MainInv, UNCHANGED main_vars PROVE MainInv'
  OBVIOUS
<1>1. ReaderInv'
  BY ReaderRests DEF main_vars, MainInv
<1>2. Progress' /\ Arrays' /\ Blame'
  BY Settings DEF main_vars, MainInv, Progress, Arrays, Blame, Holds, Tokens
<1>3. Created' /\ Memory'
  BY Settings DEF main_vars, MainInv, Created, Memory, Pointer
<1> QED BY <1>1, <1>2, <1>3 DEF MainInv

LEMMA MainStep == MainInv /\ [MainNext]_main_vars => MainInv'
BY StartInv, LoadInv, LoadedInv, StrtokNullInv, LvsizeInv, SwaysInv, CheckInv, CreateLevelInv,
   DivideByZeroInv, TooSmallInv, OutOfMemoryInv, DoneInv, MainStutters
   DEF MainNext, Main, MainStopped

THEOREM MainHolds == MainSpec => []MainInv
BY MainStart, MainStep, PTL DEF MainSpec

-----------------------------------------------------------------------------
(* A configuration the reader accepts is complete: whatever was read, main *)
(* finds both strings, and divides by no number that was left 0.           *)
THEOREM AcceptanceIsComplete == MainSpec => []AcceptedIsComplete
<1>1. MainInv => AcceptedIsComplete
  <2> SUFFICES ASSUME MainInv, at \notin {"start", "load_cfg", "aborted"}, ret = "SUCCEED", arg \in present
               PROVE  /\ NULL \notin {cfg_lvsize, cfg_sw} /\ 0 \notin {cfg_level, cfg_linesize}
                      /\ at # "null_read"
    BY DEF AcceptedIsComplete
  <2>1. \A e \in Entries : ~Missing(e)
    BY DEF MainInv, Progress, ReaderInv, NoFileOrComplete, Returning
  <2>2. vals[3] # 0 /\ vals[4] # 0 /\ vals[5] # NULL /\ vals[6] # NULL
    BY <2>1, TableEntries DEF Missing
  <2> QED BY <2>2 DEF MainInv, Blame, cfg_level, cfg_linesize, cfg_lvsize, cfg_sw
<1> QED BY <1>1, MainHolds, PTL

(* From well-formed values main creates every level unless memory runs     *)
(* out, whatever atoi finds in the strings.                                *)
THEOREM CreatesEveryLevel == MainSpec => []WellFormedSucceeds
<1>1. MainInv => WellFormedSucceeds
  <2> SUFFICES ASSUME MainInv, at \in MainStops, WellFormed
               PROVE  \/ at = "done" /\ Len(made) = cfg_level
                      \/ /\ MayRunOutOfMemory
                         /\ at \in {"aborted", "null_write", "adjust", "out_of_memory"}
    BY DEF WellFormedSucceeds
  <2>1. cfg_lvsize # NULL /\ cfg_sw # NULL
    BY DEF WellFormed
  <2>2. at = "done" => Len(made) = cfg_level
    <3>1. cfg_level \in Nat /\ Len(made) \in Nat
      BY TableTyped, TableEntries DEF MainInv, Created
    <3>2. made = <<>> => Len(made) = 0
      OBVIOUS
    <3> QED BY <3>1, <3>2 DEF MainInv, Blame, Created
  <2>3. at = "aborted" => MayRunOutOfMemory
    BY DEF MainInv, Progress, ReaderInv, HeapInv
  <2>4. at \in {"null_write", "adjust", "out_of_memory"} => MayRunOutOfMemory
    BY <2>1 DEF MainInv, Blame
  <2>5. at \notin {"null_read", "overflow", "divide_by_zero"}
    BY <2>1 DEF MainInv, Blame
  <2> QED BY <2>2, <2>3, <2>4, <2>5 DEF MainStops, Faults
<1> QED BY <1>1, MainHolds, PTL

(* For every size, line size and positive number of ways the sets fill the *)
(* cache, up to less than one more set.                                    *)
THEOREM CachesAreFilled == MainSpec => []SetsFillCache
<1>1. MainInv => SetsFillCache
  <2> SUFFICES ASSUME MainInv, NEW i \in DOMAIN made, made[i].ways > 0
               PROVE  /\ made[i].sets * made[i].ways * cfg_linesize <= made[i].size
                      /\ made[i].size < (made[i].sets + 1) * made[i].ways * cfg_linesize
    BY DEF SetsFillCache
  <2>1. made[i] \in Caches /\ made # <<>>
    BY DEF MainInv, Created
  <2>2. cfg_linesize \in Nat \ {0}
    <3>1. cfg_linesize \in 0 .. 64
      BY TableTyped DEF MainInv
    <3>2. cfg_linesize # 0
      BY <2>1 DEF MainInv, Created
    <3> QED BY <3>1, <3>2
  <2>3. made[i].size \in Nat /\ made[i].ways \in Nat \ {0}
    BY <2>1 DEF Caches
  <2>4. made[i].sets = SET_WAYS_2_SETS(made[i].size, cfg_linesize, made[i].ways)
    BY DEF MainInv, Created
  <2> QED BY <2>2, <2>3, <2>4, Filled
<1> QED BY <1>1, MainHolds, PTL

(* Once main has started, the list of caches can be traversed in both      *)
(* directions, however many levels were created before main gave up.       *)
THEOREM CachesAreListed == MainSpec => []ListTraversable
<1>1. MainInv => ListTraversable
  <2> SUFFICES ASSUME MainInv, at # "start" PROVE Linked(m, g_caches) /\ RingsOf(m)
    BY DEF ListTraversable
  <2> DEFINE N == [x \in ListHeads |-> Pointer(x)]
             k == Len(made)
  <2>1. m.next = N /\ m.prev = N /\ DOMAIN N = ListHeads
    BY DEF MainInv, Memory
  <2>2. k \in 0 .. MaxLevel /\ MaxLevel \in Nat /\ (made = <<>> <=> k = 0)
    <3>1. cfg_level \in 0 .. 3 /\ made \in Seq(Caches) /\ (made # <<>> => Len(made) <= cfg_level)
      BY TableTyped, TableEntries DEF MainInv, Created
    <3>2. k \in Nat /\ (made = <<>> <=> k = 0)
      BY <3>1
    <3>3. MaxLevel = 3
      BY TableEntries
    <3>4. k <= cfg_level
      BY <3>1, <3>2
    <3> HIDE DEF k
    <3> QED BY <3>1, <3>2, <3>3, <3>4
  <2>3. /\ g_caches \in ListHeads /\ POISON # g_caches /\ POISON \notin 1 .. MaxLevel
        /\ g_caches \notin 1 .. MaxLevel
    BY TokensAssumption DEF ListHeads, TokensAssumption
  <2>4. /\ N[g_caches] = IF k = 0 THEN g_caches ELSE k
        /\ \A x \in 1 .. MaxLevel : N[x] = IF x <= k THEN g_caches ELSE POISON
    BY <2>2, <2>3 DEF Pointer, ListHeads
  <2> HIDE DEF N, k
  <2>5. Linked(m, g_caches) /\ (k # 0 => Linked(m, k))
    BY <2>1, <2>2, <2>3, <2>4 DEF Linked
  <2>6. \A n \in ListHeads : Linked(m, n) => n = g_caches \/ (k # 0 /\ n = k)
    BY <2>1, <2>2, <2>3, <2>4 DEF Linked, ListHeads
  <2> QED BY <2>1, <2>2, <2>3, <2>4, <2>5, <2>6 DEF RingsOf
<1> QED BY <1>1, MainHolds, PTL
=============================================================================
