------------------------------ MODULE Simulator ------------------------------
(***************************************************************************)
(* The program of main.c: it reads conf/cfg.cache with the reader of       *)
(* CfgParser, splits lvsize and sw at their commas, and creates one cache  *)
(* per level in the list g_caches of include/list.h.  The reader takes its *)
(* steps while main is in load_cfg, and vars are its variables.            *)
(*                                                                         *)
(* main ignores what parse_cfg_file returns: it goes on with whatever the  *)
(* variables hold by then.  Where the C code is undefined, main stops at   *)
(* the point named for it (Faults), except that reading an int of malloc'd *)
(* memory that was never written yields any member of Garbage.             *)
(***************************************************************************)
EXTENDS CfgParser, ListOps

CONSTANTS
  tokens,    \* tokens[t]: atoi of what strtok(t, ",") returns, in order
  Garbage,   \* the ints found in memory malloc returned
  g_caches   \* the list head

TYPE_INT(p, max) == [parameter |-> p, type |-> "INT", mandatory |-> TRUE,
                     min |-> 0, max |-> max]
TYPE_STRING(p)   == [parameter |-> p, type |-> "STRING", mandatory |-> TRUE,
                     min |-> 0, max |-> 0]

(* The table of load_cfg, and how many levels it admits.                   *)
Table == << TYPE_INT("arch", 1), TYPE_INT("type", 1), TYPE_INT("level", 3),
            TYPE_INT("linesize", 64), TYPE_STRING("lvsize"), TYPE_STRING("sw"),
            TYPE_STRING("hierarchy"), TYPE_STRING("policy") >>
MaxLevel == Table[3].max

ASSUME TableOfMain == cfg = Table

(* No number the table admits wraps when it becomes an int.                *)
ASSUME IntAssumption == \A e \in Entries : 2 * Table[e].max < INT_MODULUS

ASSUME TokensAssumption ==
  /\ tokens \in [Texts -> Seq(Int)] /\ \A t \in Texts : tokens[t] # NULL
  /\ Garbage \subseteq Int
  /\ POISON # g_caches /\ {POISON, g_caches} \cap (1 .. MaxLevel) = {}

VARIABLES
  at,      \* where main is
  m,       \* the list heads: g_caches, and that of the i-th cache_t
  lvsize,  \* the array get_cache_lvsize returned, or NULL
  sw,      \* the array get_cache_sways returned, or NULL
  made     \* the caches created, in order

main_vars == <<vars, at, m, lvsize, sw, made>>

cfg_type     == vals[2]
cfg_level    == vals[3]
cfg_linesize == vals[4]
cfg_lvsize   == vals[5]
cfg_sw       == vals[6]

(* INIT_LIST_HEAD(&g_caches), and the call of load_cfg.                    *)
Start ==
  /\ at = "start"
  /\ m' = INIT_LIST_HEAD(m, g_caches)
  /\ at' = "load_cfg"
  /\ UNCHANGED <<vars, lvsize, sw, made>>

Load ==
  /\ at = "load_cfg"
  /\ Parse
  /\ UNCHANGED <<at, m, lvsize, sw, made>>

(* parse_cfg_file returns, or its process is aborted.                      *)
Loaded ==
  /\ at = "load_cfg" /\ pc \in Stops
  /\ at' = IF pc = "done" THEN "get_cache_lvsize" ELSE "aborted"
  /\ UNCHANGED <<vars, m, lvsize, sw, made>>

-----------------------------------------------------------------------------
(* strtok(str, ",") and strtok(NULL, ","), with atoi of each token.  For a *)
(* NULL str the first call goes on where the last one ended: nowhere       *)
(* before the first string, at its end after it.                           *)
Tokens(str) == IF str = NULL THEN <<>> ELSE tokens[str]

(* An array of cfg_level ints, the tokens of str written to its front.     *)
Array(a, str, next) ==
  \/ /\ Len(Tokens(str)) <= cfg_level
     /\ a' = Tokens(str) /\ at' = next
  \/ /\ Len(Tokens(str)) > cfg_level
     /\ a' = a /\ at' = "overflow"
  \/ /\ MayRunOutOfMemory
     /\ a' = a /\ at' = IF Tokens(str) = <<>> THEN next ELSE "null_write"

get_cache_lvsize ==
  /\ at = "get_cache_lvsize"
  /\ cfg_lvsize # NULL
  /\ Array(lvsize, cfg_lvsize, "get_cache_sways")
  /\ UNCHANGED <<vars, m, sw, made>>

(* strtok(NULL, ",") before any other call of it.                          *)
StrtokNull ==
  /\ at = "get_cache_lvsize"
  /\ cfg_lvsize = NULL
  /\ at' = "null_read"
  /\ UNCHANGED <<vars, m, lvsize, sw, made>>

get_cache_sways ==
  /\ at = "get_cache_sways"
  /\ Array(sw, cfg_sw, "check")
  /\ UNCHANGED <<vars, m, lvsize, made>>

Check ==
  /\ at = "check"
  /\ at' = IF NULL \in {lvsize, sw} THEN "adjust" ELSE "levels"
  /\ UNCHANGED <<vars, m, lvsize, sw, made>>

-----------------------------------------------------------------------------
(* The loop over the levels; Len(made) is i.                               *)

K == 1024
CACHE_LV_2_SIZE_K(index) ==
  IF index \in 1 .. 9
    THEN <<16*K, 32*K, 64*K, 128*K, K*K, 2*K*K, 4*K*K, 8*K*K, 16*K*K>>[index]
    ELSE 64*K

(* The division of C, which rounds towards 0, for a >= 0.                  *)
Quotient(a, b) == IF b > 0 THEN a \div b ELSE -(a \div (-b))
(* Mutant of SET_WAYS_2_SETS: rounded up.                                  *)
SetsRoundedUp(size, linesize, ways)   == Quotient((size \div linesize) + ways - 1, ways)
SET_WAYS_2_SETS(size, linesize, ways) == Quotient(size \div linesize, ways)

(* The bytes asked for: a cache_t and a pointer per set, as a size_t.  A   *)
(* negative sum wraps to a number malloc cannot satisfy.                   *)
SIZEOF_CACHE  == 64
Request(sets) == SIZEOF_CACHE + 8 * sets

(* The i-th int, counted from 0, of an array.  Mutant: counted from 1.     *)
IntsFromOne(a, i) == IF i + 1 < Len(a) THEN {a[i + 2]} ELSE Garbage
Ints(a, i)        == IF i < Len(a) THEN {a[i + 1]} ELSE Garbage

Cache(index, ways) ==
  LET size == CACHE_LV_2_SIZE_K(index) IN
  [t_cache |-> cfg_type, l_cache |-> Len(made), hp_cache |-> "H_inclusive",
   cp_cache |-> "CP_lru", size |-> size, ways |-> ways,
   sets |-> SET_WAYS_2_SETS(size, cfg_linesize, ways)]

More == at = "levels" /\ Len(made) < cfg_level

(* Mutant of Enlist: the new list head is not initialised.                 *)
EnlistRaw(node) == list_add(m, g_caches, node)
(* The arguments of list_add are in this order in main.c.                  *)
Enlist(node) == list_add(INIT_LIST_HEAD(m, node), g_caches, node)

Fault(where) == at' = where /\ UNCHANGED <<vars, m, lvsize, sw, made>>

CreateLevel ==
  /\ More
  /\ cfg_linesize # 0
  /\ \E index \in Ints(lvsize, Len(made)), ways \in Ints(sw, Len(made)) :
       /\ ways # 0 /\ Cache(index, ways).sets >= 0
       /\ made' = Append(made, Cache(index, ways))
       /\ m' = Enlist(Len(made) + 1)
  /\ UNCHANGED <<vars, at, lvsize, sw>>

DivideByZero ==
  /\ More
  /\ cfg_linesize = 0 \/ 0 \in Ints(sw, Len(made))
  /\ Fault("divide_by_zero")

(* A negative number of ways: the block is smaller than a cache_t.         *)
TooSmall ==
  /\ More
  /\ cfg_linesize # 0
  /\ \E index \in Ints(lvsize, Len(made)), ways \in Ints(sw, Len(made)) :
       ways # 0 /\ Cache(index, ways).sets < 0
                /\ Request(Cache(index, ways).sets) >= 0
  /\ Fault("overflow")

OutOfMemory ==
  /\ More
  /\ cfg_linesize # 0
  /\ \E index \in Ints(lvsize, Len(made)), ways \in Ints(sw, Len(made)) :
       ways # 0 /\ (MayRunOutOfMemory \/ Request(Cache(index, ways).sets) < 0)
  /\ Fault("out_of_memory")

Done ==
  /\ at = "levels" /\ Len(made) >= cfg_level
  /\ at' = "done"
  /\ UNCHANGED <<vars, m, lvsize, sw, made>>

-----------------------------------------------------------------------------
Faults == {"aborted", "null_read", "null_write", "overflow", "divide_by_zero"}
MainStops  == Faults \cup {"done", "adjust", "out_of_memory"}

MainStopped == at \in MainStops /\ UNCHANGED main_vars

(* parse_cfg_file(cfg_file, cfg, 1, 1), of which Init is the call; the     *)
(* globals are zero.                                                       *)
MainInit ==
  /\ Init /\ optional /\ strict
  /\ at = "start" /\ lvsize = NULL /\ sw = NULL /\ made = <<>>
  /\ m = LET garbage == [x \in {g_caches} \cup (1 .. MaxLevel) |-> POISON]
         IN  [next |-> garbage, prev |-> garbage]

Main == \/ Start \/ Load \/ Loaded \/ get_cache_lvsize \/ StrtokNull
        \/ get_cache_sways \/ Check \/ CreateLevel \/ DivideByZero
        \/ TooSmall \/ OutOfMemory \/ Done

MainNext == Main \/ MainStopped

(* One thread runs main.                                                   *)
MainSpec == MainInit /\ [][MainNext]_main_vars /\ WF_main_vars(Main)

-----------------------------------------------------------------------------
(* Correctness.                                                            *)

(* A configuration file the reader accepts leaves no string NULL and no    *)
(* number 0 that main divides by or sizes an array with: only a missing    *)
(* file, which is accepted too, makes strtok start from nowhere.           *)
AcceptedIsComplete ==
  at \notin {"start", "load_cfg", "aborted"} /\ ret = "SUCCEED" /\ arg \in present
    => /\ NULL \notin {cfg_lvsize, cfg_sw} /\ 0 \notin {cfg_level, cfg_linesize}
       /\ at # "null_read"

(* A well-formed configuration names a positive line size and, for each    *)
(* level, one size and a positive number of ways.                          *)
WellFormed ==
  /\ cfg_linesize # 0 /\ NULL \notin {cfg_lvsize, cfg_sw}
  /\ Len(Tokens(cfg_lvsize)) = cfg_level /\ Len(Tokens(cfg_sw)) = cfg_level
  /\ \A i \in 1 .. cfg_level : Tokens(cfg_sw)[i] > 0

(* From well-formed values main creates every level, even when the reader  *)
(* rejected the file they came from, unless memory runs out: no array is   *)
(* overrun or read where it was not written, nothing is divided by zero.   *)
WellFormedSucceeds ==
  at \in MainStops /\ WellFormed =>
    \/ at = "done" /\ Len(made) = cfg_level
    \/ MayRunOutOfMemory /\ at \in {"aborted", "null_write", "adjust", "out_of_memory"}

(* The sets of a cache fill its size, up to less than one more set.        *)
SetsFillCache ==
  \A i \in DOMAIN made :
    LET c == made[i] IN
    c.ways > 0 => /\ c.sets * c.ways * cfg_linesize <= c.size
                  /\ c.size < (c.sets + 1) * c.ways * cfg_linesize

(* The list of caches can be traversed from g_caches in both directions at *)
(* any time, also after main gave up half-way, without ever meeting a list *)
(* head that was not initialised.                                          *)
ListTraversable ==
  at # "start" => Linked(m, g_caches) /\ RingsOf(m)

(* main stops whatever the file says.                                      *)
Stopping == <>(at \in MainStops)

-----------------------------------------------------------------------------
(* What the comments say of main, against what it does.                    *)

(* list_add's comment: its first argument is the new entry, which goes     *)
(* after the head, its second.  So every level created is in a list.       *)
EveryLevelIsListed ==
  at = "done" => \A i \in 1 .. Len(made) : Linked(m, i)

(* A file with every parameter in its documented range is accepted: type 0 *)
(* of conf/cfg.cache and enum cache_type, arch 2 and 3 of their comments.  *)
DocumentedIsAccepted ==
  at \notin {"start", "load_cfg"} /\ arg \in present => ret = "SUCCEED"
=============================================================================
