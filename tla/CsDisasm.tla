------------------------------- MODULE CsDisasm -------------------------------
(***************************************************************************)
(* The interface of example/capstone/cs.c: cs_open, cs_option, cs_disasm,  *)
(* which fills an array that grows as it goes, cs_free, cs_malloc,         *)
(* cs_disasm_iter and cs_close, called in any order their documentation    *)
(* allows, with malloc failing at any call.  What the bytes at an offset   *)
(* decode to is given, as the size of an instruction or 0.  A write        *)
(* through NULL or past an array is a fault: the model stops there, and    *)
(* nothing is claimed of what the program does after it.                   *)
(***************************************************************************)
EXTENDS Integers, Sequences, FiniteSets

CONSTANTS
  Sizes,            \* of the instruction at each offset, for each code
  Modes, SkipSize,  \* skipdata_size() of each mode
  Callbacks,        \* what a skipdata callback returns
  INSN_CACHE_SIZE,
  INSN_BYTES,       \* sizeof insn->bytes
  NULL

(* No decoder returns more bytes than are left.                            *)
Fits(c) == \A i \in DOMAIN c : i + c[i] <= Len(c) + 1

ASSUME SizesAssumption == Sizes \subseteq Seq(Nat) /\ \A c \in Sizes : Fits(c)

ASSUME SkipAssumption ==
  SkipSize \in [Modes -> Nat \ {0}] /\ Callbacks \subseteq Nat /\ NULL \notin Nat

ASSUME CacheAssumption == INSN_CACHE_SIZE \in Nat \ {0, 1} /\ INSN_BYTES \in Nat

(* The structures of cs_priv.h and include/capstone.h, and what a call of  *)
(* the library keeps while it runs.                                        *)
Pointer == Nat \cup {NULL}
CsHandle ==
  [id : Nat, index : Pointer, mode : Modes, detail : BOOLEAN, skipdata : BOOLEAN,
   skipdata_size : Nat, callback : Callbacks \cup {NULL}]
CsInsn  == [address : Nat, bytes : Nat, data : BOOLEAN, detail : Pointer]
CsRun   == [array : Nat, cap : Int, cache_size : Nat \ {0}, f : Nat, insns : Seq(CsInsn),
            offset : Nat, count : Nat, pc : {"loop", "expand", "end"}]
CsArray == [array : Nat, cap : Int, insns : Seq(CsInsn)]
CsOne   == [id : Nat, detail : Pointer,
            last : [address : Nat, bytes : Nat, data : BOOLEAN] \cup {NULL}]

ASSUME NullAssumption ==
  /\ NULL \notin CsHandle \cup CsRun \cup CsArray \cup CsOne
  /\ NULL \notin [address : Nat, bytes : Nat, data : BOOLEAN]

VARIABLES
  code,
  caller,           \* of cs_disasm, "array", or of cs_disasm_iter, "iter"
  handle,           \* struct cs_struct
  live,             \* the blocks of the heap that are allocated
  run,              \* the variables of cs_disasm while it runs
  got,              \* the array the caller was given
  one,              \* the instruction the caller allocated
  at,               \* the offset cs_disasm_iter has moved *code to
  asked,            \* history: what the last call was to find
  fault             \* what the program did that C does not define

session == <<code, caller, fault>>
cs_vars == <<session, handle, live, run, got, one, at, asked>>

size == Len(code)

Opened(id, mode) ==
  [id |-> id, index |-> NULL, mode |-> mode, detail |-> FALSE, skipdata |-> FALSE,
   skipdata_size |-> 0, callback |-> NULL]

CsInit ==
  /\ code \in Sizes /\ caller \in {"array", "iter"}
  /\ handle = NULL /\ live = {} /\ run = NULL /\ got = NULL /\ one = NULL
  /\ at = 0 /\ asked = NULL /\ fault = "none"

-----------------------------------------------------------------------------
(* A block that malloc returns when S are allocated.                       *)
Fresh(S) == CHOOSE i \in 1 .. Cardinality(S) + 1 :
              i \notin S /\ \A j \in 1 .. i - 1 : j \in S

Idle == run = NULL

Fails(f) == fault' = f /\ UNCHANGED <<code, caller, handle, live, run, got, one, at, asked>>

(* The handle and the register information of its architecture, of which   *)
(* the malloc is not checked.                                              *)
cs_open ==
  /\ handle = NULL /\ Idle
  /\ \E mode \in Modes : handle' = Opened(Fresh(live), mode)
  /\ live' = live \cup {Fresh(live)}
  /\ UNCHANGED <<session, run, got, one, at, asked>>

OpenFails == handle = NULL /\ Idle /\ Fails("null_write")

cs_close ==
  /\ handle # NULL /\ Idle
  /\ live' = live \ {handle.id, handle.index} /\ handle' = NULL
  /\ UNCHANGED <<session, run, got, one, at, asked>>

(* CS_OPT_SKIPDATA: the default size is set once, for the mode of the      *)
(* time; CS_OPT_MODE does not change it.                                   *)
Options(h) ==
  {[h EXCEPT !.detail = b] : b \in BOOLEAN} \cup {[h EXCEPT !.mode = mode] : mode \in Modes}
  \cup {[h EXCEPT !.callback = cb] : cb \in Callbacks \cup {NULL}}
  \cup {[h EXCEPT !.skipdata = FALSE],
        [h EXCEPT !.skipdata = TRUE,
                  !.skipdata_size = IF @ = 0 THEN SkipSize[h.mode] ELSE @]}

cs_option ==
  /\ handle # NULL /\ Idle /\ handle' \in Options(handle)
  /\ UNCHANGED <<session, live, run, got, one, at, asked>>

-----------------------------------------------------------------------------
(* How many of the bytes at offset o, of which rest are left, are skipped  *)
(* as data: none when the library gives up.                                *)
Skipped(h, rest) ==
  IF ~h.skipdata \/ h.skipdata_size > rest THEN 0
  ELSE IF h.callback = NULL THEN h.skipdata_size
  ELSE IF h.callback > rest THEN 0 ELSE h.callback

(* One element of the array.                                               *)
Entry(o, bytes, data, detail) ==
  [address |-> o, bytes |-> bytes, data |-> data, detail |-> detail]

(* The table that finds an instruction is made for the first one.          *)
Index(h, S) == IF h.index = NULL THEN Fresh(S) ELSE h.index

-----------------------------------------------------------------------------
(* How many bytes capstone.h says are skipped: what the callback returns,  *)
(* or a number that depends on the architecture and its mode, if as many   *)
(* are left.                                                               *)
Documented(h, rest) ==
  LET bytes == IF h.callback = NULL THEN SkipSize[h.mode] ELSE h.callback IN
  IF h.skipdata /\ bytes <= rest THEN bytes ELSE 0

(* The code does so when the size is still that of the mode, and when no   *)
(* callback returns less: it is not asked where fewer bytes are left than  *)
(* the size.                                                               *)
Agrees(h) ==
  h.skipdata => IF h.callback = NULL THEN h.skipdata_size = SkipSize[h.mode]
                ELSE h.callback = 0 \/ h.callback >= h.skipdata_size

(* A call is asked for count instructions, or for all if count is 0, from  *)
(* offset o on, with these settings of the handle.                         *)
Ask(h, o, count) ==
  [offset |-> o, count |-> count, skip |-> [rest \in 1 .. size |-> Documented(h, rest)],
   agrees |-> Agrees(h)]

-----------------------------------------------------------------------------
(* The caller has freed the last array.  A count that fits is the size of  *)
(* the cache.  When there is no memory for the array nothing happens.      *)
Begin ==
  /\ handle # NULL /\ Idle /\ caller = "array" /\ got = NULL
  /\ \E count \in 0 .. size :
       LET cache == IF count \in 1 .. INSN_CACHE_SIZE THEN count ELSE INSN_CACHE_SIZE IN
       /\ run' = [array |-> Fresh(live), cap |-> cache, cache_size |-> cache, f |-> 0,
                  insns |-> <<>>, offset |-> 0, count |-> count, pc |-> "loop"]
       /\ asked' = Ask(handle, 0, count)
  /\ live' = live \cup {Fresh(live)}
  /\ UNCHANGED <<session, handle, got, one, at>>

Looping == ~Idle /\ run.pc = "loop" /\ run.offset < size
Decodes == code[run.offset + 1] # 0

(* Mutant of Full: the array grows one instruction too late.               *)
FullLate(f, cache_size) == f > cache_size
(* The last slot of the cache was filled.                                  *)
Full(f, cache_size) == f = cache_size

(* Mutant of Enough: it stops after one instruction too many.              *)
EnoughLate(c, count) == count > 0 /\ c > count
(* c instructions were found: those that were asked for.                   *)
Enough(c, count) == count > 0 /\ c = count

(* One more instruction: c is the length of insns.                         *)
Entered(e) ==
  run' = [run EXCEPT !.insns = Append(@, e), !.offset = @ + e.bytes, !.f = @ + 1,
                     !.pc = IF Enough(Len(run.insns) + 1, run.count) THEN "end"
                            ELSE IF Full(run.f + 1, run.cache_size) THEN "expand" ELSE "loop"]

(* The detail of an instruction: none, if that is what is asked for.       *)
Detail(S) == IF handle.detail THEN Fresh(S) ELSE NULL

Decode ==
  /\ Looping /\ Decodes
  /\ LET S == (live \cup {Detail(live)}) \ {NULL} IN
       /\ Entered(Entry(run.offset, code[run.offset + 1], FALSE, Detail(live)))
       /\ handle' = [handle EXCEPT !.index = Index(handle, S)]
       /\ live' = S \cup {Index(handle, S)}
  /\ UNCHANGED <<session, got, one, at, asked>>

(* Without memory insn_id writes through the detail, or through the index. *)
DecodeFails ==
  /\ Looping /\ Decodes /\ (handle.detail \/ handle.index = NULL)
  /\ Fails("null_write")

(* When nothing decodes the detail that was allocated is freed again.      *)
SkipData ==
  /\ Looping /\ ~Decodes /\ Skipped(handle, size - run.offset) \in 1 .. INSN_BYTES
  /\ Entered(Entry(run.offset, Skipped(handle, size - run.offset), TRUE, NULL))
  /\ UNCHANGED <<session, handle, live, got, one, at, asked>>

(* What is skipped is copied to the bytes of the instruction.              *)
SkipDataFails ==
  /\ Looping /\ ~Decodes /\ Skipped(handle, size - run.offset) > INSN_BYTES
  /\ Fails("overrun")

GiveUp ==
  /\ Looping /\ ~Decodes /\ Skipped(handle, size - run.offset) = 0
  /\ run' = [run EXCEPT !.pc = "end"]
  /\ UNCHANGED <<session, handle, live, got, one, at, asked>>

EndOfCode ==
  /\ ~Idle /\ run.pc = "loop" /\ run.offset = size
  /\ run' = [run EXCEPT !.pc = "end"]
  /\ UNCHANGED <<session, handle, live, got, one, at, asked>>

DetailsOf(insns) == {insns[i].detail : i \in DOMAIN insns} \ {NULL}

(* Mutant of Lost: only the details of the last cache are freed.           *)
LostCache(r) == {r.array} \cup DetailsOf(SubSeq(r.insns, Len(r.insns) - r.f + 1, Len(r.insns)))
(* What is freed when the array cannot be reallocated: the details of all  *)
(* instructions, if there are any, and the array.                          *)
Lost(r) == {r.array} \cup (IF handle.detail THEN DetailsOf(r.insns) ELSE {})

OutOfMemory ==
  /\ ~Idle
  /\ \/ run.pc = "expand"
     \/ run.pc = "end" /\ run.insns # <<>> /\ run.f # run.cache_size
  /\ live' = live \ Lost(run) /\ run' = NULL /\ got' = NULL
  /\ UNCHANGED <<session, handle, one, at, asked>>

(* The array grows by a larger cache, which is empty.                      *)
Expand ==
  /\ ~Idle /\ run.pc = "expand"
  /\ LET cache == (run.cache_size * 8) \div 5 IN
       run' = [run EXCEPT !.cache_size = cache, !.cap = @ + cache, !.f = 0, !.pc = "loop"]
  /\ UNCHANGED <<session, handle, live, got, one, at, asked>>

NoneFound ==
  /\ ~Idle /\ run.pc = "end" /\ run.insns = <<>>
  /\ live' = live \ {run.array} /\ run' = NULL /\ got' = NULL
  /\ UNCHANGED <<session, handle, one, at, asked>>

(* What the last cache did not use is given back.                          *)
Found ==
  /\ ~Idle /\ run.pc = "end" /\ run.insns # <<>>
  /\ got' = [array |-> run.array, cap |-> run.cap - (run.cache_size - run.f), insns |-> run.insns]
  /\ run' = NULL
  /\ UNCHANGED <<session, handle, live, one, at, asked>>

-----------------------------------------------------------------------------
FreeArray ==
  /\ got # NULL
  /\ live' = live \ ({got.array} \cup DetailsOf(got.insns)) /\ got' = NULL
  /\ UNCHANGED <<session, handle, run, one, at, asked>>

(* Without memory for the detail the instruction is freed again.           *)
cs_malloc ==
  /\ handle # NULL /\ caller = "iter" /\ one = NULL
  /\ LET id == Fresh(live) IN
       /\ one' = [id |-> id, detail |-> Detail(live \cup {id}), last |-> NULL]
       /\ live' = (live \cup {id, Detail(live \cup {id})}) \ {NULL}
  /\ at' = 0 /\ asked' = NULL
  /\ UNCHANGED <<session, handle, run, got>>

Moves(e) == one' = [one EXCEPT !.last = e] /\ at' = at + e.bytes

(* CS_OPT_DETAIL was turned on after the instruction was allocated.        *)
NoDetail == handle.detail /\ one.detail = NULL

cs_disasm_iter ==
  /\ handle # NULL /\ one # NULL
  /\ \/ /\ at < size /\ code[at + 1] # 0 /\ ~NoDetail
        /\ Moves([address |-> at, bytes |-> code[at + 1], data |-> FALSE])
        /\ handle' = [handle EXCEPT !.index = Index(handle, live)]
        /\ live' = live \cup {Index(handle, live)}
     \/ /\ at < size /\ code[at + 1] = 0 /\ Skipped(handle, size - at) \in 1 .. INSN_BYTES
        /\ Moves([address |-> at, bytes |-> Skipped(handle, size - at), data |-> TRUE])
        /\ UNCHANGED <<handle, live>>
     \/ /\ at < size => code[at + 1] = 0 /\ Skipped(handle, size - at) = 0
        /\ one' = [one EXCEPT !.last = NULL]
        /\ UNCHANGED <<handle, live, at>>
  /\ asked' = Ask(handle, at, 1)
  /\ UNCHANGED <<session, run, got>>

IterFails ==
  /\ handle # NULL /\ one # NULL /\ at < size
  /\ \/ code[at + 1] # 0 /\ (NoDetail \/ handle.index = NULL) /\ Fails("null_write")
     \/ code[at + 1] = 0 /\ Skipped(handle, size - at) > INSN_BYTES /\ Fails("overrun")

FreeOne ==
  /\ one # NULL
  /\ live' = live \ {one.id, one.detail} /\ one' = NULL
  /\ at' = 0 /\ asked' = NULL
  /\ UNCHANGED <<session, handle, run, got>>

(* The steps cs_disasm takes by itself.                                    *)
cs_disasm ==
  /\ fault = "none"
  /\ \/ Decode \/ SkipData \/ GiveUp \/ EndOfCode \/ OutOfMemory \/ Expand \/ NoneFound \/ Found
     \/ DecodeFails \/ SkipDataFails

CallerCalls ==
  /\ fault = "none"
  /\ \/ cs_open \/ cs_close \/ cs_option \/ Begin \/ FreeArray \/ cs_malloc \/ cs_disasm_iter \/ FreeOne
     \/ OpenFails \/ IterFails

CsStopped == fault # "none" /\ UNCHANGED cs_vars

CsNext == cs_disasm \/ CallerCalls \/ CsStopped

CsSpec == CsInit /\ [][CsNext]_cs_vars /\ WF_cs_vars(cs_disasm)

-----------------------------------------------------------------------------
(* The array is never written past its end, and has no slot too many when  *)
(* it is returned.                                                         *)
CsTypeOK ==
  /\ code \in Sizes /\ caller \in {"array", "iter"} /\ at \in 0 .. size
  /\ handle \in CsHandle \cup {NULL} /\ run \in CsRun \cup {NULL}
  /\ got \in CsArray \cup {NULL} /\ one \in CsOne \cup {NULL}
  /\ live \in SUBSET Nat /\ IsFiniteSet(live)
  /\ asked \in [offset : 0 .. size, count : Nat, skip : [1 .. size -> Nat], agrees : BOOLEAN] \cup {NULL}
  /\ fault \in {"none", "null_write", "overrun"}
  /\ handle # NULL => handle.skipdata_size \in {0} \cup {SkipSize[m] : m \in Modes}
  /\ run # NULL => /\ run.cap = Len(run.insns) - run.f + run.cache_size
                   /\ run.f <= run.cache_size /\ (run.pc = "loop" => run.f < run.cache_size)
                   /\ run.offset <= size
  /\ got # NULL => got.cap = Len(got.insns)

(* The pointers somebody holds, each with its place.                       *)
HeldByHandle(h)   == IF h = NULL THEN {} ELSE {<<"handle", 0, h.id>>, <<"handle", 1, h.index>>}
HeldByArray(w, r) == IF r = NULL THEN {}
                     ELSE {<<w, 0, r.array>>} \cup {<<w, i, r.insns[i].detail>> : i \in DOMAIN r.insns}
HeldByOne(o)      == IF o = NULL THEN {} ELSE {<<"one", 0, o.id>>, <<"one", 1, o.detail>>}

Pointers == HeldByHandle(handle) \cup HeldByArray("run", run) \cup HeldByArray("got", got)
            \cup HeldByOne(one)

(* In whatever order the caller sets the options and frees what he was     *)
(* given, and wherever realloc fails, every block that is allocated is     *)
(* held by one pointer, and no pointer leads to a block that was freed, as *)
(* long as there is no fault.                                              *)
NothingLost ==
  /\ {p[3] : p \in Pointers} \ {NULL} = live
  /\ \A p, q \in Pointers : p[3] = q[3] /\ p[3] # NULL => p = q

(* What the documentation says the instructions are that q asks for: one   *)
(* after the other until there are enough, the code ends or does not       *)
(* decode, and, where data is skipped, with the data in between.           *)
Advance(q, o) == IF o = size THEN 0
                 ELSE IF code[o + 1] # 0 THEN code[o + 1] ELSE q.skip[size - o]
After(q, insns, n) == IF n = 0 THEN q.offset ELSE insns[n].address + insns[n].bytes
Consecutive(q, insns) ==
  \A i \in DOMAIN insns :
    LET o == After(q, insns, i - 1) IN
    /\ o < size /\ Advance(q, o) # 0
    /\ insns[i].address = o /\ insns[i].bytes = Advance(q, o)
    /\ insns[i].data <=> code[o + 1] = 0
Answers(q, insns) ==
  /\ Consecutive(q, insns)
  /\ \/ q.count # 0 /\ Len(insns) = q.count
     \/ (q.count = 0 \/ Len(insns) < q.count) /\ Advance(q, After(q, insns, Len(insns))) = 0

(* What the caller was given is what the documentation promises.           *)
GivesDocumented ==
  /\ got # NULL => Answers(asked, got.insns)
  /\ one # NULL /\ asked # NULL =>
       Answers(asked, IF one.last = NULL THEN <<>> ELSE <<one.last>>)

(* Where the code agrees with the documentation on the size of what is     *)
(* skipped, the array holds the instructions of the code one after the     *)
(* other, the number asked for or all there are, however often it had to   *)
(* grow, and cs_disasm_iter finds the next of them.                        *)
FindsInstructions == asked # NULL /\ asked.agrees => GivesDocumented

(* capstone.h promises the same of every setting: that exactly as many     *)
(* bytes are skipped as the callback returns, and without one as many as   *)
(* the architecture and its mode say (the code violates this).             *)
SkipsAsDocumented == asked # NULL => GivesDocumented
=============================================================================
