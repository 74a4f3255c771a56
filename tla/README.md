# A formal model of the cache simulator

TLA+ models of the parts of `cache-simulator-phd` that are implemented at this
commit: the configuration reader (`cfg-parser/`), the program that builds the
caches from it (`main.c`), the linked lists (`include/list.h`), the string
helpers (`cfg-parser/str.c`), and, of the code under `example/`, the control flow
graph and the loops that drive the disassemblers. TLC checks the models on small
instances; TLAPS proves the safety properties that hold, and the refinements, for every
value of the constants.

Paths below are relative to the repository.

## 1. Inventory

| Component | Source | State it keeps | Operations |
|---|---|---|---|
| configuration reader | `cfg-parser/cfg.c`, `include/cfg.h` | the C call stack (one activation per open file), the caller's variables, `FILE *`, `DIR *`, heap strings | `parse_cfg_file`, `__parse_cfg_file`, `parse_cfg_object`, `parse_cfg_dir`, `parse_glob`, `match_glob` |
| string helpers | `cfg-parser/str.c`, `include/str.h` | none, but they change their argument in place | copy, trim, UTF-8 test, number conversion, string lists, string arrays |
| program and cache construction | `main.c`, `include/cache.h` | the `cfg_*` globals, `g_caches`, the arrays of sizes and ways | `load_cfg`, `get_cache_lvsize`, `get_cache_sways`, the loop that creates a cache per level |
| linked list | `include/list.h` | the `next` and `prev` pointers of every `struct list_head` | 17 functions that add, delete, replace, move, rotate, cut and splice; the `hlist` functions; iteration macros |
| inclusive cache operations | `src/inclusive/inclusive.c` | none | five stubs that return a constant |
| simulation | `simulate/simulat.c` | none | `log2`, `valid_cache_size`; the rest is declared only |
| ELF parser | `include/elf_parser.h` | none | none (an unfinished header) |
| test drivers | `test/` | none | print what a vendored disassembler returns |
| control flow graph example | `example/libdiscfg/cfg.c` | the map of offsets, the marks of branch targets, the list of blocks | `cfg_make` in four phases; printing and freeing |
| disassembly loops | `example/capstone/cs.c`, `utils.c`; `example/libdisasm/libdisasm/x86_disasm.c`, `test/quikdis.c` | the handle, the array that grows, the details; the recursion and the resolver's list of jumps | `cs_open`, `cs_option`, `cs_disasm`, `cs_free`, `cs_malloc`, `cs_disasm_iter`, `cs_close`; `x86_disasm_forward`, `quikdis_resolver` |
| instruction decoders and bindings | the rest of `example/`, `include/capstone`, `include/*udis*` | none | third-party, mostly generated tables |

How they interact. `main` calls the reader with a table of eight parameters;
each names a global that the reader writes through a pointer. The reader calls
itself for every `Include`: `__parse_cfg_file` reads lines, `parse_cfg_object`
looks at the path of an `Include`, `parse_cfg_dir` reads a directory, and both
call `__parse_cfg_file` again. Between these calls it depends on the file
system, which other processes change. `main` then splits two of the strings and
links one `cache_t` per level with the functions of `include/list.h`.
Everything is one thread and there are no messages. The programs under `example/`
are not called by `main`: a caller opens a handle, sets options, asks for
instructions and frees them, in an order of its choosing; `x86_disasm_forward`
calls itself for the target of each jump and asks a callback, the resolver,
where the jump leads.

What is hard here:

- the three mutually recursive functions of the reader and their error paths:
  each failure has to close what its own activation opened, at each level;
- the gap between `stat`, `readdir` and `fopen`;
- `malloc` failing between two allocations that belong together;
- the order of pointer assignments in the lists when arguments coincide, the
  stale pointers that deleted, replaced and spliced nodes keep, and loops whose
  body changes the list they run over;
- text that is changed or read in place, up to a NUL that may come early: the
  lists of strings, UTF-8 sequences cut short, lines longer than the buffer;
- blocks that are split and extended while the program is cut into blocks;
- recursion along jumps, where only the memory of a callback prevents a loop;
- an array that grows and shrinks with `realloc` while its elements own memory;
- `main` ignores whether the configuration was accepted, so it runs on with
  the values of a rejected, half-read or missing file.

`PROJECT.json` lists each of these hazards at its line, with the properties that
cover it.

The sources do not compile at this commit (`cache->sw_cache` in `main.c:183` is
no member of `cache_t`, the comment at `include/cache_ops.h:29` swallows the
`#endif`, `include/simulat.h:50` is cut short). The models are of the code as
written, without that assignment.

What makes each component correct:

- reader: it returns and stores what the files mean; it stops; it leaves
  nothing open and nothing allocated; a failure is never swallowed;
- list: the rings stay consistent, whatever stale pointers there are, and each
  call does what its comment says of the sequence of entries;
- helpers: numbers, characters, items and file names mean what they say, in
  place, and no index leaves the string;
- program: a well-formed configuration yields every level, without a read or
  write outside the arrays and without a division by zero; each cache has the
  sets that fill its size; the list of caches can be traversed;
- graph: the blocks partition the program, end where control flow branches or
  is joined, and are linked in both directions exactly along it;
- disassembly: every instruction execution can reach is found, once for the
  array and the iterator; the recursion is bounded; no block of the heap is lost.

## 2. Modules

```
 reader      CfgParser --- CfgMeaning --- MCCfgParser
             CfgMeaning, Induction --- CfgParserProofs
 program     CfgParser, ListOps --- Simulator --- MCSimulator
             Simulator, CfgParserProofs --- SimulatorProofs
 lists       ListOps --- ListHead ----------+
             ListOps --- HListOps --- HList +--- MCLists
             ListOps --- ListWalk ----------+     |
                             HListSeq --- HList   |   (abstract)
                             ListSeq --- ListHead |   (abstract)
             ListHead, ListWalk, Induction --- ListHeadProofs
             HList, Induction --- HListProofs
 helpers     StrNumber, Utf8, TrimList, Glob, LineReader --- MCHelpers
             StrNumber, Utf8, TrimList, Glob, LineReader, Induction --- HelperProofs
 examples    CfgGraph, DisasmForward, CsDisasm --- MCExamples
             CfgGraph, Induction --- CfgGraphProofs
             DisasmForward, CsDisasm, Induction --- DisasmProofs
```

`MCLists`, `MCHelpers` and `MCExamples` each check several machines that share
nothing: the initial state chooses one of them and the others rest.

### CfgParser — `cfg-parser/cfg.c`

The state machine of the reader. `frame[l]` holds the locals of the activation of
`__parse_cfg_file` whose `level` is `l` after the increment, together with the
locals of the `parse_cfg_object` and `parse_cfg_dir` it called, and `depth` is
the number of activations that have opened a file. `pc` is the point the
innermost activation has reached; `ret` is the value being returned; `vals` are
the caller's variables; `openFile`, `openDir` and `live` are the handles and
heap strings. A step ends at every system call, so that `OtherProcess` may remove
or create files between any two of them.

| Action | Code |
|---|---|
| `RecursionDetected`, `NoFileGiven`, `CannotOpen`, `Open` | entry of `__parse_cfg_file` |
| `SkipLine`, `InvalidLine`, `IncludeLine`, `AssignmentLine`, `EndOfFile` | its loop over the lines |
| `OtherParameter`, `IncorrectConfig`, `StoreNumber`, `StoreString`, `StoreStringList`, `StoreMultistring`, `CopyStringError`, `EndOfTable` | its loop over the table |
| `CheckMandatory` | its last loop |
| `ParseGlob`, `BadGlob`, `ParseGlobOutOfMemory` | `parse_glob` |
| `StatFails`, `StatFile`, `StatDir`, `Clean`, `DoubleFree` | `parse_cfg_object` |
| `OpenDir`, `CannotOpenDir`, `ReadDir`, `ReadDirOutOfMemory`, `EndOfDir`, `CloseDir` | `parse_cfg_dir` |
| `ReturnToObject`, `ReturnToDir`, `ReturnToCaller` | the return from a nested call |

Abstractions: a file is a sequence of lines that are already classified (blank
or comment, not UTF-8, without `=`, `Include`, assignment); a right-hand side is a
member of `Texts`, with `number` and `trimmed` for what `str2uint64` and
`str_trim_str_list` make of it; the argument of an `Include` is the form
`parse_glob` finds in it, a path, and the set of names its pattern matches.
`ToInt` truncates to the width of an `int`. What these constants stand for is
modelled on characters in `LineReader`, `StrNumber`, `TrimList`, `Utf8` and `Glob`.

`CfgMeaning` defines what reading means as a function of the file system. A
*listing* of a file is the sequence of lines one gets by writing the lines of the
included files in the place of each `Include`, and the line `Failure` in the place
of one that cannot be followed; a file has several, because `readdir` returns the
entries of a directory in any order. The meaning of a configuration is what its
listings, read from top to bottom (`After`), store. There is no stack, no handle and no
early return in it, and what an assignment does is one set of entries instead
of a loop over the table. It is the reference the machine is checked and proved
against. Where other processes remove and create files (`Volatile`), a file may be
there or not each time an `Include` names it or its directory is read, so it has
more listings, each Include standing for the whole of a file or for `Failure`;
two Includes of one file need not agree. `opendir` and `closedir` may fail of a
directory in `Faulty`.

### ListOps, ListHead, ListSeq — `include/list.h`

`ListOps` has one operator per inline function, over a memory
`[next |-> ..., prev |-> ...]`, its assignments in the order of the code.
`ListHead` is a program that makes any legal call in any order; the guards are
the preconditions the comments state or take for granted. A node may hold any
stale pointers that earlier calls left in it. `ListSeq` is the abstract
specification, written from the comments: a head is a sequence of entries.
`ImplementsSequences`, in `ListHead`, is the refinement: `Contents` follows the
pointers from each head until it is reached again, as a recursive function over the
number of steps, and a head in no ring stands for no list.

### HListOps, HList, HListSeq — `hlist` in `include/list.h`

The lists with a single pointer head. `pprev` does not name an object but a
pointer, the `first` of a head or the `next` of a node; the map `next` of a memory
holds both, so that `pprev[n] = x` means that the pointer in `x` leads to `n`.
`hlist_add_fake` makes a node its own predecessor. `HListSeq` keeps, beside the
sequences, for which nodes `hlist_unhashed` holds and which only seem to be in
a list. `ImplementsChains`, in `HList`, is the refinement: `Met` collects the nodes
that a traversal from an object meets, as a recursive function over the objects.

### ListWalk — the iteration macros

A loop over a list of four entries with any of the `list_for_each_entry` macros,
forwards or backwards, safe or not, from the first, from the entry after a given
one (`_continue`) or from it (`_from`). The body may, once in each round, take out
an entry the macro's comment allows, take out the saved entry and call
`list_safe_reset_next`, or add an entry beside `pos`.

### StrNumber, Utf8, TrimList, Glob, LineReader — one line of a file

Each models a function of `cfg-parser/str.c` or `cfg.c` on characters, one round of
its loop per action.

- `StrNumber`: `is_uint_n_range`, `str2uint64` and the range test for a `TYPE_INT`, at
  the width of `max_uint64`. `exact` is the number read so far without a width.
- `Utf8`: `str_is_utf8`. The masks of the code are written with `\div` and `%`;
  `Rows` are the well-formed byte sequences of the Unicode standard (its table
  3-7), to which the code's tests are compared.
- `TrimList`: `str_trim_str_list`, with `in` and `out` in one string.
- `Glob`: `parse_glob`, the test of `parse_cfg_dir` and `match_glob`, against `Means`,
  the language of the pattern. An argument without a pattern names a file or,
  if `stat` finds one there, a directory, all of whose files are read.
- `LineReader`: the loop of `__parse_cfg_file` around `fgets`, with `str_rtrim`,
  `str_ltrim` and the search for `=`, and a buffer of `MAX_STRING_LEN`. The grammar it
  is compared with (`Lines`, `Says`) takes what of a line does not fit in the buffer
  for further lines, with parameters of their own, as the code does.

### Simulator — `main.c`

Extends `CfgParser`, with the table of `load_cfg` for `cfg` (`TableOfMain`), by the
steps of `main`, which use the operators of `ListOps`. `at` is where `main` is. While `at = "load_cfg"` the
reader takes its steps; then `get_cache_lvsize`, `get_cache_sways`, `Check` and
one `CreateLevel` per level follow. Undefined behaviour stops the model at a point
named for it: `"overflow"` (an array or block overrun), `"divide_by_zero"`,
`"null_read"` (`strtok(NULL, ...)` with no string before it), `"null_write"`,
and `"aborted"` in the reader. Reading an `int` that was never written yields
any member of `Garbage`. `malloc` may fail at any call of `main` and of the reader.

### CfgGraph — `example/libdiscfg/cfg.c`

`cfg_make` on a sequence of instructions with type, size and relative offset:
`Map` builds the map from offsets to instructions, `Mark` notes the targets of the
branches, `NewBlock`, `Split` and `Extend` cut blocks at the marks, `Link` sets
parents and children.

### DisasmForward — `x86_disasm_forward`

`frames` is the C stack of the recursion: `Disassemble` is the first half of a round of
the loop, `Follow` or `Ignore` the jump, `Continue` the end of the round, `ReturnCount`
and `ReturnTotal` the return. `rva_list` is the list of `quikdis_resolver`. What an
offset decodes to is a constant, and instructions may overlap.

### CsDisasm — `example/capstone/cs.c`

A caller opens a handle, sets options, calls `cs_disasm` or `cs_malloc` and
`cs_disasm_iter`, frees what it was given and closes the handle, in every order
the documentation allows. `cs_disasm` takes a step per instruction and per
`realloc`. `live` are the blocks of the heap, each pointer a name; `asked` notes what
a call is asked for, and `Answers` is what the documentation says the instructions
it finds are: `Documented` is the number of bytes that `include/capstone.h:194-210` says
are skipped where nothing decodes, and `Agrees` holds of the settings for which the
code's number (`Skipped`) is the same. A code is a sequence of sizes, 0 where no
instruction decodes, and the decoder never takes more bytes than there are (`Fits`).

The library does not test the `malloc` of the detail of an instruction, of its table of
instructions and of the register information, `cs_disasm_iter` does not test that there is a
detail when `CS_OPT_DETAIL` was turned on after `cs_malloc`, and what a callback skips is
copied into an array of `INSN_BYTES` without a test. These steps set `fault`
(`OpenFails`, `DecodeFails`, `IterFails`, `SkipDataFails`) and the model stops there: C
does not define what follows, and no property says anything of it.

## 3. Runs

| Run | Question | Result |
|---|---|---|
| `cfg_static` | For every pair of lines in a main file and seven included files, nested to the level limit, cycles too: does the reader return and store exactly what the files mean? Does nothing get freed twice? | holds |
| `cfg_env` | Files vanish and appear between system calls, `opendir` may be refused, `closedir` may fail, `malloc` fails anywhere: are all handles closed and all temporary strings freed, does a success mean that each Include was followed to the end of a file, is a failure final, does the reader stop? | holds |
| `sim_levels` | `main` on 143 files around the shipped one, and with none, `malloc` failing anywhere: which does it survive, are the caches of the configured size, is their list usable at every moment, does it stop? | holds |
| `lists` | Every legal sequence of calls on doubly linked lists and on `hlist`s, and every loop whose body changes its list: are the pointers consistent, do the calls do what the comments promise, does a loop visit each entry it should, once? | holds |
| `helpers` | Each function that is called for a line, on all inputs up to a bound: does it return, with what it promises, inside its string? | holds |
| `examples` | The graph of every program of up to four instructions; disassembly along the flow of every small buffer; every session with the disassembler while `malloc` fails, up to a fault | holds |
| `cfg_double_free` | Is a string freed at most once when `malloc` fails? | violated |
| `sim_shipped` | Is a file with documented values accepted? | violated |
| `sim_listed` | Is every level created in the list? | violated |
| `skip_documented` | Are exactly as many bytes skipped as data as `capstone.h` says, in every setting? | violated |
| `number_suffix` | Is the number stored the number written, when its suffix multiplies it beyond 64 bits? | violated |
| `utf8_legal` | Is every well-formed character accepted? | violated |

The six violated ones are disagreements between the code and its comments or
documentation, described under `findings` in `PROJECT.json`. The properties
`WellFormedSucceeds` and `AcceptedIsComplete` say what does hold in spite of them:
from well-formed values `main` creates every level even though the reader rejected
the file (as it does the shipped one), and a file the reader accepts has no
parameter missing. `ConvertsNumbers` and `RejectsIllFormed` do the same for numbers
and for UTF-8, and `FindsInstructions` for the settings in which code and documentation
agree on what is skipped.

What the properties say that a unit test would hardly reach:

- `ReadsMeaning`: the recursion of the reader against a definition without a stack,
  with the file system at rest and changing;
- `ImplementsSequences`, `ImplementsChains`: whatever was done before, a call does
  to the sequences what its comment says;
- `StaysInLoop`, `VisitsEach`: the loop never stands on an entry outside its
  list, and no entry is left out or met twice, whatever its body did;
- `TakesCharacters`, `RejectsIllFormed`: what a round accepts is one character of
  the Unicode table, and what it refuses is none, but for the finding;
- `ReadsNamedFiles`: although `match_glob` never backtracks, a file is read
  exactly if the pattern, with its stars, can be its name;
- `ReadsLines`: a line longer than the buffer is read as several, which neither
  go into the value before them nor disturb the next line, and messages name the
  line counted that way;
- `BlocksAreBasic`, `LinksAreMutual`, `ChildrenContinue`: the graph against the flow
  of control defined on instructions;
- `FollowsFlow`: the callback sees the least set of instructions closed under
  the flow, although a jump is followed only once;
- `NothingLost`: after any mixture of failures and options, each block of the
  heap is held by exactly one pointer, as long as there is no fault;
- `FindsInstructions`: however often the array had to grow, its elements are the
  instructions of the code one after the other, as many as were asked for.

Bounds, and why they are enough:

- `MAX_INCLUDE_LEVEL` is 3 for the reader alone: the outermost file, an included
  one, and one included from it behave differently (only level 1 checks the
  mandatory parameters, only the last level refuses to recurse); deeper levels
  repeat the second. In `Simulator` it is the 10 of the code.
- Three files and one directory: a directory needs two files for an order, and a
  cycle through a directory needs a third. The lines cover every kind of line
  and each type of table entry; two entries share a name, so that one line sets
  two variables.
- An `int` is 4 bits wide in `MCCfgParser`, so that 9 does not fit.
- Two heads and three entries: cut and splice need two lists; three entries
  tell the first, the middle and the last apart. For `hlist` three heads and four
  nodes; a loop runs over up to four, so that an entry before `pos`, the saved
  one and one after it exist together.
- Numbers have eight bits and three digits, and suffixes 4 and 16, so that a number
  overflows while its digits are read, with its suffix only, or not at all.
- The bytes for `Utf8` are those on both sides of each boundary of the code's masks
  and of the Unicode table, in texts of up to four, and sequences of five and
  six with the first bytes that ask for them.
- Lists of seven characters hold three items with white space before and after
  a delimiter; patterns of six characters hold three stars with literals between
  them; the buffer of `LineReader` has five bytes, and lines have up to seven.
- Programs of four instructions branch back, forward, to the next instruction,
  into the middle of one, and out of the text; four allow a split of a block that
  was extended. Buffers of three bytes decode to anything, buffers of four to
  calls and jumps that nest. The cache of `CsDisasm` has two elements, so that a code
  of seven bytes makes the array grow twice; modes skip one or two bytes, callbacks none, one
  or three, and `INSN_BYTES` is two, so that a callback returns less than the size
  of the mode, more than is left, and more than the array holds.
- In `MCSimulator` each line of the accepted file is changed or left out in turn, and
  `level`, `lvsize` and `sw` are changed together, so that the number of tokens
  is below, at and above the number of levels.

Fairness. `FairSpec` and `MainSpec` assume `WF` of the thread's own steps
only: it is one thread that the operating system schedules, and none of its
calls blocks for ever on regular files. Nothing is assumed of other processes.
`MCHelpers` assumes `WF` of the function that is called (the loop over the lines is
left out: every round takes a piece from a finite file), and `MCExamples` of a step
inside a function; a caller of the disassembler need not call it.
Termination holds although they may change the files for ever, because a
directory is read once and every level reads finitely many lines.

A stopped program takes an explicit stuttering step (`Stopped`, `ForwardStopped`
and so on), so deadlock is checked in every run.

Observed while modelling, without a run because nothing in the repository says
otherwise, because the code concerned is not built, or because it shows at a glance:

- two of the values the shipped file's comments give for `arch` are rejected, and
  levels are numbered from 0 in `main` and from 1 in `enum cache_level`;
- `fgets` may cut a line inside a UTF-8 character, and then neither piece is
  UTF-8;
- a jump whose target `cfg_make` ignores leaves its block as one that continues
  with the next instruction;
- the hierarchy of each level is read and printed, but not used: every cache gets
  `H_inclusive` and `CP_lru` (`main.c:181-182`), although `conf/cfg.cache:19` says "define
  every cache level's hierarchy" (a constant assignment, which needs no run to see);
- a jump at address 0 is taken for one already seen by `quikdis_resolver`, whose list
  begins with 0 (`FlowsTo` says so); the library's own resolver, without a list,
  recurses for ever on a loop, as its documentation warns.

## 4. Proofs

Each theorem is of a specification, with an inductive invariant `I` from which it
follows: `Init => I`, and `I /\ [Next]_vars => I'` with a step per action.

`CfgParserProofs` proves, for every table, set of files, bound on the level and
width of an `int`:

| Theorem | Statement |
|---|---|
| `TypeCorrect` | `Spec => []TypeOK` |
| `HandlesClosed` | `Spec => []HandlesMatchStack` |
| `StringsAreFreed` | `Spec => []NoLeak` |
| `SafeWhileMemoryLasts` | `Spec => []CrashesOnlyOutOfMemory` |
| `FailureIsFinal` | `Spec => FailIsFinal` |
| `RangesHold` | `Spec => []NumbersInRange`: a number is 0 or that of a text in the range of its entry, which the conversion to `int` wraps where it is too large (`RangeFits`: never, if the maximum fits) |
| `AcceptedHasMandatory` | `Spec => []SuccessIsComplete`: success means that every mandatory parameter has a value |
| `ReadingIsMeaning` | `Spec => []ReadsMeaning`: what is returned and stored is a meaning of the files, as they are or come and go; when memory runs out, if it is a success |

`TypeOK` alone is not inductive: that `depth` stays a level depends on the
activation that returns having been counted, and a step that reads `Top` needs
`frame[depth]` to be the frame of a running activation. The inductive invariant
`Inv` adds

- `StackInv`: the open handles are those of the frames `1 .. depth`
  (`HandlesMatchStack`), each of these is a frame in use, every suspended
  activation is inside an `Include` (`Waiting`), the innermost has its directory
  open exactly at `readdir`, `closedir` and the calls between them (`DirWhere`),
  and `pc` fits the rest of the frame (`Where`);
- `FailUnwinds`: `ret` is `"FAIL"` only on the way out, which makes a failure final;
- `MultiOK`: the arrays of `TYPE_MULTISTRING` exist unless the reading failed.

`HeapInv` is a second invariant on top of it: what is in `live` belongs to the
activations that are inside an `Include`, and while memory lasts every string
their pointers name is still in `live`, so that nothing is freed twice.

`ReadingIsMeaning` compares the machine, which is in the middle of a stack of files,
with listings, which know no stack. Its invariant is `Placed`, that every frame is
at a line of its file and inside an `Include` only if that is the line, and `Story`:
there is a set of listings of what is still ahead (`Rest`, for each activation from its
line on, and in a directory first the files not yet returned by `readdir`, in every order)
each of which, read from the present values on, leads to an outcome of the whole
(`Leads`, `Promise`). In the loop over the table the present values are half
those of the assignment (`Halfway`). A step that reads a line takes it off the
front of the listings; an `Include` replaces it by the listings of the file; the return
from a file needs that an empty listing remains. Of what other processes do
it says only that the files which are never removed stay (`Existing`): a listing has
every choice they leave. When memory has run out the reader fails for good (`Lost`), and
`ReadsMeaning` says nothing of that.

`SimulatorProofs` carries these to `main`, for every file system, content of the
strings and `malloc` that may fail:

| Theorem | Statement |
|---|---|
| `AcceptanceIsComplete` | `MainSpec => []AcceptedIsComplete` |
| `CreatesEveryLevel` | `MainSpec => []WellFormedSucceeds` |
| `CachesAreFilled` | `MainSpec => []SetsFillCache` |
| `CachesAreListed` | `MainSpec => []ListTraversable` |

Their inductive invariant `MainInv` has, beside that of the reader (`ReaderInv`),
where `main` is and what it has not touched yet (`Progress`); that an array holds the
tokens of its string and no more than `cfg_level` (`Arrays`); for each way to give
up, what it says about the configuration or the memory (`Blame`), from which
`CreatesEveryLevel` follows by contraposition; the records of the caches (`Created`);
and what each list head points to (`Memory`): `main` adds each cache by a call that
makes it and `g_caches` a ring of two, so that the earlier ones are no longer
reached. `CreatesEveryLevel` needs `RangesHold`, because `main` goes on after a
failure with whatever the reader has stored.

`ListHeadProofs` proves, for any number of heads and entries:

| Theorem | Statement |
|---|---|
| `TypeCorrect` | `Spec => []TypeOK` |
| `RingsStayConsistent` | `Spec => []RingsConsistent` |
| `ListsAreSequences` | `Spec => ImplementsSequences`: `ListHead` implements `ListSeq` |
| `LoopTypeCorrect` | `WalkSpec => []WalkTypeOK` |
| `LoopStaysInList` | `WalkSpec => []StaysInLoop` |
| `LoopVisitsEach` | `WalkSpec => []VisitsEach` |

The conjunction of the first two is inductive. `RingsConsistent` speaks of the objects that
happen to be linked, which is hard to follow through a series of assignments; the
proof names them: `Rings(mem, S)` says that `S` is a union of rings of `mem` and
that nothing outside `S` is linked. For each pointer operation a lemma gives the
set of linked objects it leaves (`AddRings`, `DelRings`, `PoisonRings`,
`ReplaceRings`, `CutRings`, `SpliceRings`, `InitRings`), by a case for each object
whose pointers it writes. What such a lemma has to say of the objects outside
the rings is the same each time and is lemma `RingStep`: a stale pointer may lead
into a ring, but no object of a ring points back. The functions of `list.h` compose
these, and `Places`, `CutPlace` and `SplicePlace` turn the preconditions of the
calls into the hypotheses of the lemmas.

`Rings` says neither which ring has which head nor in what order. For the
refinement, `Reads(mem, S, ls)` adds the lists: `next` spells `ls[h]` from each linked
head `h` and back to it (`Spells`), a head has a list exactly if it is linked, and a
linked entry is in a list or in a ring of its own, as `list_del_init` leaves it. That
no object is at two places need not be assumed: `Listed` proves it, because `next` is
injective on `S`. `ContentsAre` shows that the recursive function of the refinement
mapping then has a value, which is `ls`. `ReadsStep` says once what is the
same for every call: which objects keep their places, and that it is enough to give the
list of each head whose pointers change. `ReadsAdd`, `ReadsDelete`, `ReadsReplace`,
`ReadsCut`, `ReadsSplice` and `ReadsTakeover` are the pointer operations. The other
half has no pointers: in sequences of which each object is at one place (`Separate`),
`Found` and `AfterBefore` compute what `ListSeq` says of a call whose arguments are at
known places. `MapAdd` to `MapSplice` put the halves together for a function of `list.h`
and `AddMaps` to `SpliceMaps` for an action. The invariant of the refinement
is `Sound`: `TypeOK`, `RingsConsistent`, and that the memory reads as its `Contents`. The
last is more than consistency: no ring has two heads, and none of several entries is
left without one.

The loops need an order, which `Rings` does not give. `Circle` names the ring of
`head` by a function `c` on `0 .. k` with `c[0] = head`, whose next element is what
the pointer leads to; a loop backwards has the same ring with `next` and `prev`
exchanged, so that each lemma is stated once, for maps `F` and `G`. `Shorter` and
`Longer` are the ring after a removal and an addition (`Threads` says that the
memory then is as before). `LoopInv` says that there is such a ring and a place `p`
in it where the cursor stands, with `n` the element after it (`Walking`), and of the
entries seen, those from `p` on, and the list at the beginning (`Visits`): their order
is that of the beginning, nothing seen lies ahead, and what was to be seen and is
neither seen nor ahead is no longer in the ring. Each of these relates the three,
because the body may change the ring before, at and behind the cursor.

`HListProofs` proves the same of `hlist`, for any number of heads and nodes:

| Theorem | Statement |
|---|---|
| `TypeCorrect` | `HSpec => []HTypeOK` |
| `ChainsStayConsistent` | `HSpec => []ChainsConsistent` |
| `ChainsAreSequences` | `HSpec => ImplementsChains`: `HList` implements `HListSeq` |

`ChainsConsistent` speaks only of what a traversal meets. The inductive invariant
`Agree` says what *every* node is, free, a fake or the target of the pointer
its `pprev` names, and that the target of every pointer names that pointer. The first
part is what makes the second survive: a node that is added is named by no pointer,
so that adding it cannot give a node two predecessors. The lemmas `Inserted`, `Removed`, `Moved` and
`Changed` say it of the two maps before and after; `AddHead`, `AddBefore`, `AddBehind`,
`Delete` and `Move` follow the assignments of a function of `list.h` to one of
these, and `Guards` reads the preconditions of the calls in terms of `Agree`.

The refinement needs what `Agree` does not say, that the lists end and that every
node with a predecessor is in one of them; two nodes that follow each other
in a circle would satisfy `Agree`. `Spelled(mem, s)` says it: `s` has a
sequence for each head, the object at place `i` of `s[h]` leads to the one at
`i + 1` and the last leads nowhere, no node occurs twice, and every node that
follows a pointer occurs. `MetIs` proves that the recursive function of the
refinement mapping then has a value, which is `s`. `Put`, `Taken` and
`Passed` are what a call does to the two maps, and `SpelledPut`,
`SpelledTaken` and `SpelledPassed` what that does to the sequences: an insertion, a removal,
and a list that passes from one head to another. `LoosePut`, `LooseTaken` and `LoosePassed` say
the same of the nodes `hlist_unhashed` holds for and of the fakes. With these
each call of `HList` is a step of `HListSeq` (`InitialiseMaps`, `AddMaps`,
`FakeMaps`, `DeleteMaps`, `MoveMaps`), never a stutter.

`HelperProofs` is about the functions that are called for a line:

| Theorem | Statement |
|---|---|
| `NumberTypeCorrect`, `DigitsNeverWrap` | for every width, the digits read so far never wrap, although the test is skipped for short numbers |
| `ProductStored` | `NumberSpec => []StoresProduct` |
| `NumbersConverted` | `NumberSpec => []ConvertsNumbers` |
| `Utf8TypeCorrect` | no byte after the NUL is read, for every text |
| `AcceptsCharactersOnly` | `Utf8Spec => TakesCharacters` |
| `RejectsOnlyIllFormed` | `Utf8Spec => []RejectsIllFormed` |
| `TrimTypeCorrect`, `StaysInPlace` | reading and writing stay inside the string and writing never overtakes reading |
| `ItemsAreTrimmed` | `TrimSpec => []TrimsItems` |
| `LineTypeCorrect` | `LineSpec => []LineTypeOK` |
| `LinesAreRead` | `LineSpec => []ReadsLines` |
| `GlobTypeCorrect` | `GlobSpec => []GlobTypeOK` |
| `NamedFilesRead` | `GlobSpec => []ReadsNamedFiles` |

Numbers: `Shortcut` says that a number too short for the overflow test is below a
power of ten that fits; `ReadsPrefix`, that `exact` is the number of the first `len`
digits, for which the recursive function `Number` is first shown to have a value
(`NumberIs`). UTF-8: a lemma per length of a sequence turns the masks into ranges
(`TwoBytes` to `SixBytes`) and one finds the row of the table (`PassesTwo` to
`PassesLonger`). Lists: `FirstStays`, the first character written is no white space,
is what stops the backward loop; `TrimJoins`, that what has been written is the items
before the current one, joined, and of the current one the characters from its first
that is no white space (`Kept`). `ItemsAre` shows that the recursive function of
`Items` has a value, `TrimIs` that only one text is an item without the white space
around it. Lines: `LineInv` says that `rest` is the file from
some position on, and that no more lines are counted than characters read.
`LinesRead` says that this position is the start of the line that `lineno` counts
(`Standing`), whether behind a newline or where the buffer was full, and that the entries are
those of the lines before it.
The lemmas `BlankLines`, `Utf8Lines`, `KeyLines` and `EntryLines` compare what the
code does to one line, trimmed and cut, with what the grammar says of the whole line.
Patterns: `Matches` gives for each position of the pattern the places of the name
from where it is what the rest of the pattern means. `GlobInv` says that the search
stands at such a place exactly if the whole argument means the full name (`Meant`).
That a round keeps this is `AtBeginningMatches`, `AtEndMatches` and
`InTheMiddleMatches`; the last says why the first place is enough: a star follows, so
that what fits behind a later place fits behind the first. `PathIs` says which
directory `parse_glob` finds (`Divided`), and `DirectoryMeans` that it is compared
with itself whatever slashes are dropped or added (`Keeps`, `SameDirectory`).

`CfgGraphProofs` is about `cfg_make`, for every program:

| Theorem | Statement |
|---|---|
| `TypeCorrect` | marks, blocks and top nodes are indices |
| `BlocksCover` | `Spec => []BlocksPartition` |
| `BlocksBasic` | `Spec => []BlocksAreBasic` |
| `LinksMutual` | `Spec => []LinksAreMutual` |
| `ChildrenFollow` | `Spec => []ChildrenContinue` |

Its invariant `Inv` has `Phases`, how far the blocks reach in each phase, and `Blocked`,
that each instruction before that point is in the block its index names. `GraphInv`
adds what each phase has established for the next: the map of offsets agrees with
the sizes (`Mapped`); parents and children are counted alike for every pair of
instructions (`Mutual`); the marks are the targets of the branches decided so far
(`Marked`); a block ends at a branch or before a mark, and never spans one (`Cut`); the
blocks linked so far have exactly the children the flow gives them (`LinkedUp`).

`DisasmProofs` is about the loops that drive the disassemblers:

| Theorem | Statement |
|---|---|
| `ForwardTypeCorrect` | the callback is given only instructions in the buffer |
| `RecursionIsBounded` | `ForwardSpec => []StackBounded` |
| `FlowFollowed` | `ForwardSpec => []FollowsFlow` |
| `CsTypeCorrect` | `CsSpec => []CsTypeOK`: until a fault the array is never written past its end |
| `NothingIsLost` | `CsSpec => []NothingLost` |
| `InstructionsFound` | `CsSpec => []FindsInstructions` |

The recursion: `Owing` says that there are no more activations than jumps of this
buffer in the resolver's list, and one. A call adds a jump that was not in the list
(`OneMore`), and the list holds at most as many as the buffer has bytes (`Counting`).
`FlowFollowed` needs to know, in the middle of a recursion, what is still to come:
`Covered` says that there is a set that contains every instruction shown and is closed
under the flow, but for the offsets the activations will go on with (`AheadOf`) and
the jump being looked up (`WaitsOf`). When the outermost activation returns nothing is
left to come, and the set is closed; that it is the least one, because nothing else
was shown. `Counted` says that the counts of the activations add up. Capstone:
`SessionInv` joins the types, who may be inside the library (`Calls`), and `NothingLost`,
which is inductive with them: the lemmas about `Owns` say what happens to the owner of
a block when it is allocated, freed or handed over. `SearchInv` adds `Search` if the last
call was asked with settings that agree with the documentation (`Agreed`, which
`AsDocumented` uses: what is skipped is then `Documented`): during a call the elements
found so far are the first of those it was asked for, and the offset is where the next
one begins. A fault changes nothing but `fault`, so the invariants hold there too
(`FaultInv`); of the program after it they say nothing.

`Induction` has the two general results these proofs share: `InductionOnSet`, induction
over a set instead of a predicate, and `Recursion`, that an equation for each value
from the one before has a solution on an interval, without which nothing can be
proved of a recursive function. Both rest on `LeastNumber`.

The theorems whose names end in `TypeCorrect`, and `DigitsNeverWrap`, state formulas
that the runs check as parts of `TypesOK` or imply with `ConvertsNumbers`.

The assumptions used are the named ones of each module, which TLC evaluates on
every run that extends it. Nothing else is assumed. Those that say more than which
names are different: `TableOfMain` (the table is that of `load_cfg`), `IntAssumption`
(no number it admits wraps in an `int`), `WidthAssumption` (the powers of ten of
`is_uint_n_range`), `SizesAssumption` (the decoder stays inside the code),
`FilesAssumption` (the characters `cfg.c` compares with are different ones),
`GlobAssumption` (`/` is not `*` and in no name of a file, and no pointer to a text
is null),
`TreeAssumption` (a path is a file or a directory, and a directory is finite),
`TrimAssumption` (an item without white space around it has none to trim, which
`ItemsAreTrimmed` proves of `TrimList`), `WalkAssumption` (the entries of a loop
are finitely many), and `ObjectsAssumption` (no object is both a head and an entry, the
entries are finitely many, and the poison is no object and no list of them).

Only model-checked: liveness (`Termination`, `Stopping`), which the provers cannot treat.

`TypesOK` of `MCHelpers`, `MCLists` and `MCExamples` is the conjunction of type
invariants that are proved one by one in the modules above.

## 5. Not modelled

- `str2double` (floating point), `str_lrtrim` (never called) and the `printf`
  wrappers of `str.c`; the arithmetic of `container_of`; what is printed; the heap
  strings owned by the caller's variables.
- In `example/`: memory that runs out in `cfg_make` (the code does not test
  it), the printing and freeing of the graph;
  `x86_disasm_range`, the invariant and the formatting of `libdisasm`; `CS_OPT_MEM`,
  `errnum` and the queries on single instructions (`cs_reg_read` and so on) of
  capstone, and texts of instructions.
- The decoders of capstone, libdisasm and udis86 and the bindings: hundreds of
  files of third-party, mostly generated tables that `main` neither builds nor calls. What
  they compute is a table lookup without state; a model of them would be the
  table. They are most of the lines of the repository, so that the share of lines
  the models cover is small.
- The stubs of `src/inclusive/`, the two functions of `simulate/`, the unfinished ELF
  header and the test drivers have no behaviour to model.

## 6. What could follow

The printing and freeing of the graph of `example/libdiscfg`, and `cfg_make` when memory
runs out, with faults as in `CsDisasm`; the strings the caller's variables own as blocks of
the heap, of which the first copies are lost when a parameter is set twice
(`cfg-parser/cfg.c:376`).
