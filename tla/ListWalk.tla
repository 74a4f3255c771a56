------------------------------ MODULE ListWalk ------------------------------
(***************************************************************************)
(* A loop over the list of head with one of the list_for_each_entry macros *)
(* of include/list.h.  Its body may do, each time it is run, one thing the *)
(* comments allow: take out an entry (a "safe" loop has saved the entry    *)
(* that follows pos, any other loop still needs pos), take out the saved   *)
(* entry and call list_safe_reset_next, or add an entry next to pos.       *)
(***************************************************************************)
EXTENDS ListOps, SequencesExt

CONSTANTS Items, head, other      \* two lists, the loop is over that of head

ASSUME WalkAssumption ==
  /\ head # other /\ {head, other} \cap Items = {}
  /\ POISON \notin Items \cup {head, other}
  /\ IsFiniteSet(Items)

VARIABLES wm,       \* the memory
          loop,     \* the macro and the entry it is given
          pos, n,   \* its cursor and its temporary storage
          orig,     \* the entries of the list when the loop began
          fresh,    \* entries that may still be added
          seen      \* the entries the body was run for

walk_vars == <<wm, loop, pos, n, orig, fresh, seen>>

(* list_for_each_entry, _reverse, _continue, _continue_reverse, _from and  *)
(* the four loops that are safe against removal.                           *)
Macros ==
  [safe : BOOLEAN, dir : {"next"}, from : {"first", "continue", "from"}] \cup
  [safe : BOOLEAN, dir : {"prev"}, from : {"first"}] \cup
  [safe : {FALSE}, dir : {"prev"}, from : {"continue"}]

Step(mem, x) == IF loop.macro.dir = "next" THEN mem.next[x] ELSE mem.prev[x]

(* Mutant of Start: every macro begins after the entry it is given.        *)
StartAfter == Step(wm, loop.at)
(* The first cursor: pos itself, or the entry that follows pos or head.    *)
Start == IF loop.macro.from = "from" THEN loop.at ELSE Step(wm, loop.at)

(* The list of head holds the entries of s, added one after the other.     *)
List(s) ==
  LET alone == [next |-> [x \in Items \cup {head, other} |-> x],
                prev |-> [x \in Items \cup {head, other} |-> x]]
      mem[i \in 0 .. Len(s)] ==
        IF i = 0 THEN alone ELSE list_add_tail(mem[i - 1], s[i], head)
  IN  mem[Len(s)]

(* continue may begin at head (list_prepare_entry), from only at an entry. *)
WalkInit ==
  /\ orig \in {s \in SeqOf(Items, Cardinality(Items)) : IsInjective(s)}
  /\ fresh = Items \ ToSet(orig)
  /\ wm = List(orig)
  /\ \E macro \in Macros, at \in ToSet(orig) \cup {head} :
       /\ macro.from = "first" => at = head
       /\ macro.from = "from" => at # head
       /\ loop = [macro |-> macro, at |-> at]
  /\ pos = Start /\ n = Step(wm, Start) /\ seen = <<>>

(* pos = pos->next, or pos = n and n = n->next.                            *)
Advance(mem, next) ==
  /\ pos' = IF loop.macro.safe THEN next ELSE Step(mem, pos)
  /\ n' = Step(mem, pos')
  /\ wm' = mem
  /\ seen' = Append(seen, pos)
  /\ UNCHANGED <<loop, orig>>

Removals(e) == {list_del(wm, e), list_del_init(wm, e), list_move_tail(wm, e, other)}

InList(x) == Linked(wm, x) /\ wm.next[x] # x

Keep == pos # head /\ Advance(wm, n) /\ UNCHANGED fresh

(* Mutant of RemoveEntry: the entry the loop goes on from is moved away.   *)
MoveAnyEntry ==
  /\ pos # head
  /\ \E e \in Items : InList(e) /\ Advance(list_move_tail(wm, e, other), n)
  /\ UNCHANGED fresh
(* Any entry but the one the loop goes on from.                            *)
RemoveEntry ==
  /\ pos # head
  /\ \E e \in Items :
       /\ InList(e) /\ e # IF loop.macro.safe THEN n ELSE pos
       /\ \E mem \in Removals(e) : Advance(mem, n)
  /\ UNCHANGED fresh

(* Mutant of RemoveNext: list_safe_reset_next is forgotten.                *)
RemoveNextOnly ==
  /\ loop.macro.safe /\ loop.macro.dir = "next" /\ head \notin {pos, n}
  /\ \E mem \in Removals(n) : Advance(mem, n)
  /\ UNCHANGED fresh
RemoveNext ==
  /\ loop.macro.safe /\ loop.macro.dir = "next" /\ head \notin {pos, n}
  /\ \E mem \in Removals(n) : Advance(mem, mem.next[pos])
  /\ UNCHANGED fresh

AddEntry ==
  /\ pos # head
  /\ \E e \in fresh :
       /\ \E mem \in {list_add(wm, e, pos), list_add_tail(wm, e, pos)} : Advance(mem, n)
       /\ fresh' = fresh \ {e}

WalkStopped == pos = head /\ UNCHANGED walk_vars

WalkNext == Keep \/ RemoveEntry \/ RemoveNext \/ AddEntry \/ WalkStopped

WalkSpec == WalkInit /\ [][WalkNext]_walk_vars

-----------------------------------------------------------------------------
WalkObjects == Items \cup {head, other}

WalkTypeOK ==
  /\ wm \in [next : [WalkObjects -> WalkObjects \cup {POISON}],
             prev : [WalkObjects -> WalkObjects \cup {POISON}]]
  /\ pos \in Items \cup {head} /\ n \in Items \cup {head}
  /\ fresh \in SUBSET Items /\ IsInjective(seen)

(* x is in the list of head: nothing closed under the pointers parts them. *)
InLoop(x) ==
  \A S \in SUBSET WalkObjects :
    head \in S /\ (\A y \in S : {wm.next[y], wm.prev[y]} \cap WalkObjects \subseteq S) => x \in S

(* Whatever the body takes out or adds, the loop goes on from an entry of  *)
(* its own list: never from one that was deleted or moved to another list. *)
StaysInLoop == Linked(wm, pos) /\ InLoop(pos) /\ (loop.macro.safe => InLoop(n))

(* The entries the loop was to visit, in order.                            *)
Course   == IF loop.macro.dir = "next" THEN orig ELSE Reverse(orig)
Expected ==
  LET i == IF loop.at = head THEN 0 ELSE CHOOSE j \in DOMAIN Course : Course[j] = loop.at
  IN  SubSeq(Course, i + (IF loop.macro.from = "from" THEN 0 ELSE 1), Len(Course))

(* The body is run once for every entry of the list, or of the part of it  *)
(* the macro names, in its order; only an entry that was taken out before  *)
(* its turn is left out.  So the loop ends, however the body changes the   *)
(* list: no entry is seen twice.                                           *)
VisitsEach ==
  /\ \A x, y \in DOMAIN seen :
       x < y => /\ seen[x] # seen[y]
                /\ \A a, b \in DOMAIN Expected :
                     seen[x] = Expected[a] /\ seen[y] = Expected[b] => a < b
  /\ pos = head => \A e \in ToSet(Expected) : e \in ToSet(seen) \/ ~InLoop(e)
=============================================================================
