------------------------------- MODULE ListHead -------------------------------
(***************************************************************************)
(* A program that uses the lists of include/list.h by their comments: any  *)
(* number of heads and entries, any legal call on them, in any order.  The *)
(* guards are the preconditions the comments state or take for granted:    *)
(* an object that is added is in no list, the place it is added to is in   *)
(* one, and a list that receives entries has none to lose.                 *)
(***************************************************************************)
EXTENDS ListOps, SequencesExt

CONSTANTS Heads, Entries

ASSUME ObjectsAssumption ==
  /\ Heads \cap Entries = {} /\ IsFiniteSet(Entries)
  /\ POISON \notin Heads \cup Entries /\ POISON \notin Seq(Entries)

Objects == Heads \cup Entries

VARIABLES m, op     \* the memory, and the last call

vars == <<m, op>>

On(x)     == Linked(m, x)
Alone(x)  == ~Linked(m, x) \/ m.next[x] = x
Placed(x) == On(x) /\ (x \in Heads \/ m.next[x] # x)

(* y is in the list of x: nothing closed under next and prev parts them.   *)
SameRing(x, y) ==
  \A S \in SUBSET Objects :
    x \in S /\ (\A n \in S : m.next[n] \in S /\ m.prev[n] \in S) => y \in S

Call(o, mem) == op' = o /\ m' = mem

Initialise ==
  \E x \in Objects :
    Alone(x) /\ Call(<<"INIT_LIST_HEAD", x>>, INIT_LIST_HEAD(m, x))

Add ==
  \E e \in Entries, x \in Objects :
    /\ Alone(e) /\ Placed(x)
    /\ \/ Call(<<"list_add", e, x>>, list_add(m, e, x))
       \/ Call(<<"list_add_tail", e, x>>, list_add_tail(m, e, x))

Delete ==
  \E e \in Entries :
    /\ On(e)
    /\ \/ Call(<<"list_del", e>>, list_del(m, e))
       \/ Call(<<"list_del_init", e>>, list_del_init(m, e))

Move ==
  \E e \in Entries, x \in Objects :
    /\ e # x /\ On(e) /\ Placed(x)
    /\ \/ Call(<<"list_move", e, x>>, list_move(m, e, x))
       \/ Call(<<"list_move_tail", e, x>>, list_move_tail(m, e, x))

Replace ==
  \E x, y \in Objects :
    /\ x # y /\ (x \in Heads <=> y \in Heads)
    /\ On(x) /\ Alone(y)
    /\ \/ Call(<<"list_replace", x, y>>, list_replace(m, x, y))
       \/ Call(<<"list_replace_init", x, y>>, list_replace_init(m, x, y))

RotateLeft ==
  \E h \in Heads :
    On(h) /\ Call(<<"list_rotate_left", h>>, list_rotate_left(m, h))

Cut ==
  \E h \in Heads, l \in Heads, x \in Objects :
    /\ l # h /\ On(h) /\ Alone(l)
    /\ \/ list_empty(m, h) \/ list_is_singular(m, h) \/ SameRing(h, x)
    /\ Call(<<"list_cut_position", l, h, x>>, list_cut_position(m, l, h, x))

SpliceAll ==
  \E l \in Heads, x \in Objects :
    /\ On(l) /\ Placed(x) /\ ~SameRing(l, x)
    /\ \/ Call(<<"list_splice", l, x>>, list_splice(m, l, x))
       \/ Call(<<"list_splice_tail", l, x>>, list_splice_tail(m, l, x))
       \/ Call(<<"list_splice_init", l, x>>, list_splice_init(m, l, x))
       \/ Call(<<"list_splice_tail_init", l, x>>, list_splice_tail_init(m, l, x))

(* No object is initialised yet: its pointers lead nowhere.                *)
Init ==
  /\ m = [next |-> [x \in Objects |-> POISON], prev |-> [x \in Objects |-> POISON]]
  /\ op = <<>>

Next == \/ Initialise \/ Add \/ Delete \/ Move \/ Replace
        \/ RotateLeft \/ Cut \/ SpliceAll

Spec == Init /\ [][Next]_vars

-----------------------------------------------------------------------------
Memories == [next : [Objects -> Objects \cup {POISON}],
             prev : [Objects -> Objects \cup {POISON}]]

(* Pointers lead to objects or are poisoned, both of an object or neither. *)
TypeOK ==
  /\ m \in Memories
  /\ \A x \in Objects : m.next[x] = POISON <=> m.prev[x] = POISON

(* Both neighbours of an object in a list are in a list and point back at  *)
(* it, whatever stale pointers the objects outside the lists still hold:   *)
(* a traversal never leaves the list and never meets a poisoned pointer.   *)
RingsConsistent == RingsOf(m)

-----------------------------------------------------------------------------
(* The entries met from a head until it is reached again.                  *)
EntriesFrom(mem, h) ==
  LET N == Cardinality(Entries)
      at[i \in 0 .. N + 1] == IF i = 0 THEN h ELSE mem.next[at[i - 1]]
      l == CHOOSE k \in 0 .. N : at[k + 1] = h /\ \A i \in 1 .. k : at[i] # h
  IN  [i \in 1 .. l |-> at[i]]

(* A head that is in no ring stands for no list.                           *)
Contents(mem) == [h \in Heads |-> IF Linked(mem, h) THEN EntriesFrom(mem, h) ELSE POISON]

Abstract == INSTANCE ListSeq WITH lists <- Contents(m), NULL <- POISON

(* Every call changes the lists as its comment says.                       *)
ImplementsSequences == Abstract!Spec
=============================================================================
