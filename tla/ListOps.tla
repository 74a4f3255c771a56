------------------------------- MODULE ListOps -------------------------------
(***************************************************************************)
(* The intrusive doubly linked list of include/list.h.  A memory m is the  *)
(* pair of pointer maps [next, prev] over the struct list_head objects; an *)
(* operator is the memory an inline function leaves.  The fields are       *)
(* written in the order of the code's assignments (EXCEPT applies them one *)
(* after the other), because the arguments of a call may be the same       *)
(* object.                                                                 *)
(***************************************************************************)
CONSTANT POISON    \* LIST_POISON1 and LIST_POISON2, dereferenced by no one

INIT_LIST_HEAD(m, list) == [m EXCEPT !.next[list] = list, !.prev[list] = list]

__list_add(m, new, prev, next) ==
  [m EXCEPT !.prev[next] = new, !.next[new] = next, !.prev[new] = prev,
            !.next[prev] = new]

list_add(m, new, head)      == __list_add(m, new, head, m.next[head])
list_add_tail(m, new, head) == __list_add(m, new, m.prev[head], head)

__list_del(m, prev, next)  == [m EXCEPT !.prev[next] = prev, !.next[prev] = next]
__list_del_entry(m, entry) == __list_del(m, m.prev[entry], m.next[entry])

list_del(m, entry) ==
  [__list_del_entry(m, entry) EXCEPT !.next[entry] = POISON, !.prev[entry] = POISON]
list_del_init(m, entry) == INIT_LIST_HEAD(__list_del_entry(m, entry), entry)

(* Mutant of list_replace: old->prev is read before new->next->prev is set.*)
ReplaceReadEarly(m, old, new) ==
  [m EXCEPT !.next[new] = m.next[old], !.prev[m.next[old]] = new,
            !.prev[new] = m.prev[old], !.next[m.prev[old]] = new]
list_replace(m, old, new) ==
  LET m1 == [m EXCEPT !.next[new] = m.next[old], !.prev[m.next[old]] = new]
  IN  [m1 EXCEPT !.prev[new] = m1.prev[old], !.next[m1.prev[old]] = new]
list_replace_init(m, old, new) == INIT_LIST_HEAD(list_replace(m, old, new), old)

list_move(m, list, head)      == list_add(__list_del_entry(m, list), list, head)
list_move_tail(m, list, head) == list_add_tail(__list_del_entry(m, list), list, head)

list_empty(m, head)       == m.next[head] = head
list_is_singular(m, head) == ~list_empty(m, head) /\ m.next[head] = m.prev[head]

list_rotate_left(m, head) ==
  IF list_empty(m, head) THEN m ELSE list_move_tail(m, m.next[head], head)

(* Mutant of __list_cut_position: the first entry that stays in the list   *)
(* of head still points back at the last one that left.                    *)
CutForward(m, list, head, entry) ==
  LET first == m.next[head]
  IN  [m EXCEPT !.next[list] = first, !.prev[first] = list, !.prev[list] = entry,
                !.next[head] = m.next[entry], !.next[entry] = list]
__list_cut_position(m, list, head, entry) ==
  LET new_first == m.next[entry]
      first     == m.next[head]
  IN  [m EXCEPT !.next[list] = first, !.prev[first] = list, !.prev[list] = entry,
                !.next[entry] = list, !.next[head] = new_first,
                !.prev[new_first] = head]

list_cut_position(m, list, head, entry) ==
  IF \/ list_empty(m, head)
     \/ list_is_singular(m, head) /\ entry \notin {m.next[head], head}
    THEN m
  ELSE IF entry = head THEN INIT_LIST_HEAD(m, list)
  ELSE __list_cut_position(m, list, head, entry)

__list_splice(m, list, prev, next) ==
  LET first == m.next[list]
      last  == m.prev[list]
  IN  [m EXCEPT !.prev[first] = prev, !.next[prev] = first,
                !.next[last] = next, !.prev[next] = last]

list_splice(m, list, head) ==
  IF list_empty(m, list) THEN m ELSE __list_splice(m, list, head, m.next[head])
list_splice_tail(m, list, head) ==
  IF list_empty(m, list) THEN m ELSE __list_splice(m, list, m.prev[head], head)
list_splice_init(m, list, head) ==
  IF list_empty(m, list) THEN m ELSE INIT_LIST_HEAD(list_splice(m, list, head), list)
list_splice_tail_init(m, list, head) ==
  IF list_empty(m, list) THEN m ELSE INIT_LIST_HEAD(list_splice_tail(m, list, head), list)

(* n is in a ring: both its neighbours point back at it.                   *)
Linked(m, n) ==
  /\ m.next[n] # POISON /\ m.prev[n] # POISON
  /\ m.prev[m.next[n]] = n /\ m.next[m.prev[n]] = n

(* The neighbours of a linked object are linked, so that a traversal in    *)
(* either direction stays among linked objects.                            *)
RingsOf(m) ==
  \A n \in DOMAIN m.next :
    Linked(m, n) => Linked(m, m.next[n]) /\ Linked(m, m.prev[n])
=============================================================================
