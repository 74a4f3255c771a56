------------------------------ MODULE HListOps ------------------------------
(***************************************************************************)
(* The lists with a single pointer head of include/list.h (hlist).  pprev  *)
(* does not point at an object but at a pointer: the first of a head or    *)
(* the next of a node.  A memory is the map next of these pointers (that   *)
(* of a head is its first), each named by the object it is part of, and    *)
(* the map pprev.  An operator is the memory an inline function leaves,    *)
(* its fields written in the order of the code's assignments.              *)
(***************************************************************************)
EXTENDS ListOps     \* for POISON

CONSTANT NULL

INIT_HLIST_HEAD(m, h) == [m EXCEPT !.next[h] = NULL]
INIT_HLIST_NODE(m, n) == [m EXCEPT !.next[n] = NULL, !.pprev[n] = NULL]

hlist_unhashed(m, n) == m.pprev[n] = NULL
hlist_empty(m, h)    == m.next[h] = NULL

(* if (n) n->pprev = p                                                     *)
SetBack(m, n, p) == IF n = NULL THEN m ELSE [m EXCEPT !.pprev[n] = p]

__hlist_del(m, n) ==
  SetBack([m EXCEPT !.next[m.pprev[n]] = m.next[n]], m.next[n], m.pprev[n])

hlist_del(m, n) ==
  [__hlist_del(m, n) EXCEPT !.next[n] = POISON, !.pprev[n] = POISON]
hlist_del_init(m, n) ==
  IF hlist_unhashed(m, n) THEN m ELSE INIT_HLIST_NODE(__hlist_del(m, n), n)

hlist_add_head(m, n, h) ==
  LET first == m.next[h]
      m1    == SetBack([m EXCEPT !.next[n] = first], first, n)
  IN  [m1 EXCEPT !.next[h] = n, !.pprev[n] = h]

(* Mutant of hlist_add_before: the pointer that led to next is not moved.  *)
AddBeforeUnlinked(m, n, next) ==
  [m EXCEPT !.pprev[n] = m.pprev[next], !.next[n] = next, !.pprev[next] = n]
hlist_add_before(m, n, next) ==
  LET m1 == [m EXCEPT !.pprev[n] = m.pprev[next], !.next[n] = next,
                      !.pprev[next] = n]
  IN  [m1 EXCEPT !.next[m1.pprev[n]] = n]

hlist_add_behind(m, n, prev) ==
  LET m1 == [m EXCEPT !.next[n] = m.next[prev], !.next[prev] = n, !.pprev[n] = prev]
  IN  SetBack(m1, m1.next[n], n)

hlist_add_fake(m, n) == [m EXCEPT !.pprev[n] = n]

(* Mutant of hlist_move_list: the first node still belongs to the old head.*)
MoveKeepsBack(m, old, new) == [m EXCEPT !.next[new] = m.next[old], !.next[old] = NULL]
hlist_move_list(m, old, new) ==
  LET m1 == [m EXCEPT !.next[new] = m.next[old]]
  IN  [SetBack(m1, m1.next[new], new) EXCEPT !.next[old] = NULL]

(* n is in a list: the pointer it names as the one that leads to it does.  *)
Hashed(m, n) == m.pprev[n] \notin {NULL, POISON} /\ m.next[m.pprev[n]] = n

(* Every pointer of a head, or of a node in a list, leads to a node that   *)
(* knows it or to none: a traversal meets only hashed nodes, and each of   *)
(* them can be deleted without knowing its list.                           *)
ChainsOf(m, heads) ==
  \A c \in DOMAIN m.next :
    (c \in heads \/ Hashed(m, c)) => m.next[c] = NULL \/ m.pprev[m.next[c]] = c
=============================================================================
