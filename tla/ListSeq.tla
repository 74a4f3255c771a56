------------------------------- MODULE ListSeq -------------------------------
(***************************************************************************)
(* What the comments of include/list.h promise, without pointers: a head   *)
(* stands for a sequence of entries, an entry is in at most one of them,   *)
(* and each call changes the sequences as its comment says.  op is the     *)
(* call: its name and arguments.                                           *)
(*                                                                         *)
(* A head that a call leaves unusable (an old head that was replaced, the  *)
(* source of a splice that is not reinitialised) stands for NULL.          *)
(***************************************************************************)
EXTENDS SequencesExt

CONSTANTS Heads, Entries, NULL

VARIABLES lists, op

(* For the lists ls: the ring of a head, the objects in some ring, the     *)
(* head of the ring an object x is in, and how many entries precede it     *)
(* there (a head is followed, and in the ring also preceded, by them all). *)
Usable(ls)    == {h \in Heads : ls[h] # NULL}
Ring(ls, h)   == <<h>> \o ls[h]
Placed(ls)    == UNION {ToSet(Ring(ls, h)) : h \in Usable(ls)}
ListOf(ls, x) == CHOOSE h \in Usable(ls) : x \in ToSet(Ring(ls, h))
Index(ls, x)  == (CHOOSE i \in DOMAIN Ring(ls, ListOf(ls, x)) :
                    Ring(ls, ListOf(ls, x))[i] = x) - 1

Insert(s, i, t) == SubSeq(s, 1, i) \o t \o SubSeq(s, i + 1, Len(s))

(* The sequence t goes right after or right before the object x.           *)
After(ls, x, t)  == [ls EXCEPT ![ListOf(ls, x)] = Insert(@, Index(ls, x), t)]
Before(ls, x, t) ==
  [ls EXCEPT ![ListOf(ls, x)] =
     IF x \in Heads THEN @ \o t ELSE Insert(@, Index(ls, x) - 1, t)]
Without(ls, e)   ==
  IF e \in Placed(ls) THEN [ls EXCEPT ![ListOf(ls, e)] = RemoveAt(@, Index(ls, e))] ELSE ls
Vacant(h)        == lists[h] \in {NULL, <<>>}

Call(o, ls) == op' = o /\ lists' = ls

Initialise ==
  \/ \E h \in Heads : Vacant(h) /\ Call(<<"INIT_LIST_HEAD", h>>, [lists EXCEPT ![h] = <<>>])
  \/ \E e \in Entries \ Placed(lists) : Call(<<"INIT_LIST_HEAD", e>>, lists)

Add ==
  \E e \in Entries \ Placed(lists), x \in Placed(lists) :
    \/ Call(<<"list_add", e, x>>, After(lists, x, <<e>>))
    \/ Call(<<"list_add_tail", e, x>>, Before(lists, x, <<e>>))

Delete ==
  \E e \in Entries, f \in {"list_del", "list_del_init"} : Call(<<f, e>>, Without(lists, e))

Move ==
  \E e \in Entries : \E x \in Placed(lists) \ {e} :
    \/ Call(<<"list_move", e, x>>, After(Without(lists, e), x, <<e>>))
    \/ Call(<<"list_move_tail", e, x>>, Before(Without(lists, e), x, <<e>>))

(* An entry takes the place of another, a head takes over a list.          *)
Replace ==
  \/ \E e \in Entries, n \in Entries \ Placed(lists),
        f \in {"list_replace", "list_replace_init"} :
       /\ e # n
       /\ Call(<<f, e, n>>,
               IF e \in Placed(lists)
                 THEN [lists EXCEPT ![ListOf(lists, e)] = ReplaceAt(@, Index(lists, e), n)]
                 ELSE lists)
  \/ \E g \in Usable(lists), h \in Heads :
       /\ g # h /\ Vacant(h)
       /\ \E end \in {<<"list_replace", NULL>>, <<"list_replace_init", <<>> >>} :
            Call(<<end[1], g, h>>, [lists EXCEPT ![h] = lists[g], ![g] = end[2]])

RotateLeft ==
  \E h \in Usable(lists) :
    Call(<<"list_rotate_left", h>>,
         IF lists[h] = <<>> THEN lists
         ELSE [lists EXCEPT ![h] = Append(Tail(@), Head(@))])

(* The entries up to and including x go to l; an x elsewhere cuts nothing. *)
Cut ==
  \E h \in Usable(lists), l \in Heads, x \in Heads \cup Entries :
    /\ l # h /\ Vacant(l)
    /\ LET i == Index(lists, x) IN
       Call(<<"list_cut_position", l, h, x>>,
            IF lists[h] # <<>> /\ x \in ToSet(Ring(lists, h))
              THEN [lists EXCEPT ![l] = SubSeq(lists[h], 1, i),
                                 ![h] = SubSeq(@, i + 1, Len(@))]
              ELSE lists)

(* The whole list l goes after x, or before it, and l is empty or lost.    *)
SpliceAll ==
  \E l \in Usable(lists), x \in Placed(lists) :
    LET left(end) == IF lists[l] = <<>> THEN lists ELSE [lists EXCEPT ![l] = end]
    IN
    /\ ListOf(lists, x) # l
    /\ \/ Call(<<"list_splice", l, x>>, After(left(NULL), x, lists[l]))
       \/ Call(<<"list_splice_tail", l, x>>, Before(left(NULL), x, lists[l]))
       \/ Call(<<"list_splice_init", l, x>>, After(left(<<>>), x, lists[l]))
       \/ Call(<<"list_splice_tail_init", l, x>>, Before(left(<<>>), x, lists[l]))

Init == lists = [h \in Heads |-> NULL] /\ op = <<>>

Next == \/ Initialise \/ Add \/ Delete \/ Move \/ Replace
        \/ RotateLeft \/ Cut \/ SpliceAll

Spec == Init /\ [][Next]_<<lists, op>>
=============================================================================
