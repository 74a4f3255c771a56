------------------------------ MODULE HListSeq ------------------------------
(***************************************************************************)
(* What the hlist functions of include/list.h promise, without pointers: a *)
(* head stands for a sequence of nodes and a node is in at most one.       *)
(* unhashed are the nodes for which hlist_unhashed holds, fake those that  *)
(* seem to be in a list since hlist_add_fake.  op is the call.             *)
(***************************************************************************)
EXTENDS SequencesExt

CONSTANTS Heads, Nodes

VARIABLES lists, unhashed, fake, op

Members(h) == ToSet(lists[h])
Listed     == UNION {Members(h) : h \in Heads}
ListOf(n)  == CHOOSE h \in Heads : n \in Members(h)
Position(n) == CHOOSE i \in DOMAIN lists[ListOf(n)] : lists[ListOf(n)][i] = n
Without(n) ==
  IF n \in Listed THEN [lists EXCEPT ![ListOf(n)] = RemoveAt(@, Position(n))] ELSE lists

Call(o, ls, u, f) == op' = o /\ lists' = ls /\ unhashed' = u /\ fake' = f

Initialise ==
  \/ \E h \in Heads :
       lists[h] = <<>> /\ Call(<<"INIT_HLIST_HEAD", h>>, lists, unhashed, fake)
  \/ \E n \in Nodes \ Listed :
       Call(<<"INIT_HLIST_NODE", n>>, lists, unhashed \cup {n}, fake \ {n})

(* The node n goes to place i of the list of h.                            *)
Insert(o, n, h, i) ==
  Call(o, [lists EXCEPT ![h] = InsertAt(@, i, n)], unhashed \ {n}, fake)

Add ==
  \E n \in Nodes \ (Listed \cup fake) :
    \/ \E h \in Heads : Insert(<<"hlist_add_head", n, h>>, n, h, 1)
    \/ \E x \in Listed :
         \/ Insert(<<"hlist_add_before", n, x>>, n, ListOf(x), Position(x))
         \/ Insert(<<"hlist_add_behind", n, x>>, n, ListOf(x), Position(x) + 1)

AddFake ==
  \E n \in unhashed :
    Call(<<"hlist_add_fake", n>>, lists, unhashed \ {n}, fake \cup {n})

(* The node leaves its list, if it is in one; afterwards it is unhashed,   *)
(* or poisoned.                                                            *)
Delete ==
  \/ \E n \in Listed \cup fake :
       Call(<<"hlist_del", n>>, Without(n), unhashed, fake \ {n})
  \/ \E n \in Listed \cup fake \cup unhashed :
       Call(<<"hlist_del_init", n>>, Without(n), unhashed \cup {n}, fake \ {n})

MoveList ==
  \E old, new \in Heads :
    /\ old # new /\ lists[new] = <<>>
    /\ Call(<<"hlist_move_list", old, new>>,
            [lists EXCEPT ![new] = lists[old], ![old] = <<>>], unhashed, fake)

Init ==
  lists = [h \in Heads |-> <<>>] /\ unhashed = {} /\ fake = {} /\ op = <<>>

Next == Initialise \/ Add \/ AddFake \/ Delete \/ MoveList

Spec == Init /\ [][Next]_<<lists, unhashed, fake, op>>
=============================================================================
