-------------------------------- MODULE HList --------------------------------
(***************************************************************************)
(* A program that uses the hlist functions of include/list.h: any legal    *)
(* call, on any number of heads and nodes, in any order.  A node that is   *)
(* added is in no list; the place it is added to is in one; a head that    *)
(* takes over a list has none; only a node that was initialised or is in a *)
(* list may be asked whether it is hashed.                                 *)
(***************************************************************************)
EXTENDS HListOps, SequencesExt

CONSTANTS HHeads, Nodes

ASSUME HObjectsAssumption ==
  /\ HHeads \cap Nodes = {}
  /\ NULL # POISON /\ {NULL, POISON} \cap (HHeads \cup Nodes) = {}

HObjects == HHeads \cup Nodes

VARIABLES hm, hop   \* the memory, and the last call

hvars == <<hm, hop>>

HOn(n) == Hashed(hm, n)

(* hlist_add_fake: n seems to be in a list, which no head leads to.        *)
Fake(n) == hm.pprev[n] = n

HCall(o, mem) == hop' = o /\ hm' = mem

HInitialise ==
  \/ \E h \in HHeads :
       hlist_empty(hm, h) /\ HCall(<<"INIT_HLIST_HEAD", h>>, INIT_HLIST_HEAD(hm, h))
  \/ \E n \in Nodes :
       ~HOn(n) /\ HCall(<<"INIT_HLIST_NODE", n>>, INIT_HLIST_NODE(hm, n))

HAdd ==
  \E n \in Nodes :
    /\ ~HOn(n) /\ ~Fake(n)
    /\ \/ \E h \in HHeads : HCall(<<"hlist_add_head", n, h>>, hlist_add_head(hm, n, h))
       \/ \E x \in Nodes :
            /\ HOn(x)
            /\ \/ HCall(<<"hlist_add_before", n, x>>, hlist_add_before(hm, n, x))
               \/ HCall(<<"hlist_add_behind", n, x>>, hlist_add_behind(hm, n, x))

(* The comment of hlist_add_fake promises that hlist_del will work: of an  *)
(* initialised node, whose next is not followed.                           *)
AddFake ==
  \E n \in Nodes :
    /\ hlist_unhashed(hm, n)
    /\ HCall(<<"hlist_add_fake", n>>, hlist_add_fake(hm, n))

HDelete ==
  \E n \in Nodes :
    \/ (HOn(n) \/ Fake(n)) /\ HCall(<<"hlist_del", n>>, hlist_del(hm, n))
    \/ /\ HOn(n) \/ Fake(n) \/ hlist_unhashed(hm, n)
       /\ HCall(<<"hlist_del_init", n>>, hlist_del_init(hm, n))

MoveList ==
  \E old, new \in HHeads :
    /\ old # new /\ hlist_empty(hm, new)
    /\ HCall(<<"hlist_move_list", old, new>>, hlist_move_list(hm, old, new))

(* HLIST_HEAD_INIT; no node is initialised yet, its pointers lead nowhere. *)
HInit ==
  /\ hm = [next  |-> [x \in HObjects |-> IF x \in HHeads THEN NULL ELSE POISON],
          pprev |-> [n \in Nodes |-> POISON]]
  /\ hop = <<>>

HNext == HInitialise \/ HAdd \/ AddFake \/ HDelete \/ MoveList

HSpec == HInit /\ [][HNext]_hvars

-----------------------------------------------------------------------------
HMemories == [next  : [HObjects -> Nodes \cup {NULL, POISON}],
             pprev : [Nodes -> HObjects \cup {NULL, POISON}]]

(* A pointer leads to a node, to nothing or to poison; a head is never     *)
(* poisoned, a node in both its pointers or in none, and a node that is    *)
(* not hashed has no successor.                                            *)
HTypeOK ==
  /\ hm \in HMemories
  /\ \A h \in HHeads : hm.next[h] # POISON
  /\ \A n \in Nodes : /\ hm.next[n] = POISON <=> hm.pprev[n] = POISON
                      /\ hm.pprev[n] = NULL => hm.next[n] = NULL

(* A traversal meets only nodes that can be deleted through their pprev,   *)
(* and what pprev names is the pointer that leads to the node, so that a   *)
(* deletion writes into the list the node is in and into no other.         *)
ChainsConsistent == ChainsOf(hm, HHeads)

-----------------------------------------------------------------------------
(* The nodes met from the pointer of an object, in order.                  *)
Met(mem) ==
  LET met[x \in HObjects] ==
        IF mem.next[x] \in Nodes THEN <<mem.next[x]>> \o met[mem.next[x]] ELSE <<>>
  IN  met

HContents == [h \in HHeads |-> Met(hm)[h]]
Unhashed  == {n \in Nodes : hlist_unhashed(hm, n)}
Fakes     == {n \in Nodes : Fake(n)}

HAbstract == INSTANCE HListSeq
               WITH Heads <- HHeads, lists <- HContents, unhashed <- Unhashed,
                    fake <- Fakes, op <- hop

(* Every call changes the lists, and what hlist_unhashed says of each      *)
(* node, as the names and comments of the functions say.                   *)
ImplementsChains == HAbstract!Spec
=============================================================================
