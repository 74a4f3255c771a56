------------------------------- MODULE MCLists -------------------------------
(***************************************************************************)
(* ListHead, HList and ListWalk on a few objects, each behaviour with one  *)
(* of them while the others rest, and their lists as sequences.            *)
(***************************************************************************)
EXTENDS ListHead, HList, ListWalk, TLC

VARIABLE user       \* which of the three runs

(* The pointers and the variables have the types of their declarations.    *)
TypesOK == TypeOK /\ HTypeOK /\ WalkTypeOK

-----------------------------------------------------------------------------
Walk0 == /\ WalkInit /\ orig = <<>>
         /\ loop.macro = [safe |-> FALSE, dir |-> "next", from |-> "first"]

MCInit == /\ user \in {"list", "hlist", "walk"} /\ Init /\ HInit
          /\ IF user = "walk" THEN WalkInit ELSE Walk0

MCNext ==
  /\ user' = user
  /\ \/ user = "list" /\ Next /\ UNCHANGED <<hvars, walk_vars>>
     \/ user = "hlist" /\ HNext /\ UNCHANGED <<vars, walk_vars>>
     \/ user = "walk" /\ WalkNext /\ UNCHANGED <<vars, hvars>>

MCSpec == MCInit /\ [][MCNext]_<<user, vars, hvars, walk_vars>>

Symmetry == Permutations(Heads) \cup Permutations(Entries)
=============================================================================
