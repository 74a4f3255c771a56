--------------------------- MODULE CfgGraphProofs ---------------------------
(***************************************************************************)
(* Proofs about CfgGraph, for every set of programs: its state is well     *)
(* typed, the blocks partition the program (Inv adds to it how far the     *)
(* blocks reach in each phase, and that no block reaches further), and the *)
(* edges are what the branches and the ends of the blocks say (GraphInv    *)
(* adds what the tables of children hold in each phase and what has been   *)
(* linked so far).                                                         *)
(***************************************************************************)
EXTENDS CfgGraph, Induction, SequenceTheorems

(* The last instruction that is in a block.                                *)
Reach == IF nodelist = <<>> THEN 0 ELSE Final(nodelist[Len(nodelist)])

Phases ==
  /\ pc \in {"map", "mark"} => nodelist = <<>>
  /\ pc \in {"block", "extend"} => Reach = idx - 1
  /\ pc = "extend" => nodelist # <<>>
  /\ pc \in {"link", "done"} => Reach = Len(insts)
  /\ pc \notin {"link", "done"} => top_nodes = <<>>

Blocked ==
  /\ Len(nodelist) <= Reach
  /\ \A k \in DOMAIN nodelist :
       /\ Final(nodelist[k]) <= Reach
       /\ nodelist[k].start_inst = IF k = 1 THEN 1 ELSE Final(nodelist[k - 1]) + 1
       /\ \A i \in Covered(nodelist[k]) : i \in Indices /\ idx_to_block[i] = k
  /\ \A i \in 1 .. Reach :
       idx_to_block[i] \in DOMAIN nodelist /\ i \in Covered(nodelist[idx_to_block[i]])

Inv == TypeOK /\ Phases /\ Blocked

Node == [start_inst : Indices, block_len : Indices]

LEMMA IndicesFacts ==
  ASSUME insts \in Seq(Instructions)
  PROVE  /\ Len(insts) \in Nat /\ Indices = 1 .. Len(insts)
         /\ \A i \in Indices : insts[i] \in Instructions /\ insts[i].size \in Nat \ {0}
  BY InstructionsAssumption DEF Indices, InstructionsAssumption

(* The blocks as records of numbers.                                       *)
LEMMA NodeFacts ==
  ASSUME TypeOK, NEW k \in DOMAIN nodelist
  PROVE  /\ Len(nodelist) \in Nat /\ k \in 1 .. Len(nodelist)
         /\ nodelist[k] \in Node
         /\ nodelist[k].start_inst \in Nat \ {0} /\ nodelist[k].block_len \in Nat \ {0}
         /\ nodelist[k] = [start_inst |-> nodelist[k].start_inst, block_len |-> nodelist[k].block_len]
         /\ Final(nodelist[k]) \in Nat \ {0}
         /\ Covered(nodelist[k]) = nodelist[k].start_inst .. Final(nodelist[k])
<1>1. nodelist \in Seq(Node) /\ insts \in Seq(Instructions)
  BY DEF TypeOK, Node
<1>2. Len(nodelist) \in Nat /\ k \in 1 .. Len(nodelist) /\ nodelist[k] \in Node
  BY <1>1
<1>3. Indices \subseteq Nat \ {0}
  BY <1>1, IndicesFacts
<1>4. nodelist[k].start_inst \in Nat \ {0} /\ nodelist[k].block_len \in Nat \ {0}
  BY <1>2, <1>3 DEF Node
<1>5. Final(nodelist[k]) \in Nat \ {0}
  BY <1>4 DEF Final
<1> QED BY <1>2, <1>4, <1>5 DEF Node, Covered

LEMMA ReachFacts ==
  ASSUME TypeOK
  PROVE  Reach \in Nat
<1>1. CASE nodelist = <<>>
  BY <1>1 DEF Reach
<1>2. CASE nodelist # <<>>
  <2>1. Len(nodelist) \in DOMAIN nodelist
    BY <1>2 DEF TypeOK
  <2> QED BY <1>2, <2>1, NodeFacts DEF Reach
<1> QED BY <1>1, <1>2

(* A branch leads to instructions of the program.                          *)
LEMMA ReachedType ==
  ASSUME TypeOK, NEW i \in Indices
  PROVE  Reached(i) \in Seq(Indices)
<1>1. insts \in Seq(Instructions) /\ map_offset_to_idx \in Seq(Indices) /\ byte_idx \in Nat
  BY DEF TypeOK
<1>2. insts[i] \in Instructions /\ insts[i].size \in Nat
  BY <1>1, IndicesFacts
<1>3. ASSUME NEW r \in Int
      PROVE  Inside(i, r) \in Seq(Indices)
  <2> DEFINE t == byte_idx + insts[i].size + r
  <2>1. t \in Int
    BY <1>1, <1>2
  <2>2. CASE t < 0 \/ t >= text_len
    BY <2>2 DEF Inside
  <2>3. CASE ~(t < 0 \/ t >= text_len)
    <3>1. t + 1 \in 1 .. Len(map_offset_to_idx)
      BY <1>1, <1>2, <2>1, <2>3, LenProperties DEF text_len
    <3>2. map_offset_to_idx[t + 1] \in Indices
      BY <1>1, <3>1
    <3> QED BY <2>3, <3>2 DEF Inside
  <2> QED BY <2>2, <2>3
<1>4. CASE insts[i].rel_offset = UNSUPPORTED
  BY <1>4 DEF Reached
<1>5. CASE insts[i].rel_offset # UNSUPPORTED
  <2>1. insts[i].rel_offset \in Int
    BY <1>2, <1>5, InstructionsAssumption DEF InstructionsAssumption
  <2>2. Inside(i, insts[i].rel_offset) \in Seq(Indices) /\ Inside(i, 0) \in Seq(Indices)
    BY ONLY <1>3, <2>1
  <2>3. Inside(i, insts[i].rel_offset) \o Inside(i, 0) \in Seq(Indices)
    BY <2>2
  <2>4. insts[i].type \in {"plain", "jmp", "jcc", "return"}
    BY <1>2, InstructionsAssumption DEF InstructionsAssumption
  <2> QED BY <1>5, <2>2, <2>3, <2>4 DEF Reached
<1> QED BY <1>4, <1>5

LEMMA TargetedType ==
  ASSUME TypeOK, NEW i \in Indices, NEW t \in Indices
  PROVE  Targeted(t, i) \in Seq(Indices)
<1> DEFINE J == {j \in DOMAIN Reached(i) : Reached(i)[j] = t}
<1>1. Reached(i) \in Seq(Indices) /\ DOMAIN Reached(i) = 1 .. Len(Reached(i)) /\ Len(Reached(i)) \in Nat
  BY ReachedType
<1>2. IsFiniteSet(DOMAIN Reached(i))
  BY <1>1, FS_Interval
<1>3. IsFiniteSet(J)
  BY <1>2, FS_Subset
<1>4. Cardinality(J) \in Nat
  BY <1>3, FS_CardinalityType
<1>5. [k \in 1 .. Cardinality(J) |-> i] \in Seq(Indices)
  BY <1>4
<1>6. parents[t] \in Seq(Indices)
  BY DEF TypeOK
<1> HIDE DEF J
<1>7. parents[t] \o [k \in 1 .. Cardinality(J) |-> i] \in Seq(Indices)
  BY <1>5, <1>6
<1> QED BY <1>7 DEF Targeted, J

-----------------------------------------------------------------------------
LEMMA InitInv == Init => Inv
<1> SUFFICES ASSUME Init PROVE Inv
  OBVIOUS
<1>1. insts \in Seq(Instructions)
  BY ProgramsAssumption DEF Init, ProgramsAssumption
<1>2. Len(insts) \in Nat /\ Indices = 1 .. Len(insts)
  BY <1>1, IndicesFacts
<1>3. TypeOK
  BY <1>1, <1>2 DEF Init, TypeOK
<1>4. Reach = 0
  BY DEF Init, Reach
<1>5. Phases /\ Blocked
  BY <1>4 DEF Init, Phases, Blocked
<1> QED BY <1>3, <1>5 DEF Inv

(* The type invariant, one variable at a time.                             *)
LEMMA TypeStep ==
  ASSUME TypeOK, insts' = insts, idx' \in 1 .. Len(insts) + 1,
         map_offset_to_idx' \in Seq(Indices), byte_idx' \in Nat,
         parents' \in [Indices -> Seq(Indices)], children' \in [Indices -> Seq(Indices)],
         nodelist' \in Seq(Node), idx_to_block' \in [Indices -> 0 .. Len(nodelist')],
         top_nodes' \in Seq(1 .. Len(nodelist')),
         pc' \in {"map", "mark", "block", "extend", "link", "done"}
  PROVE  TypeOK'
<1>1. Indices' = Indices
  BY DEF Indices
<1>2. insts' \in Seq(Instructions) /\ idx' \in 1 .. Len(insts') + 1
  BY DEF TypeOK
<1> QED BY ONLY <1>1, <1>2, map_offset_to_idx' \in Seq(Indices), byte_idx' \in Nat,
         parents' \in [Indices -> Seq(Indices)], children' \in [Indices -> Seq(Indices)],
         nodelist' \in Seq(Node), idx_to_block' \in [Indices -> 0 .. Len(nodelist')],
         top_nodes' \in Seq(1 .. Len(nodelist')),
         pc' \in {"map", "mark", "block", "extend", "link", "done"}, Zenon DEF TypeOK, Node

(* What is left alone when the blocks are.                                 *)
LEMMA BlocksKept ==
  ASSUME Blocked, UNCHANGED <<insts, blocks>>
  PROVE  Blocked' /\ Reach' = Reach
  BY DEF Blocked, blocks, Reach, Covered, Final, Indices

LEMMA MapInv ==
  ASSUME Inv, Map
  PROVE  Inv'
<1>1. idx \in Indices /\ idx + 1 \in 1 .. Len(insts) + 1 /\ insts[idx].size \in Nat
  <2>1. insts \in Seq(Instructions) /\ idx \in 1 .. Len(insts) + 1 /\ idx <= Len(insts)
    BY DEF Inv, TypeOK, Map
  <2> QED BY ONLY <2>1, IndicesFacts
<1>2. [b \in 1 .. insts[idx].size |-> idx] \in Seq(Indices)
  BY <1>1
<1>3. map_offset_to_idx' \in Seq(Indices)
  BY <1>2 DEF Inv, TypeOK, Map
<1>4. TypeOK'
  <2>1. idx' \in 1 .. Len(insts) + 1 /\ byte_idx' = byte_idx
    BY <1>1 DEF Map
  <2> QED BY <1>3, <2>1, TypeStep, Zenon DEF Inv, TypeOK, Map, marks, blocks, links, Node
<1>5. Blocked' /\ Reach' = Reach
  BY BlocksKept DEF Inv, Map
<1>6. Phases'
  BY <1>5 DEF Inv, Phases, Map, blocks, links
<1> QED BY <1>4, <1>5, <1>6 DEF Inv

LEMMA MarkInv ==
  ASSUME Inv, Mark
  PROVE  Inv'
<1>1. idx \in Indices /\ idx + 1 \in 1 .. Len(insts) + 1 /\ insts[idx].size \in Nat
  <2>1. insts \in Seq(Instructions) /\ idx \in 1 .. Len(insts) + 1 /\ idx <= Len(insts)
    BY DEF Inv, TypeOK, Mark
  <2> QED BY ONLY <2>1, IndicesFacts
<1>2. Reached(idx) \in Seq(Indices)
  BY <1>1, ReachedType DEF Inv
<1>3. children[idx] \o Reached(idx) \in Seq(Indices)
  BY <1>1, <1>2 DEF Inv, TypeOK
<1>4. children' \in [Indices -> Seq(Indices)]
  BY <1>3 DEF Inv, TypeOK, Mark
<1>5. parents' \in [Indices -> Seq(Indices)]
  BY <1>1, TargetedType DEF Inv, Mark
<1>6. TypeOK'
  <2>1. idx' \in 1 .. Len(insts) + 1
    BY <1>1 DEF Mark
  <2>2. byte_idx' \in Nat
    <3>1. byte_idx \in Nat /\ byte_idx' = byte_idx + insts[idx].size
      BY DEF Inv, TypeOK, Mark
    <3> QED BY ONLY <1>1, <3>1
  <2> QED BY <1>4, <1>5, <2>1, <2>2, TypeStep, Zenon DEF Inv, TypeOK, Mark, blocks, links, Node
<1>7. Blocked' /\ Reach' = Reach
  BY BlocksKept DEF Inv, Mark
<1>8. Phases'
  BY <1>7 DEF Inv, Phases, Mark, blocks, links
<1> QED BY <1>6, <1>7, <1>8 DEF Inv

(* The actions that only change the phase.                                 *)
LEMMA PhaseInv ==
  ASSUME Inv, EndMap \/ EndMark \/ EndBlocks \/ Return
  PROVE  Inv'
<1>1. Len(insts) \in Nat /\ Reach \in Nat
  BY IndicesFacts, ReachFacts, Zenon DEF Inv, TypeOK
<1>2. UNCHANGED <<insts, text, marks, blocks, links>>
  BY DEF EndMap, EndMark, EndBlocks, Return
<1>3. idx' \in {1, idx} /\ pc' \in {"mark", "block", "link", "done"}
  BY Zenon DEF EndMap, EndMark, EndBlocks, Return
<1>4. TypeOK'
  <2>1. idx' \in 1 .. Len(insts) + 1
    <3>1. idx \in 1 .. Len(insts) + 1
      BY DEF Inv, TypeOK
    <3> QED BY ONLY <1>1, <1>3, <3>1
  <2> QED BY <1>2, <1>3, <2>1, TypeStep, Zenon DEF Inv, TypeOK, text, marks, blocks, links, Node
<1>5. Blocked' /\ Reach' = Reach
  BY <1>2, BlocksKept DEF Inv
<1>6. CASE EndMap
  <2>1. Phases'
    BY <1>2, <1>5, <1>6 DEF Inv, Phases, EndMap, blocks, links
  <2> QED BY <1>4, <1>5, <2>1 DEF Inv
<1>7. CASE EndMark
  <2>1. Reach = 0
    BY <1>7 DEF Inv, Phases, EndMark, Reach
  <2>2. Phases'
    BY <1>2, <1>5, <1>7, <2>1 DEF Inv, Phases, EndMark, links, blocks
  <2> QED BY <1>4, <1>5, <2>2 DEF Inv
<1>8. CASE EndBlocks
  <2>1. Reach = Len(insts)
    <3>1. Reach = idx - 1 /\ idx > Len(insts) /\ idx \in 1 .. Len(insts) + 1
      BY <1>8, Zenon DEF Inv, Phases, EndBlocks, TypeOK
    <3> QED BY ONLY <1>1, <3>1
  <2>2. Phases'
    BY <1>2, <1>5, <1>8, <2>1 DEF Inv, Phases, EndBlocks
  <2> QED BY <1>4, <1>5, <2>2 DEF Inv
<1>9. CASE Return
  <2>1. Phases'
    BY <1>2, <1>5, <1>9 DEF Inv, Phases, Return
  <2> QED BY <1>4, <1>5, <2>1 DEF Inv
<1> QED BY <1>6, <1>7, <1>8, <1>9

(* A branch into the middle of what would be one block.                    *)
LEMMA SplitInv ==
  ASSUME Inv, Split
  PROVE  Inv'
<1>1. Len(insts) \in Nat /\ Indices = 1 .. Len(insts) /\ idx \in Indices /\ Reach = idx - 1 /\ Reach # 0
  <2>1. insts \in Seq(Instructions) /\ idx \in 1 .. Len(insts) + 1 /\ idx <= Len(insts)
    BY DEF Inv, TypeOK, Split
  <2>2. Reach = idx - 1 /\ nodelist # <<>>
    BY DEF Inv, Phases, Split
  <2>3. Len(nodelist) \in DOMAIN nodelist
    BY <2>2 DEF Inv, TypeOK
  <2>4. Reach # 0
    BY <2>2, <2>3, NodeFacts DEF Reach, Inv
  <2> QED BY ONLY <2>1, <2>2, <2>4, IndicesFacts
<1>2. idx - 1 \in Indices
  BY <1>1, ReachFacts DEF Inv
<1>3. parents' \in [Indices -> Seq(Indices)]
  <2>1. parents[idx] \in Seq(Indices)
    BY <1>1, Zenon DEF Inv, TypeOK
  <2>2. Append(parents[idx], idx - 1) \in Seq(Indices)
    BY ONLY <1>2, <2>1
  <2> QED BY <2>2 DEF Inv, TypeOK, Split
<1>4. children' \in [Indices -> Seq(Indices)]
  <2>1. children[idx - 1] \in Seq(Indices)
    BY <1>2, Zenon DEF Inv, TypeOK
  <2>2. Append(children[idx - 1], idx) \in Seq(Indices)
    BY ONLY <1>1, <2>1
  <2> QED BY <2>2 DEF Inv, TypeOK, Split
<1>5. TypeOK'
  BY <1>3, <1>4, TypeStep, Zenon DEF Inv, TypeOK, Split, text, blocks, links, Node
<1>6. Blocked' /\ Reach' = Reach
  BY BlocksKept DEF Inv, Split
<1>7. Phases'
  BY <1>6 DEF Inv, Phases, Split, blocks, links
<1> QED BY <1>5, <1>6, <1>7 DEF Inv

LEMMA LinkInv ==
  ASSUME Inv, Link
  PROVE  Inv'
<1>1. Blocked' /\ Reach' = Reach
  BY BlocksKept DEF Inv, Link
<1>2. Phases'
  BY <1>1 DEF Inv, Phases, Link, blocks
<1>3. Len(nodelist) \in Nat /\ idx \in 1 .. Len(nodelist)
  <2>1. Len(nodelist) \in Nat /\ Len(insts) \in Nat
    BY DEF Inv, TypeOK
  <2>2. idx \in 1 .. Len(insts) + 1 /\ idx <= Len(nodelist)
    BY DEF Inv, TypeOK, Link
  <2> QED BY ONLY <2>1, <2>2
<1>4. idx' \in 1 .. Len(insts) + 1
  <2>1. Len(nodelist) <= Len(insts)
    BY Zenon DEF Inv, Phases, Blocked, Link
  <2>2. Len(insts) \in Nat /\ idx' = idx + 1
    BY DEF Inv, TypeOK, Link
  <2> QED BY ONLY <1>3, <2>1, <2>2
<1>5. top_nodes' \in Seq(1 .. Len(nodelist))
  <2>1. top_nodes \in Seq(1 .. Len(nodelist))
    BY DEF Inv, TypeOK
  <2>2. Append(top_nodes, idx) \in Seq(1 .. Len(nodelist))
    BY ONLY <1>3, <2>1
  <2>3. top_nodes' \in {top_nodes, Append(top_nodes, idx)}
    BY DEF Link
  <2> QED BY ONLY <2>1, <2>2, <2>3
<1>6. TypeOK'
  BY <1>4, <1>5, TypeStep, Zenon DEF Inv, TypeOK, Link, text, marks, blocks, Node
<1> QED BY <1>1, <1>2, <1>6 DEF Inv

-----------------------------------------------------------------------------
(* A new block, or one more instruction in the last block: in both cases   *)
(* the last block ends at idx, which was the first instruction in none.    *)
LEMMA Grown ==
  ASSUME Inv, idx \in Indices, Reach = idx - 1, insts' = insts,
         NEW m \in Nat \ {0},
         nodelist' \in Seq(Node), Len(nodelist') = m, Len(nodelist) \in {m - 1, m},
         \A k \in 1 .. m - 1 : nodelist'[k] = nodelist[k],
         idx_to_block' = [idx_to_block EXCEPT ![idx] = m],
         nodelist'[m].start_inst = IF m = 1 THEN 1 ELSE Final(nodelist[m - 1]) + 1,
         Final(nodelist'[m]) = idx,
         \A i \in Covered(nodelist'[m]) : i # idx => idx_to_block[i] = m,
         \A i \in 1 .. Reach : idx_to_block[i] = m => i \in Covered(nodelist'[m])
  PROVE  Blocked' /\ Reach' = idx
<1>1. /\ Len(insts) \in Nat /\ Indices = 1 .. Len(insts) /\ Indices' = Indices
      /\ idx \in Nat \ {0} /\ idx <= Len(insts) /\ Reach = idx - 1
  <2>1. insts \in Seq(Instructions) /\ idx \in Indices /\ insts' = insts /\ Reach = idx - 1
    BY Zenon DEF Inv, TypeOK
  <2> QED BY ONLY <2>1, IndicesFacts DEF Indices
<1>2. m \in Nat /\ m >= 1 /\ (Len(nodelist) = m - 1 \/ Len(nodelist) = m)
  OBVIOUS
<1>3. DOMAIN nodelist' = 1 .. m /\ m \in DOMAIN nodelist' /\ nodelist'[m] \in Node /\ nodelist' # <<>>
  <2>1. nodelist' \in Seq(Node) /\ Len(nodelist') = m
    OBVIOUS
  <2>2. DOMAIN nodelist' = 1 .. m
    BY ONLY <2>1
  <2>3. m \in DOMAIN nodelist'
    BY ONLY <1>2, <2>2
  <2>4. nodelist'[m] \in Node
    BY ONLY <2>1, <2>3
  <2>5. nodelist' # <<>>
    BY ONLY <1>2, <2>1
  <2> QED BY ONLY <2>2, <2>3, <2>4, <2>5
<1>4. DOMAIN nodelist = 1 .. Len(nodelist) /\ Len(nodelist) \in Nat
  <2>1. nodelist \in Seq(Node)
    BY Zenon DEF Inv, TypeOK, Node
  <2> QED BY ONLY <2>1
<1>5. ASSUME NEW k \in 1 .. m - 1
       PROVE  k \in DOMAIN nodelist
  <2>1. k \in Int /\ 1 <= k /\ k <= m - 1
    BY ONLY <1>2, k \in 1 .. m - 1
  <2>2. k \in 1 .. Len(nodelist)
    BY ONLY <1>2, <2>1
  <2> QED BY ONLY <1>4, <2>2
<1>6. ASSUME NEW k \in DOMAIN nodelist', k # m
       PROVE  k \in 1 .. m - 1 /\ (k # 1 => k - 1 \in 1 .. m - 1)
  <2>1. k \in 1 .. m
    BY ONLY <1>3, k \in DOMAIN nodelist'
  <2> QED BY ONLY <1>2, <2>1, k # m
<1>7. ASSUME NEW k \in DOMAIN nodelist, k # m
       PROVE  k \in 1 .. m - 1
  <2>1. k \in 1 .. Len(nodelist)
    BY ONLY <1>4, k \in DOMAIN nodelist
  <2> QED BY ONLY <1>2, <2>1, k # m
<1>8. /\ idx_to_block' = [idx_to_block EXCEPT ![idx] = m] /\ DOMAIN idx_to_block = Indices
      /\ idx_to_block'[idx] = m
      /\ \A i \in Indices : i # idx => idx_to_block'[i] = idx_to_block[i]
  <2>1. /\ idx_to_block' = [idx_to_block EXCEPT ![idx] = m] /\ idx \in Indices
        /\ idx_to_block \in [Indices -> 0 .. Len(nodelist)]
    BY Zenon DEF Inv, TypeOK
  <2> QED BY ONLY <2>1
<1>9. Reach' = idx
  <2>1. nodelist' # <<>> /\ Final(nodelist'[Len(nodelist')]) = idx
    BY <1>3, Zenon
  <2> QED BY ONLY <2>1 DEF Reach, Final
<1>10. nodelist'[m].start_inst \in Nat \ {0}
  <2>1. nodelist'[m].start_inst \in Indices
    BY ONLY <1>3, Zenon DEF Node
  <2> QED BY ONLY <1>1, <2>1
<1>11. Len(nodelist') <= Reach'
  <2>1. Len(nodelist) <= Reach /\ Len(nodelist') = m
    BY Zenon DEF Inv, Blocked
  <2> QED BY ONLY <1>1, <1>2, <1>9, <2>1
<1>12. ASSUME NEW k \in 1 .. m - 1
      PROVE  /\ nodelist'[k] = nodelist[k] /\ Final(nodelist[k]) \in Nat
             /\ Final(nodelist[k]) < idx
             /\ nodelist[k].start_inst = IF k = 1 THEN 1 ELSE Final(nodelist[k - 1]) + 1
             /\ \A i \in Covered(nodelist[k]) :
                   i \in Indices /\ i # idx /\ idx_to_block[i] = k
  <2>1. k \in DOMAIN nodelist
    BY ONLY <1>5
  <2>2. /\ Final(nodelist[k]) \in Nat \ {0} /\ nodelist[k].start_inst \in Nat
        /\ Covered(nodelist[k]) = nodelist[k].start_inst .. Final(nodelist[k])
    BY ONLY <2>1, NodeFacts, Inv DEF Inv
  <2>3. /\ Final(nodelist[k]) <= Reach
        /\ nodelist[k].start_inst = IF k = 1 THEN 1 ELSE Final(nodelist[k - 1]) + 1
        /\ \A i \in Covered(nodelist[k]) : i \in Indices /\ idx_to_block[i] = k
    BY ONLY <2>1, Inv, Zenon DEF Inv, Blocked
  <2>4. Final(nodelist[k]) < idx
    BY ONLY <1>1, <2>2, <2>3
  <2>5. \A i \in Covered(nodelist[k]) : i # idx
    BY ONLY <1>1, <2>2, <2>4
  <2>6. nodelist'[k] = nodelist[k]
    OBVIOUS
  <2> QED BY ONLY <2>2, <2>3, <2>4, <2>5, <2>6
<1>13. /\ nodelist'[m].start_inst = IF m = 1 THEN 1 ELSE Final(nodelist'[m - 1]) + 1
      /\ nodelist'[m].start_inst <= idx
      /\ Covered(nodelist'[m]) = nodelist'[m].start_inst .. idx
  <2>1. /\ nodelist'[m].start_inst = IF m = 1 THEN 1 ELSE Final(nodelist[m - 1]) + 1
        /\ Final(nodelist'[m]) = idx
    OBVIOUS
  <2>2. CASE m = 1
    BY ONLY <1>1, <2>1, <2>2 DEF Covered
  <2>3. CASE m # 1
    <3>1. m - 1 \in 1 .. m - 1
      BY ONLY <1>2, <2>3
    <3>2. nodelist'[m - 1] = nodelist[m - 1] /\ Final(nodelist[m - 1]) < idx /\ Final(nodelist[m - 1]) \in Nat
      BY ONLY <1>12, <3>1
    <3> QED BY ONLY <1>1, <2>1, <2>3, <3>2 DEF Covered
  <2> QED BY ONLY <2>2, <2>3
<1>14. ASSUME NEW k \in DOMAIN nodelist'
      PROVE  /\ Final(nodelist'[k]) <= Reach'
             /\ nodelist'[k].start_inst = IF k = 1 THEN 1 ELSE Final(nodelist'[k - 1]) + 1
             /\ \A i \in Covered(nodelist'[k]) : i \in Indices' /\ idx_to_block'[i] = k
  <2>1. CASE k # m
    <3>1. k \in 1 .. m - 1 /\ (k # 1 => k - 1 \in 1 .. m - 1)
      BY ONLY <1>6, <2>1, k \in DOMAIN nodelist'
    <3>2. k # 1 => nodelist'[k - 1] = nodelist[k - 1]
      BY ONLY <1>12, <3>1
    <3>3. nodelist'[k] = nodelist[k]
      BY ONLY <1>12, <3>1
    <3>4. \A i \in Covered(nodelist'[k]) : i \in Indices' /\ idx_to_block'[i] = k
      BY ONLY <1>1, <1>8, <1>12, <3>1, <3>3
    <3>5. Final(nodelist'[k]) <= Reach'
      BY ONLY <1>1, <1>9, <1>12, <3>1, <3>3
    <3>6. nodelist'[k].start_inst = IF k = 1 THEN 1 ELSE Final(nodelist'[k - 1]) + 1
      BY ONLY <1>12, <3>1, <3>2, <3>3
    <3> QED BY ONLY <3>4, <3>5, <3>6
  <2>2. CASE k = m
    <3>1. ASSUME NEW i \in Covered(nodelist'[m])
          PROVE  i \in Indices' /\ idx_to_block'[i] = m
      <4>1. i \in Indices
        BY ONLY <1>1, <1>10, <1>13, i \in Covered(nodelist'[m])
      <4>2. i # idx => idx_to_block[i] = m
        OBVIOUS
      <4> QED BY ONLY <1>1, <1>8, <4>1, <4>2
    <3>2. Final(nodelist'[m]) <= Reach'
      BY ONLY <1>1, <1>9, Final(nodelist'[m]) = idx
    <3> QED BY ONLY <1>13, <2>2, <3>1, <3>2
  <2> QED BY ONLY <2>1, <2>2
<1>15. ASSUME NEW i \in 1 .. Reach'
       PROVE  idx_to_block'[i] \in DOMAIN nodelist' /\ i \in Covered(nodelist'[idx_to_block'[i]])
  <2>1. CASE i = idx
    <3>1. i \in Covered(nodelist'[m])
      BY ONLY <1>1, <1>10, <1>13, <2>1
    <3> QED BY ONLY <1>3, <1>8, <2>1, <3>1
  <2>2. CASE i # idx
    <3>1. i \in 1 .. Reach /\ i \in Indices
      BY ONLY <1>1, <1>9, <2>2, i \in 1 .. Reach'
    <3>2. idx_to_block[i] \in DOMAIN nodelist /\ i \in Covered(nodelist[idx_to_block[i]])
      BY ONLY <3>1, Inv, Zenon DEF Inv, Blocked
    <3>3. idx_to_block'[i] = idx_to_block[i]
      BY ONLY <1>8, <2>2, <3>1
    <3>4. CASE idx_to_block[i] = m
      <4>1. i \in Covered(nodelist'[m])
        BY <3>1, <3>4, Zenon
      <4> QED BY ONLY <1>3, <3>3, <3>4, <4>1
    <3>5. CASE idx_to_block[i] # m
      <4>1. idx_to_block[i] \in 1 .. m - 1
        BY ONLY <1>7, <3>2, <3>5
      <4>2. nodelist'[idx_to_block[i]] = nodelist[idx_to_block[i]]
        BY ONLY <1>12, <4>1
      <4>3. idx_to_block[i] \in DOMAIN nodelist'
        BY ONLY <1>2, <1>3, <4>1
      <4> QED BY ONLY <3>2, <3>3, <4>2, <4>3
    <3> QED BY ONLY <3>4, <3>5
  <2> QED BY ONLY <2>1, <2>2
<1> QED BY ONLY <1>9, <1>11, <1>14, <1>15, Zenon DEF Blocked

LEMMA NewBlockInv ==
  ASSUME Inv, NewBlock
  PROVE  Inv'
<1> DEFINE m == Len(nodelist) + 1
           b == [start_inst |-> idx, block_len |-> 1]
<1>1. /\ insts \in Seq(Instructions) /\ nodelist \in Seq(Node) /\ top_nodes = <<>>
      /\ idx \in 1 .. Len(insts) + 1 /\ idx <= Len(insts) /\ Reach = idx - 1
      /\ nodelist' = Append(nodelist, b) /\ idx' = idx + 1
      /\ idx_to_block' = [idx_to_block EXCEPT ![idx] = m]
      /\ idx_to_block \in [Indices -> 0 .. Len(nodelist)]
  BY Zenon DEF Inv, TypeOK, Phases, NewBlock, Node
<1>2. /\ Len(insts) \in Nat /\ Indices = 1 .. Len(insts)
      /\ idx \in Indices /\ idx \in Nat \ {0} /\ 1 \in Indices /\ idx + 1 \in 1 .. Len(insts) + 1
  <2>1. insts \in Seq(Instructions) /\ idx \in 1 .. Len(insts) + 1 /\ idx <= Len(insts)
    BY <1>1
  <2> QED BY ONLY <2>1, IndicesFacts
<1>3. Len(nodelist) \in Nat /\ m \in Nat \ {0} /\ Len(nodelist) = m - 1
  BY ONLY <1>1
<1>4. b \in Node
  BY ONLY <1>2 DEF Node
<1>5. /\ nodelist' \in Seq(Node) /\ Len(nodelist') = m /\ nodelist'[m] = b
      /\ \A k \in 1 .. m - 1 : nodelist'[k] = nodelist[k]
  BY ONLY <1>1, <1>3, <1>4
<1>6. b.start_inst = idx /\ Final(b) = idx
  BY ONLY <1>2 DEF Final
<1>7. nodelist'[m].start_inst = IF m = 1 THEN 1 ELSE Final(nodelist[m - 1]) + 1
  <2>1. CASE nodelist = <<>>
    <3>1. m = 1 /\ idx = 1
      BY ONLY <1>1, <1>2, <2>1 DEF Reach
    <3> QED BY ONLY <1>5, <1>6, <3>1
  <2>2. CASE nodelist # <<>>
    <3>1. m # 1 /\ m - 1 = Len(nodelist)
      BY ONLY <1>1, <1>3, <2>2
    <3>2. Len(nodelist) \in DOMAIN nodelist /\ Reach = Final(nodelist[m - 1])
      BY ONLY <1>1, <3>1, <2>2 DEF Reach
    <3>3. Final(nodelist[m - 1]) \in Nat
      BY ONLY <3>1, <3>2, NodeFacts, Inv DEF Inv
    <3> QED BY ONLY <1>1, <1>2, <1>5, <1>6, <3>1, <3>2, <3>3
  <2> QED BY ONLY <2>1, <2>2
<1>8. \A i \in Covered(nodelist'[m]) : i = idx
  BY ONLY <1>2, <1>5, <1>6 DEF Covered
<1>9. \A i \in 1 .. Reach : idx_to_block[i] # m
  <2>1. \A i \in 1 .. Reach : idx_to_block[i] \in 0 .. Len(nodelist)
    <3>1. \A i \in 1 .. Reach : i \in Indices
      BY ONLY <1>1, <1>2
    <3>2. idx_to_block \in [Indices -> 0 .. Len(nodelist)]
      BY <1>1
    <3> QED BY ONLY <3>1, <3>2
  <2> QED BY ONLY <1>3, <2>1
<1>10. Blocked' /\ Reach' = idx
  <2> HIDE DEF m, b
  <2>1. insts' = insts /\ Final(nodelist'[m]) = idx
    BY <1>5, <1>6, Zenon DEF NewBlock
  <2> QED BY ONLY <1>1, <1>2, <1>3, <1>5, <1>7, <1>8, <1>9, <2>1, Inv, Grown
<1>11. TypeOK'
  <2> HIDE DEF m
  <2>1. idx_to_block' \in [Indices -> 0 .. Len(nodelist')]
    BY ONLY <1>1, <1>2, <1>3, <1>5
  <2>2. top_nodes' = <<>> /\ top_nodes' \in Seq(1 .. Len(nodelist'))
    BY <1>1 DEF NewBlock, links
  <2>3. idx' \in 1 .. Len(insts) + 1
    BY ONLY <1>1, <1>2
  <2>4. pc' \in {"block", "extend"}
    BY DEF NewBlock
  <2> QED BY <1>5, <2>1, <2>2, <2>3, <2>4, TypeStep, Zenon DEF Inv, TypeOK, NewBlock, text, marks
<1>12. Phases'
  <2>1. Reach' = idx' - 1 /\ nodelist' # <<>>
    BY ONLY <1>1, <1>2, <1>3, <1>5, <1>10
  <2>2. pc' \in {"block", "extend"} /\ top_nodes' = <<>>
    BY <1>1 DEF NewBlock, links
  <2> QED BY ONLY <2>1, <2>2 DEF Phases
<1> QED BY ONLY <1>10, <1>11, <1>12 DEF Inv

LEMMA ExtendInv ==
  ASSUME Inv, Extend
  PROVE  Inv'
<1> DEFINE m == Len(nodelist)
           b == [nodelist[m] EXCEPT !.block_len = @ + 1]
<1>1. /\ insts \in Seq(Instructions) /\ nodelist \in Seq(Node) /\ top_nodes = <<>>
      /\ idx \in 1 .. Len(insts) + 1 /\ idx <= Len(insts) /\ Reach = idx - 1
      /\ nodelist # <<>>
      /\ nodelist' = [nodelist EXCEPT ![m].block_len = @ + 1] /\ idx' = idx + 1
      /\ idx_to_block' = [idx_to_block EXCEPT ![idx] = m]
      /\ idx_to_block \in [Indices -> 0 .. Len(nodelist)]
  BY Zenon DEF Inv, TypeOK, Phases, Extend, Extended, Node
<1>2. /\ Len(insts) \in Nat /\ Indices = 1 .. Len(insts)
      /\ idx \in Indices /\ idx \in Nat \ {0} /\ idx + 1 \in 1 .. Len(insts) + 1
  <2>1. insts \in Seq(Instructions) /\ idx \in 1 .. Len(insts) + 1 /\ idx <= Len(insts)
    BY <1>1
  <2> QED BY ONLY <2>1, IndicesFacts
<1>3. m \in Nat \ {0} /\ m \in DOMAIN nodelist /\ DOMAIN nodelist = 1 .. m
  BY ONLY <1>1
<1>4. /\ nodelist[m] \in Node /\ nodelist[m].start_inst \in Nat \ {0}
      /\ nodelist[m].block_len \in Nat \ {0}
      /\ Covered(nodelist[m]) = nodelist[m].start_inst .. Final(nodelist[m])
      /\ Final(nodelist[m]) = idx - 1
  <2>1. Reach = Final(nodelist[m])
    BY ONLY <1>1 DEF Reach
  <2> QED BY ONLY <1>1, <1>3, <2>1, NodeFacts, Inv DEF Inv
<1>5. /\ b.start_inst = nodelist[m].start_inst /\ b.block_len = nodelist[m].block_len + 1
      /\ b = [start_inst |-> b.start_inst, block_len |-> b.block_len]
  BY ONLY <1>4 DEF Node
<1>6. Final(b) = idx
  BY ONLY <1>2, <1>4, <1>5 DEF Final
<1>7. b \in Node
  <2>1. b.block_len \in Indices
    BY ONLY <1>2, <1>4, <1>5 DEF Final
  <2>2. b.start_inst \in Indices
    BY ONLY <1>4, <1>5 DEF Node
  <2> QED BY ONLY <1>5, <2>1, <2>2 DEF Node
<1>8. nodelist' = [nodelist EXCEPT ![m] = b]
  BY ONLY <1>1, <1>3
<1>9. /\ nodelist' \in Seq(Node) /\ Len(nodelist') = m /\ nodelist'[m] = b
      /\ \A k \in 1 .. m - 1 : nodelist'[k] = nodelist[k]
  <2> HIDE DEF b
  <2>1. nodelist \in Seq(Node) /\ m \in 1 .. Len(nodelist) /\ b \in Node
    BY ONLY <1>1, <1>3, <1>7
  <2>2. /\ nodelist' \in Seq(Node) /\ Len(nodelist') = m
        /\ \A k \in 1 .. Len(nodelist) : nodelist'[k] = IF k = m THEN b ELSE nodelist[k]
    BY ONLY <1>8, <2>1, ExceptSeq
  <2>3. m \in 1 .. Len(nodelist) /\ Len(nodelist) \in Nat
    BY ONLY <1>3, <2>1
  <2>4. nodelist'[m] = b
    BY ONLY <2>2, <2>3
  <2>5. ASSUME NEW k \in 1 .. m - 1 PROVE nodelist'[k] = nodelist[k]
    <3>1. k \in 1 .. Len(nodelist) /\ k # m
      BY ONLY <2>3, k \in 1 .. m - 1
    <3> QED BY ONLY <2>2, <3>1
  <2> QED BY ONLY <2>2, <2>4, <2>5
<1>10. nodelist'[m].start_inst = IF m = 1 THEN 1 ELSE Final(nodelist[m - 1]) + 1
  <2>1. nodelist[m].start_inst = IF m = 1 THEN 1 ELSE Final(nodelist[m - 1]) + 1
    BY <1>3, Zenon DEF Inv, Blocked
  <2> QED BY ONLY <1>5, <1>9, <2>1
<1>11. \A i \in Covered(nodelist'[m]) : i # idx => idx_to_block[i] = m
  <2>1. \A i \in Covered(nodelist[m]) : idx_to_block[i] = m
    BY <1>3, Zenon DEF Inv, Blocked
  <2>2. Covered(nodelist'[m]) = nodelist[m].start_inst .. idx
    BY ONLY <1>5, <1>6, <1>9 DEF Covered
  <2> QED BY ONLY <1>2, <1>4, <2>1, <2>2
<1>12. \A i \in 1 .. Reach : idx_to_block[i] = m => i \in Covered(nodelist'[m])
  <2>1. \A i \in 1 .. Reach : idx_to_block[i] = m => i \in Covered(nodelist[m])
    BY Zenon DEF Inv, Blocked
  <2>2. Covered(nodelist'[m]) = nodelist[m].start_inst .. idx
    BY ONLY <1>5, <1>6, <1>9 DEF Covered
  <2> QED BY ONLY <1>1, <1>2, <1>4, <2>1, <2>2
<1>13. Blocked' /\ Reach' = idx
  <2> HIDE DEF m, b
  <2>1. insts' = insts /\ Final(nodelist'[m]) = idx
    BY <1>6, <1>9, Zenon DEF Extend
  <2>2. Len(nodelist) = m
    BY ONLY Zenon DEF m
  <2>3. Len(nodelist) \in {m - 1, m}
    BY ONLY <2>2
  <2> QED BY ONLY <1>1, <1>2, <1>3, <1>9, <1>10, <1>11, <1>12, <2>1, <2>3, Inv, Grown
<1>14. TypeOK'
  <2>1. idx_to_block' \in [Indices -> 0 .. Len(nodelist')]
    BY ONLY <1>1, <1>2, <1>3, <1>9
  <2> HIDE DEF m
  <2>2. top_nodes' = <<>> /\ top_nodes' \in Seq(1 .. Len(nodelist'))
    BY <1>1 DEF Extend, links
  <2>3. idx' \in 1 .. Len(insts) + 1
    BY ONLY <1>1, <1>2
  <2>4. pc' \in {"block", "extend"}
    BY DEF Extend
  <2> QED BY <1>9, <2>1, <2>2, <2>3, <2>4, TypeStep, Zenon DEF Inv, TypeOK, Extend, text, marks
<1>15. Phases'
  <2> HIDE DEF m
  <2>1. Reach' = idx' - 1 /\ nodelist' # <<>>
    BY ONLY <1>1, <1>2, <1>3, <1>9, <1>13
  <2>2. pc' \in {"block", "extend"} /\ top_nodes' = <<>>
    BY <1>1 DEF Extend, links
  <2> QED BY ONLY <2>1, <2>2 DEF Phases
<1> QED BY ONLY <1>13, <1>14, <1>15 DEF Inv

LEMMA StutterInv ==
  ASSUME Inv, UNCHANGED vars
  PROVE  Inv'
<1>1. UNCHANGED <<insts, idx, text, marks, blocks, links, pc>>
  BY DEF vars
<1>2. Blocked' /\ Reach' = Reach
  BY <1>1, BlocksKept DEF Inv
<1>3. Phases'
  BY <1>1, <1>2 DEF Inv, Phases, blocks, links
<1>4. TypeOK'
  BY <1>1, TypeStep, Zenon DEF Inv, TypeOK, text, marks, blocks, links, Node
<1> QED BY <1>2, <1>3, <1>4 DEF Inv

LEMMA NextInv == Inv /\ [Next]_vars => Inv'
<1> SUFFICES ASSUME Inv, [Next]_vars PROVE Inv'
  OBVIOUS
<1>1. CASE Map BY <1>1, MapInv
<1>2. CASE Mark BY <1>2, MarkInv
<1>3. CASE EndMap \/ EndMark \/ EndBlocks \/ Return BY <1>3, PhaseInv
<1>4. CASE NewBlock BY <1>4, NewBlockInv
<1>5. CASE Split BY <1>5, SplitInv
<1>6. CASE Extend BY <1>6, ExtendInv
<1>7. CASE Link BY <1>7, LinkInv
<1>8. CASE Stopped \/ UNCHANGED vars BY <1>8, StutterInv DEF Stopped
<1> QED BY <1>1, <1>2, <1>3, <1>4, <1>5, <1>6, <1>7, <1>8 DEF Next

-----------------------------------------------------------------------------
(* Offsets: where an instruction begins, the sum of the sizes before it.   *)
LEMMA OffsetFacts ==
  ASSUME insts \in Seq(Instructions)
  PROVE  /\ Offset(1) = 0
         /\ \A k \in 1 .. Len(insts) + 1 : Offset(k) \in Nat
         /\ \A k \in Indices : Offset(k + 1) = Offset(k) + insts[k].size
<1> DEFINE n == Len(insts) + 1
           step == [i \in 2 .. n |-> [v \in Nat |-> v + insts[i - 1].size]]
           Sums(f) == f = [k \in 1 .. n |-> IF k = 1 THEN 0 ELSE f[k - 1] + insts[k - 1].size]
           sum == CHOOSE f : Sums(f)
<1>1. Len(insts) \in Nat /\ n \in Nat /\ 1 <= n /\ Indices = 1 .. n - 1
  BY IndicesFacts
<1>2. \A i \in 2 .. n : insts[i - 1].size \in Nat /\ step[i] \in [Nat -> Nat]
  <2>1. \A i \in 2 .. n : i - 1 \in Indices
    BY <1>1
  <2> QED
    BY <2>1, IndicesFacts
<1>3. PICK f : Solves(f, 1, n, Nat, 0, step)
  <2> HIDE DEF n, step
  <2>1. \A i \in 1 + 1 .. n : step[i] \in [Nat -> Nat]
    <3>1. 1 + 1 = 2
      OBVIOUS
    <3> QED
      BY <1>2, <3>1
  <2>2. 1 \in Int /\ n \in Int /\ 1 <= n /\ 0 \in Nat
    BY <1>1
  <2> QED
    BY ONLY <2>1, <2>2, Recursion
<1>4. Sums(f)
  <2>1. f = [k \in 1 .. n |-> f[k]] /\ f[1] = 0
    BY <1>3 DEF Solves
  <2>2. \A k \in 2 .. n : f[k] = f[k - 1] + insts[k - 1].size
    <3>1. \A k \in 2 .. n : f[k] = step[k][f[k - 1]] /\ f[k - 1] \in Nat
      BY <1>1, <1>3 DEF Solves
    <3> QED
      BY <3>1
  <2>3. ASSUME NEW k \in 1 .. n
        PROVE  f[k] = IF k = 1 THEN 0 ELSE f[k - 1] + insts[k - 1].size
    <3>1. k # 1 => k \in 2 .. n
      BY <1>1
    <3> QED
      BY <2>1, <2>2, <3>1
  <2> QED
    BY <2>1, <2>3
<1>5. Sums(sum)
  BY <1>4
<1>6. \A i : Offset(i) = sum[i]
  BY DEF Offset
<1> HIDE DEF sum
<1>7. Offset(1) = 0 /\ \A k \in 2 .. n : Offset(k) = Offset(k - 1) + insts[k - 1].size
  <2>1. ASSUME NEW k \in 1 .. n
        PROVE  sum[k] = IF k = 1 THEN 0 ELSE sum[k - 1] + insts[k - 1].size
    BY <1>5
  <2>2. 1 \in 1 .. n /\ \A k \in 2 .. n : k \in 1 .. n /\ k # 1
    BY <1>1
  <2> QED
    BY <1>6, <2>1, <2>2
<1>8. \A k \in Indices : Offset(k + 1) = Offset(k) + insts[k].size
  <2>1. \A k \in Indices : k + 1 \in 2 .. n /\ (k + 1) - 1 = k
    BY <1>1
  <2> QED
    BY <1>7, <2>1
<1> DEFINE S == {k \in Nat : k + 1 <= n => Offset(k + 1) \in Nat}
<1>9. \A k \in Nat : k \in S
  <2>1. 0 \in S
    BY <1>7
  <2>2. ASSUME NEW k \in Nat, k \in S PROVE k + 1 \in S
    <3>1. k + 2 <= n => k + 1 \in Indices /\ insts[k + 1].size \in Nat /\ (k + 1) + 1 = k + 2
      BY <1>1, IndicesFacts
    <3> QED
      BY <1>1, <1>8, <2>2, <3>1
  <2> HIDE DEF S
  <2> QED
    BY <2>1, <2>2, InductionOnSet
<1>10. ASSUME NEW k \in 1 .. n PROVE Offset(k) \in Nat
  <2>1. k - 1 \in Nat /\ (k - 1) + 1 = k
    BY <1>1
  <2>2. k - 1 \in S
    BY <1>9, <2>1
  <2> QED
    BY <1>1, <2>1, <2>2
<1> QED
  BY <1>7, <1>8, <1>10

LEMMA OffsetsGrow ==
  ASSUME insts \in Seq(Instructions), NEW j \in 1 .. Len(insts) + 1, NEW k \in 1 .. Len(insts) + 1, j < k
  PROVE  Offset(j) < Offset(k)
<1> DEFINE S == {d \in Nat : j + d + 1 <= Len(insts) + 1 => Offset(j) < Offset(j + d + 1)}
<1>1. Len(insts) \in Nat /\ Indices = 1 .. Len(insts)
  BY IndicesFacts
<1>2. \A i \in Indices : Offset(i) \in Nat /\ Offset(i + 1) \in Nat /\ Offset(i) < Offset(i + 1)
  <2>1. \A i \in Indices : Offset(i + 1) = Offset(i) + insts[i].size /\ insts[i].size \in Nat \ {0}
    BY OffsetFacts, IndicesFacts
  <2>2. \A i \in Indices : Offset(i) \in Nat
    BY <1>1, OffsetFacts
  <2> QED
    BY <2>1, <2>2
<1>3. 0 \in S
  BY <1>1, <1>2
<1>4. ASSUME NEW d \in Nat, d \in S PROVE d + 1 \in S
  <2>1. SUFFICES ASSUME j + (d + 1) + 1 <= Len(insts) + 1 PROVE Offset(j) < Offset(j + (d + 1) + 1)
    OBVIOUS
  <2>2. j + d + 1 \in Indices /\ j \in Indices /\ j + (d + 1) + 1 = (j + d + 1) + 1
    BY <1>1, <2>1
  <2>3. Offset(j) < Offset(j + d + 1)
    BY <1>1, <1>4, <2>1
  <2> QED
    BY <1>2, <2>2, <2>3
<1>5. k - j - 1 \in S
  <2>1. k - j - 1 \in Nat
    BY <1>1
  <2> HIDE DEF S
  <2> QED
    BY <1>3, <1>4, <2>1, InductionOnSet
<1>6. j + (k - j - 1) + 1 = k /\ k <= Len(insts) + 1
  BY <1>1
<1> QED
  BY <1>5, <1>6

(* An offset is inside one instruction only.                               *)
LEMMA OneAtOffset ==
  ASSUME insts \in Seq(Instructions), NEW o \in Int, NEW j \in Indices, NEW k \in Indices,
         Offset(j) <= o, o < Offset(j + 1), Offset(k) <= o, o < Offset(k + 1)
  PROVE  j = k
<1>1. Len(insts) \in Nat /\ Indices = 1 .. Len(insts)
  BY IndicesFacts
<1>2. \A i \in Indices : Offset(i) \in Nat /\ Offset(i + 1) \in Nat
  BY <1>1, OffsetFacts
<1>3. ASSUME NEW x \in Indices, NEW y \in Indices, x < y PROVE Offset(x + 1) <= Offset(y)
  <2>1. CASE x + 1 = y
    BY <1>2, <2>1
  <2>2. CASE x + 1 # y
    <3>1. x + 1 \in 1 .. Len(insts) + 1 /\ y \in 1 .. Len(insts) + 1 /\ x + 1 < y
      BY <1>1, <1>3, <2>2
    <3>2. Offset(x + 1) < Offset(y)
      BY ONLY <3>1, OffsetsGrow, insts \in Seq(Instructions)
    <3> QED
      BY <1>2, <3>2
  <2> QED
    BY <2>1, <2>2
<1>4. ~(j < k) /\ ~(k < j)
  BY <1>2, <1>3
<1> QED
  BY <1>1, <1>4

(* Where control goes depends on the program only.                         *)
LEMMA GoesKept ==
  ASSUME insts' = insts
  PROVE  /\ Indices' = Indices /\ \A i : Offset(i)' = Offset(i)
         /\ \A i : Goes(i)' = Goes(i) /\ Branching(i)' = Branching(i)
<1>1. Indices' = Indices
  BY DEF Indices
<1>2. \A i : Offset(i)' = Offset(i)
  BY DEF Offset
<1>3. \A i, r : Leads(i, r)' = Leads(i, r)
  BY <1>1, <1>2 DEF Leads
<1>4. \A i : Goes(i)' = Goes(i)
  BY <1>3 DEF Goes
<1> QED
  BY <1>1, <1>2, <1>4 DEF Branching

-----------------------------------------------------------------------------
(* How often x is in a sequence.                                           *)
Places(x, s) == {k \in DOMAIN s : s[k] = x}

LEMMA PlacesFinite ==
  ASSUME NEW S, NEW s \in Seq(S), NEW x
  PROVE  /\ IsFiniteSet(Places(x, s)) /\ Count(x, s) = Cardinality(Places(x, s))
         /\ Count(x, s) \in Nat
         /\ Count(x, s) = 0 <=> \A k \in DOMAIN s : s[k] # x
<1>1. IsFiniteSet(DOMAIN s)
  BY FS_Interval, Len(s) \in Nat, DOMAIN s = 1 .. Len(s)
<1>2. IsFiniteSet(Places(x, s))
  BY <1>1, FS_Subset DEF Places
<1>3. Count(x, s) = Cardinality(Places(x, s))
  BY DEF Count, Places
<1>4. Count(x, s) \in Nat /\ (Count(x, s) = 0 <=> Places(x, s) = {})
  BY <1>2, <1>3, FS_CardinalityType, FS_EmptySet
<1>5. Places(x, s) = {} <=> \A k \in DOMAIN s : s[k] # x
  BY DEF Places
<1> QED
  BY <1>2, <1>3, <1>4, <1>5

LEMMA CountConcat ==
  ASSUME NEW S, NEW s \in Seq(S), NEW t \in Seq(S), NEW x
  PROVE  Count(x, s \o t) = Count(x, s) + Count(x, t)
<1> DEFINE A == Places(x, s)
           B == Places(x, t)
           shift == [k \in B |-> k + Len(s)]
           C == {k + Len(s) : k \in B}
<1>1. /\ Len(s) \in Nat /\ Len(t) \in Nat /\ DOMAIN s = 1 .. Len(s) /\ DOMAIN t = 1 .. Len(t)
      /\ s \o t \in Seq(S) /\ DOMAIN (s \o t) = 1 .. Len(s) + Len(t)
      /\ \A k \in 1 .. Len(s) : (s \o t)[k] = s[k]
      /\ \A k \in 1 .. Len(t) : (s \o t)[k + Len(s)] = t[k]
  OBVIOUS
<1>2. Places(x, s \o t) = A \cup C
  <2>1. ASSUME NEW k \in DOMAIN (s \o t), k \notin 1 .. Len(s)
        PROVE  k - Len(s) \in 1 .. Len(t) /\ k = (k - Len(s)) + Len(s)
    BY <1>1, <2>1
  <2>2. ASSUME NEW k \in Places(x, s \o t) PROVE k \in A \cup C
    <3>1. k \in DOMAIN (s \o t) /\ (s \o t)[k] = x
      BY DEF Places
    <3>2. CASE k \in 1 .. Len(s)
      BY <1>1, <3>1, <3>2 DEF Places
    <3>3. CASE k \notin 1 .. Len(s)
      <4>1. k - Len(s) \in 1 .. Len(t) /\ k = (k - Len(s)) + Len(s)
        BY <2>1, <3>1, <3>3
      <4>2. k - Len(s) \in B
        BY <1>1, <3>1, <4>1 DEF Places
      <4> QED
        BY <4>1, <4>2
    <3> QED
      BY <3>2, <3>3
  <2>3. A \subseteq Places(x, s \o t)
    BY <1>1 DEF Places
  <2>4. C \subseteq Places(x, s \o t)
    BY <1>1 DEF Places
  <2> QED
    BY <2>2, <2>3, <2>4
<1>3. A \cap C = {}
  BY <1>1 DEF Places
<1>4. IsFiniteSet(A) /\ IsFiniteSet(B)
  BY PlacesFinite
<1>5. IsFiniteSet(C) /\ Cardinality(C) = Cardinality(B)
  <2>1. B \subseteq Int
    BY <1>1 DEF Places
  <2>2. shift \in Bijection(B, C)
    <3> HIDE DEF B
    <3>1. shift \in [B -> C] /\ \A y \in C : \E k \in B : shift[k] = y
      OBVIOUS
    <3>2. \A j, k \in B : shift[j] = shift[k] => j = k
      BY <1>1, <2>1
    <3> HIDE DEF shift, C
    <3> QED
      BY <3>1, <3>2 DEF Bijection, Injection, Surjection, IsInjective
  <2>3. ExistsBijection(B, C)
    BY <2>2 DEF ExistsBijection
  <2> QED
    BY <1>4, <2>3, FS_Bijection
<1>6. Cardinality(A \cup C) = Cardinality(A) + Cardinality(C)
  <2> HIDE DEF A, C
  <2>1. Cardinality(A \cup C) = Cardinality(A) + Cardinality(C) - Cardinality(A \cap C)
    BY <1>4, <1>5, FS_Union
  <2>2. Cardinality(A \cap C) = 0 /\ Cardinality(A) \in Nat /\ Cardinality(C) \in Nat
    BY <1>3, <1>4, <1>5, FS_EmptySet, FS_CardinalityType
  <2> QED
    BY <2>1, <2>2
<1>7. Count(x, s \o t) = Cardinality(Places(x, s \o t))
  BY <1>1, PlacesFinite
<1> QED
  BY <1>2, <1>5, <1>6, <1>7, PlacesFinite

LEMMA CountAppend ==
  ASSUME NEW S, NEW s \in Seq(S), NEW y \in S, NEW x
  PROVE  Count(x, Append(s, y)) = IF x = y THEN Count(x, s) + 1 ELSE Count(x, s)
<1>1. Append(s, y) = s \o <<y>> /\ <<y>> \in Seq(S)
  OBVIOUS
<1>2. Count(x, <<y>>) = IF x = y THEN 1 ELSE 0
  <2>1. Places(x, <<y>>) = IF x = y THEN {1} ELSE {}
    BY DEF Places
  <2>2. Count(x, <<y>>) = Cardinality(Places(x, <<y>>))
    BY <1>1, PlacesFinite
  <2> QED
    BY <2>1, <2>2, FS_EmptySet, FS_Singleton
<1>3. Count(x, s) \in Nat
  BY PlacesFinite
<1>4. Count(x, s \o <<y>>) = Count(x, s) + Count(x, <<y>>)
  BY <1>1, CountConcat
<1> QED
  BY <1>1, <1>2, <1>3, <1>4

LEMMA CountRepeated ==
  ASSUME NEW c \in Nat, NEW S, NEW y \in S, NEW f \in [1 .. c -> {y}], NEW x
  PROVE  f \in Seq(S) /\ Count(x, f) = IF x = y THEN c ELSE 0
<1>1. Places(x, f) = IF x = y THEN 1 .. c ELSE {}
  BY DEF Places
<1>2. Count(x, f) = Cardinality(Places(x, f))
  BY DEF Count, Places
<1>3. Cardinality(1 .. c) = c
  BY FS_Interval
<1>4. f \in Seq(S)
  OBVIOUS
<1> QED
  BY <1>1, <1>2, <1>3, <1>4, FS_EmptySet

-----------------------------------------------------------------------------
(* The invariant of the graph.                                             *)
Jumped(t) == \E j \in Indices : t \in Goes(j)
Kids(i)   == {children[i][k] : k \in DOMAIN children[i]}

(* The map gives the instruction each offset is in.                        *)
Mapped ==
  /\ text_len = Offset(IF pc = "map" THEN idx ELSE Len(insts) + 1)
  /\ pc = "map" => byte_idx = 0
  /\ pc = "mark" => byte_idx = Offset(idx)
  /\ \A o \in 0 .. text_len - 1 :
       Offset(map_offset_to_idx[o + 1]) <= o /\ o < Offset(map_offset_to_idx[o + 1] + 1)

Mutual == \A i, t \in Indices : Count(t, children[i]) = Count(i, parents[t])

(* Whether a block begins after i has been found out.                      *)
Decided(i) ==
  /\ i + 1 \in Indices
  /\ \/ pc \in {"link", "done"}
     \/ (pc \in {"block", "extend"} /\ i + 1 < idx)
     \/ (pc = "block" /\ i + 1 = idx)

(* The children of an instruction are those it branches to; of one that    *)
(* does not branch, the next one where a block begins there.               *)
Marked ==
  \A i \in Indices :
    IF pc = "map" \/ (pc = "mark" /\ i >= idx) THEN children[i] = <<>>
    ELSE IF Decided(i) /\ ~Branching(i) /\ Jumped(i + 1) THEN children[i] = <<i + 1>>
    ELSE Kids(i) = Goes(i)

Cut ==
  /\ \A i \in 1 .. Reach - 1 :
       idx_to_block[i] # idx_to_block[i + 1] <=> Branching(i) \/ Jumped(i + 1)
  /\ pc = "block" /\ idx \in 2 .. Len(insts) => Branching(idx - 1) \/ Jumped(idx)
  /\ pc = "extend" => ~Branching(idx - 1)

(* How many blocks are linked, and to what.                                *)
Linked == CASE pc = "link" -> idx - 1
            [] pc = "done" -> Len(nodelist)
            [] OTHER       -> 0

LinkedUp ==
  /\ Linked \in 0 .. Len(nodelist)
  /\ node_parents = [k \in 1 .. Linked |-> Blocks(parents[nodelist[k].start_inst])]
  /\ node_children = [k \in 1 .. Linked |-> Blocks(children[Final(nodelist[k])])]
  /\ \A k \in DOMAIN nodelist :
       Count(k, top_nodes) = IF k <= Linked /\ parents[nodelist[k].start_inst] = <<>>
                             THEN 1 ELSE 0

GraphInv == Inv /\ Mapped /\ Mutual /\ Marked /\ Cut /\ LinkedUp

LEMMA StateFacts ==
  ASSUME Inv
  PROVE  /\ insts \in Seq(Instructions) /\ Len(insts) \in Nat /\ Indices = 1 .. Len(insts)
         /\ idx \in 1 .. Len(insts) + 1
         /\ map_offset_to_idx \in Seq(Indices) /\ byte_idx \in Nat
         /\ parents \in [Indices -> Seq(Indices)] /\ children \in [Indices -> Seq(Indices)]
         /\ nodelist \in Seq(Node) /\ Len(nodelist) \in Nat /\ DOMAIN nodelist = 1 .. Len(nodelist)
         /\ idx_to_block \in [Indices -> 0 .. Len(nodelist)]
         /\ Reach \in Nat /\ Reach <= Len(insts)
<1>1. TypeOK /\ Phases
  BY DEF Inv
<1>2. /\ insts \in Seq(Instructions) /\ idx \in 1 .. Len(insts) + 1
      /\ map_offset_to_idx \in Seq(Indices) /\ byte_idx \in Nat
      /\ parents \in [Indices -> Seq(Indices)] /\ children \in [Indices -> Seq(Indices)]
      /\ nodelist \in Seq(Node) /\ idx_to_block \in [Indices -> 0 .. Len(nodelist)]
      /\ pc \in {"map", "mark", "block", "extend", "link", "done"}
  BY <1>1, Zenon DEF TypeOK, Node
<1>3. Len(insts) \in Nat /\ Indices = 1 .. Len(insts)
  BY ONLY <1>2, IndicesFacts
<1>4. Reach \in Nat
  BY <1>1, ReachFacts
<1>5. Reach <= Len(insts)
  <2>1. CASE pc \in {"map", "mark"}
    BY ONLY <1>1, <1>3, <2>1 DEF Phases, Reach
  <2>2. CASE pc \in {"block", "extend"}
    BY ONLY <1>1, <1>2, <1>3, <2>2 DEF Phases
  <2>3. CASE pc \in {"link", "done"}
    BY ONLY <1>1, <1>3, <2>3 DEF Phases
  <2> QED
    BY ONLY <1>2, <2>1, <2>2, <2>3
<1> QED
  BY ONLY <1>2, <1>3, <1>4, <1>5

LEMMA MapMapped ==
  ASSUME Inv, Mapped, Map
  PROVE  Mapped'
<1> DEFINE n == insts[idx].size
           s == [b \in 1 .. n |-> idx]
<1>1. /\ insts \in Seq(Instructions) /\ Len(insts) \in Nat /\ Indices = 1 .. Len(insts)
      /\ map_offset_to_idx \in Seq(Indices)
  BY StateFacts
<1>2. /\ pc = "map" /\ pc' = "map" /\ insts' = insts /\ idx' = idx + 1 /\ byte_idx' = byte_idx
      /\ idx \in Indices /\ map_offset_to_idx' = map_offset_to_idx \o s
  BY <1>1, StateFacts DEF Map
<1>3. n \in Nat \ {0} /\ s \in Seq(Indices) /\ Len(s) = n
  BY <1>1, <1>2, IndicesFacts
<1>4. /\ text_len \in Nat /\ text_len = Offset(idx) /\ text_len' = Offset(idx + 1)
      /\ Offset(idx + 1) = text_len + n
  BY <1>1, <1>2, <1>3, OffsetFacts DEF Mapped, text_len
<1>5. ASSUME NEW o \in 0 .. text_len' - 1
      PROVE  Offset(map_offset_to_idx'[o + 1]) <= o /\ o < Offset(map_offset_to_idx'[o + 1] + 1)
  <2>1. CASE o < text_len
    <3>1. map_offset_to_idx'[o + 1] = map_offset_to_idx[o + 1]
      BY <1>1, <1>2, <1>3, <1>4, <2>1, SMTT(30) DEF text_len
    <3> QED
      BY <1>4, <2>1, <3>1 DEF Mapped
  <2>2. CASE o >= text_len
    <3>1. map_offset_to_idx'[o + 1] = idx
      BY <1>1, <1>2, <1>3, <1>4, <2>2 DEF text_len
    <3> QED
      BY <1>4, <2>2, <3>1
  <2> QED
    BY <1>4, <2>1, <2>2
<1>6. byte_idx' = 0
  BY <1>2 DEF Mapped
<1>7. \A i : Offset(i)' = Offset(i)
  BY <1>2, GoesKept
<1> QED
  BY <1>2, <1>4, <1>5, <1>6, <1>7 DEF Mapped

(* The map and the phase are what Mapped is about.                         *)
LEMMA MappedKept ==
  ASSUME Inv, Mapped, UNCHANGED <<insts, map_offset_to_idx>>, pc' # "map",
         pc = "map" => idx = Len(insts) + 1,
         pc' = "mark" => byte_idx' = Offset(idx')
  PROVE  Mapped'
<1>1. \A i : Offset(i)' = Offset(i)
  BY GoesKept
<1>2. text_len' = text_len /\ text_len' = Offset(Len(insts') + 1)
  BY DEF Mapped, text_len
<1>3. \A o \in 0 .. text_len' - 1 :
        Offset(map_offset_to_idx'[o + 1]) <= o /\ o < Offset(map_offset_to_idx'[o + 1] + 1)
  BY <1>2 DEF Mapped
<1> QED
  BY <1>1, <1>2, <1>3 DEF Mapped

(* A branch leads where the offsets say.                                   *)
LEMMA InsideLeads ==
  ASSUME Inv, Mapped, pc = "mark", idx \in Indices, NEW r \in Int
  PROVE  {Inside(idx, r)[k] : k \in DOMAIN Inside(idx, r)} = Leads(idx, r)
<1> DEFINE o == Offset(idx + 1) + r
<1>1. /\ insts \in Seq(Instructions) /\ Len(insts) \in Nat /\ Indices = 1 .. Len(insts)
      /\ map_offset_to_idx \in Seq(Indices)
  BY StateFacts
<1>2. /\ \A i \in 1 .. Len(insts) + 1 : Offset(i) \in Nat
      /\ Offset(idx + 1) = Offset(idx) + insts[idx].size
  BY <1>1, OffsetFacts
<1>3. /\ o \in Int /\ byte_idx + insts[idx].size + r = o /\ insts[idx].size \in Nat
      /\ text_len = Offset(Len(insts) + 1) /\ text_len \in Nat
  <2>1. insts[idx].size \in Nat /\ idx \in 1 .. Len(insts) + 1 /\ Len(insts) + 1 \in 1 .. Len(insts) + 1
    BY <1>1, IndicesFacts
  <2>2. byte_idx = Offset(idx) /\ text_len = Offset(Len(insts) + 1)
    BY DEF Mapped
  <2> QED
    BY <1>2, <2>1, <2>2
<1>4. Leads(idx, r) = {j \in Indices : Offset(j) <= o /\ o < Offset(j + 1)}
  BY DEF Leads
<1> HIDE DEF o
<1>5. \A j \in Indices : Offset(j) \in Nat /\ Offset(j + 1) \in Nat /\ Offset(j + 1) <= text_len
  <2> SUFFICES ASSUME NEW j \in Indices
               PROVE  Offset(j) \in Nat /\ Offset(j + 1) \in Nat /\ Offset(j + 1) <= text_len
    OBVIOUS
  <2>1. j \in 1 .. Len(insts) + 1 /\ j + 1 \in 1 .. Len(insts) + 1 /\ Len(insts) + 1 \in 1 .. Len(insts) + 1
    BY <1>1
  <2>2. CASE j + 1 = Len(insts) + 1
    BY <1>2, <1>3, <2>1, <2>2
  <2>3. CASE j + 1 # Len(insts) + 1
    <3>1. j + 1 < Len(insts) + 1
      BY <1>1, <2>1, <2>3
    <3>2. Offset(j + 1) < Offset(Len(insts) + 1)
      BY <1>1, <2>1, <3>1, OffsetsGrow
    <3> QED
      BY <1>2, <1>3, <2>1, <3>2
  <2> QED
    BY <2>2, <2>3
<1>6. CASE o < 0 \/ o >= text_len
  <2>1. Inside(idx, r) = <<>>
    BY <1>3, <1>6 DEF Inside
  <2>2. Leads(idx, r) = {}
    BY <1>3, <1>4, <1>5, <1>6
  <2> QED
    BY <2>1, <2>2
<1>7. CASE ~(o < 0 \/ o >= text_len)
  <2> DEFINE j == map_offset_to_idx[o + 1]
  <2>1. o \in 0 .. text_len - 1
    BY <1>3, <1>7
  <2>2. j \in Indices /\ Offset(j) <= o /\ o < Offset(j + 1)
    BY <1>1, <2>1 DEF Mapped, text_len
  <2>3. Inside(idx, r) = <<j>>
    BY <1>3, <1>7 DEF Inside
  <2> HIDE DEF j
  <2>4. ASSUME NEW k \in Leads(idx, r) PROVE k = j
    BY <1>1, <1>3, <1>4, <2>2, OneAtOffset
  <2>5. Leads(idx, r) = {j}
    BY <1>4, <2>2, <2>4
  <2> QED
    BY <2>3, <2>5
<1> QED
  BY <1>6, <1>7

LEMMA ReachedGoes ==
  ASSUME Inv, Mapped, pc = "mark", idx \in Indices
  PROVE  /\ Reached(idx) \in Seq(Indices)
         /\ {Reached(idx)[k] : k \in DOMAIN Reached(idx)} = Goes(idx)
<1> DEFINE r == insts[idx].rel_offset
           RangeOf(s) == {s[k] : k \in DOMAIN s}
<1>1. Reached(idx) \in Seq(Indices)
  BY ReachedType DEF Inv
<1>2. insts[idx].type \in {"plain", "jmp", "jcc", "return"} /\ (r = UNSUPPORTED \/ r \in Int)
  BY StateFacts, IndicesFacts, InstructionsAssumption DEF InstructionsAssumption
<1>3. CASE r = UNSUPPORTED
  BY <1>3 DEF Reached, Goes
<1>4. CASE r # UNSUPPORTED /\ insts[idx].type = "jmp"
  <2>1. Reached(idx) = Inside(idx, r) /\ Goes(idx) = Leads(idx, r)
    BY <1>4 DEF Reached, Goes
  <2> QED
    BY <1>1, <1>2, <1>4, <2>1, InsideLeads
<1>5. CASE r # UNSUPPORTED /\ insts[idx].type = "jcc"
  <2>1. Reached(idx) = Inside(idx, r) \o Inside(idx, 0) /\ Goes(idx) = Leads(idx, r) \cup Leads(idx, 0)
    BY <1>5 DEF Reached, Goes
  <2>2. \A q \in Int : Inside(idx, q) \in Seq(Indices) /\ RangeOf(Inside(idx, q)) = Leads(idx, q)
    <3> TAKE q \in Int
    <3>1. Inside(idx, q) = <<>> \/ Inside(idx, q) = <<map_offset_to_idx[byte_idx + insts[idx].size + q + 1]>>
      BY DEF Inside
    <3>2. RangeOf(Inside(idx, q)) = Leads(idx, q)
      BY InsideLeads
    <3>3. Leads(idx, q) \subseteq Indices
      BY DEF Leads
    <3>4. ASSUME NEW x, Inside(idx, q) = <<x>> PROVE <<x>> \in Seq(Indices)
      <4>1. x \in RangeOf(<<x>>)
        OBVIOUS
      <4>2. x \in Indices
        BY <3>2, <3>3, <3>4, <4>1
      <4> QED
        BY <4>2
    <3>5. Inside(idx, q) \in Seq(Indices)
      <4>1. CASE Inside(idx, q) = <<>>
        BY ONLY <4>1
      <4>2. CASE Inside(idx, q) = <<map_offset_to_idx[byte_idx + insts[idx].size + q + 1]>>
        BY <3>4, <4>2, Zenon
      <4> QED
        BY <3>1, <4>1, <4>2
    <3> QED
      BY <3>2, <3>5
  <2>3. \A s, t \in Seq(Indices) : RangeOf(s \o t) = RangeOf(s) \cup RangeOf(t)
    <3> TAKE s, t \in Seq(Indices)
    <3>1. /\ Len(s) \in Nat /\ Len(t) \in Nat /\ DOMAIN s = 1 .. Len(s) /\ DOMAIN t = 1 .. Len(t)
          /\ DOMAIN (s \o t) = 1 .. Len(s) + Len(t)
          /\ \A k \in 1 .. Len(s) : (s \o t)[k] = s[k]
          /\ \A k \in 1 .. Len(t) : (s \o t)[k + Len(s)] = t[k]
      OBVIOUS
    <3>2. \A k \in DOMAIN (s \o t) : k \in 1 .. Len(s) \/ (k - Len(s) \in 1 .. Len(t) /\ k = (k - Len(s)) + Len(s))
      BY ONLY <3>1
    <3>3. \A k \in 1 .. Len(t) : k + Len(s) \in DOMAIN (s \o t)
      BY ONLY <3>1
    <3>4. \A k \in 1 .. Len(s) : k \in DOMAIN (s \o t)
      BY ONLY <3>1
    <3>5. ASSUME NEW x \in RangeOf(s \o t) PROVE x \in RangeOf(s) \cup RangeOf(t)
      <4>1. PICK k \in DOMAIN (s \o t) : x = (s \o t)[k]
        OBVIOUS
      <4>2. CASE k \in 1 .. Len(s)
        BY ONLY <3>1, <4>1, <4>2
      <4>3. CASE k \notin 1 .. Len(s)
        BY ONLY <3>1, <3>2, <4>1, <4>3
      <4> QED
        BY ONLY <4>2, <4>3
    <3>6. ASSUME NEW x \in RangeOf(s) PROVE x \in RangeOf(s \o t)
      BY ONLY <3>1, <3>4, x \in RangeOf(s)
    <3>7. ASSUME NEW x \in RangeOf(t) PROVE x \in RangeOf(s \o t)
      BY ONLY <3>1, <3>3, x \in RangeOf(t)
    <3> QED
      BY <3>5, <3>6, <3>7
  <2> HIDE DEF RangeOf
  <2>4. RangeOf(Reached(idx)) = Goes(idx)
    <3>1. r \in Int /\ 0 \in Int
      BY <1>2, <1>5
    <3>2. /\ Inside(idx, r) \in Seq(Indices) /\ RangeOf(Inside(idx, r)) = Leads(idx, r)
          /\ Inside(idx, 0) \in Seq(Indices) /\ RangeOf(Inside(idx, 0)) = Leads(idx, 0)
      BY ONLY <2>2, <3>1
    <3>3. RangeOf(Inside(idx, r) \o Inside(idx, 0)) = RangeOf(Inside(idx, r)) \cup RangeOf(Inside(idx, 0))
      BY ONLY <2>3, <3>2
    <3> QED
      BY ONLY <2>1, <3>2, <3>3
  <2> QED
    BY <1>1, <2>4 DEF RangeOf
<1>6. CASE insts[idx].type \notin {"jmp", "jcc"}
  <2>1. Reached(idx) = <<>> /\ Goes(idx) = {}
    BY <1>6 DEF Reached, Goes
  <2> QED
    BY <2>1
<1> QED
  BY <1>2, <1>3, <1>4, <1>5, <1>6

-----------------------------------------------------------------------------
(* Marking keeps children and parents each other's inverse.                *)
LEMMA MarkChildren ==
  ASSUME Inv, Mapped, Mark
  PROVE  /\ idx \in Indices /\ insts' = insts /\ Reached(idx) \in Seq(Indices)
         /\ children'[idx] = children[idx] \o Reached(idx)
         /\ \A i \in Indices : i # idx => children'[i] = children[i]
         /\ \A i, t \in Indices :
              Count(i, parents'[t]) = Count(i, parents[t]) + IF i = idx THEN Count(t, Reached(idx)) ELSE 0
<1>1. /\ insts \in Seq(Instructions) /\ Len(insts) \in Nat /\ Indices = 1 .. Len(insts)
      /\ idx \in 1 .. Len(insts) + 1
      /\ parents \in [Indices -> Seq(Indices)] /\ children \in [Indices -> Seq(Indices)]
  BY StateFacts
<1>2. /\ pc = "mark" /\ insts' = insts /\ idx \in Indices
      /\ children' = [children EXCEPT ![idx] = @ \o Reached(idx)]
      /\ parents' = [t \in Indices |-> Targeted(t, idx)]
  BY <1>1 DEF Mark
<1>3. Reached(idx) \in Seq(Indices)
  BY <1>2, ReachedGoes
<1>4. ASSUME NEW i \in Indices, NEW t \in Indices
      PROVE  Count(i, parents'[t]) = Count(i, parents[t]) + IF i = idx THEN Count(t, Reached(idx)) ELSE 0
  <2> DEFINE c == Count(t, Reached(idx))
             rep == [k \in 1 .. c |-> idx]
  <2>1. c \in Nat
    BY <1>3, PlacesFinite
  <2>2. parents'[t] = parents[t] \o rep
    BY <1>2 DEF Targeted, Count
  <2> HIDE DEF c
  <2>3. rep \in Seq(Indices) /\ Count(i, rep) = IF i = idx THEN c ELSE 0
    <3>1. rep \in [1 .. c -> {idx}]
      OBVIOUS
    <3> HIDE DEF rep
    <3> QED
      BY ONLY <1>2, <2>1, <3>1, CountRepeated
  <2>4. parents[t] \in Seq(Indices)
    BY <1>1
  <2> HIDE DEF rep
  <2>5. Count(i, parents[t] \o rep) = Count(i, parents[t]) + Count(i, rep)
    BY ONLY <2>3, <2>4, CountConcat
  <2> QED
    BY <2>2, <2>3, <2>5 DEF c
<1>5. children'[idx] = children[idx] \o Reached(idx) /\ \A i \in Indices : i # idx => children'[i] = children[i]
  BY <1>1, <1>2
<1> QED
  BY <1>2, <1>3, <1>4, <1>5

LEMMA MarkMutual ==
  ASSUME Inv, Mapped, Mutual, Mark
  PROVE  Mutual'
<1>1. /\ idx \in Indices /\ insts' = insts /\ Reached(idx) \in Seq(Indices)
      /\ children'[idx] = children[idx] \o Reached(idx)
      /\ \A i \in Indices : i # idx => children'[i] = children[i]
      /\ \A i, t \in Indices :
           Count(i, parents'[t]) = Count(i, parents[t]) + IF i = idx THEN Count(t, Reached(idx)) ELSE 0
  BY MarkChildren
<1>2. /\ parents \in [Indices -> Seq(Indices)] /\ children \in [Indices -> Seq(Indices)]
  BY StateFacts
<1>3. ASSUME NEW i \in Indices, NEW t \in Indices
      PROVE  Count(t, children'[i]) = Count(i, parents'[t])
  <2>1. Count(t, children[i]) = Count(i, parents[t]) /\ Count(i, parents[t]) \in Nat
    BY <1>2, PlacesFinite DEF Mutual
  <2>2. CASE i # idx
    BY <1>1, <2>1, <2>2
  <2>3. CASE i = idx
    <3>1. children[idx] \in Seq(Indices)
      BY <1>1, <1>2
    <3>2. Count(t, children[idx] \o Reached(idx)) = Count(t, children[idx]) + Count(t, Reached(idx))
      BY <1>1, <3>1, CountConcat
    <3> QED
      BY <1>1, <2>1, <2>3, <3>2
  <2> QED
    BY <2>2, <2>3
<1>4. Indices' = Indices
  BY <1>1 DEF Indices
<1>5. \A x, s : Count(x, s)' = Count(x, s)
  BY DEF Count
<1> QED
  BY <1>3, <1>4 DEF Mutual, Count

LEMMA MarkMarked ==
  ASSUME Inv, Mapped, Marked, Mark
  PROVE  Marked'
<1>1. /\ idx \in Indices /\ insts' = insts /\ Reached(idx) \in Seq(Indices)
      /\ children'[idx] = children[idx] \o Reached(idx)
      /\ \A i \in Indices : i # idx => children'[i] = children[i]
  BY MarkChildren
<1>2. pc = "mark" /\ pc' = "mark" /\ idx' = idx + 1 /\ idx \in Nat /\ Indices \subseteq Nat
  BY <1>1, StateFacts, SMTT(30) DEF Mark
<1>3. Indices' = Indices /\ \A i : Goes(i)' = Goes(i)
  BY <1>1, GoesKept
<1>4. children[idx] = <<>>
  BY <1>1, <1>2 DEF Marked
<1>5. ASSUME NEW i \in Indices, i = idx PROVE Kids(i)' = Goes(i)
  <2>1. children'[i] = Reached(i)
    BY <1>1, <1>4, <1>5
  <2>2. {Reached(i)[k] : k \in DOMAIN Reached(i)} = Goes(i)
    BY <1>1, <1>2, <1>5, ReachedGoes
  <2> QED
    BY <2>1, <2>2 DEF Kids
<1>6. ASSUME NEW i \in Indices
      PROVE  IF i >= idx' THEN children'[i] = <<>> ELSE Kids(i)' = Goes(i)
  <2>1. CASE i = idx
    BY <1>2, <1>5, <2>1
  <2>2. CASE i # idx /\ i >= idx
    <3>1. i >= idx' /\ children[i] = <<>>
      BY <1>2, <2>2 DEF Marked
    <3> QED
      BY <1>1, <2>2, <3>1
  <2>3. CASE i # idx /\ ~(i >= idx)
    <3>1. ~Decided(i) /\ Kids(i) = Goes(i)
      BY <1>2, <2>3 DEF Marked, Decided
    <3>2. Kids(i)' = Kids(i) /\ ~(i >= idx')
      BY <1>1, <1>2, <2>3 DEF Kids
    <3> QED
      BY <3>1, <3>2
  <2> QED
    BY <2>1, <2>2, <2>3
<1>7. \A i : ~Decided(i)'
  BY <1>2 DEF Decided
<1> QED
  BY <1>2, <1>3, <1>6, <1>7 DEF Marked

(* Nothing is in a block while the branches are marked.                    *)
LEMMA EarlyCut ==
  ASSUME Inv', pc' \in {"map", "mark"}
  PROVE  Cut'
<1>1. Reach' = 0
  BY DEF Inv, Phases, Reach
<1> QED
  BY <1>1 DEF Cut

LEMMA NotLinkedUp ==
  ASSUME Inv, Inv', pc \notin {"link", "done"}, pc' # "done", pc' = "link" => idx' = 1,
         UNCHANGED links, LinkedUp
  PROVE  LinkedUp'
<1>1. Linked = 0 /\ Linked' = 0
  <2>1. pc' = "link" => idx' - 1 = 0
    OBVIOUS
  <2> QED
    BY <2>1 DEF Linked
<1>2. node_parents' = [k \in 1 .. 0 |-> Blocks(parents[nodelist[k].start_inst])]
  BY <1>1 DEF LinkedUp, links
<1>3. node_children' = [k \in 1 .. 0 |-> Blocks(children[Final(nodelist[k])])]
  BY <1>1 DEF LinkedUp, links
<1>4. 1 .. 0 = {}
  OBVIOUS
<1>5. /\ node_parents' = [k \in 1 .. 0 |-> Blocks(parents[nodelist[k].start_inst])']
      /\ node_children' = [k \in 1 .. 0 |-> Blocks(children[Final(nodelist[k])])']
  BY <1>2, <1>3, <1>4
<1>6. top_nodes' = <<>>
  BY DEF Inv, Phases, links
<1>7. \A x : Count(x, <<>>) = 0
  <2>1. \A x : Places(x, <<>>) = {}
    BY DEF Places
  <2> QED
    BY <2>1, FS_EmptySet DEF Places, Count
<1>8. \A k \in DOMAIN nodelist' : Count(k, top_nodes)' = 0 /\ ~(k <= 0)
  <2>1. DOMAIN nodelist' = 1 .. Len(nodelist') /\ Len(nodelist') \in Nat
    BY DEF Inv, TypeOK
  <2> QED
    BY <1>6, <1>7, <2>1 DEF Count
<1>9. 0 \in 0 .. Len(nodelist')
  BY DEF Inv, TypeOK
<1> QED
  BY <1>1, <1>5, <1>8, <1>9 DEF LinkedUp

-----------------------------------------------------------------------------
(* When all branches are marked, an instruction has parents when a branch  *)
(* leads to it.                                                            *)
LEMMA TargetsHaveParents ==
  ASSUME Inv, Mutual, Marked, pc \notin {"map", "mark"}, NEW t \in Indices
  PROVE  parents[t] # <<>> <=> Jumped(t)
<1>1. /\ parents \in [Indices -> Seq(Indices)] /\ children \in [Indices -> Seq(Indices)]
      /\ Len(insts) \in Nat /\ Indices = 1 .. Len(insts)
  BY StateFacts
<1>2. ASSUME NEW j \in Indices, t \in Kids(j) PROVE parents[t] # <<>>
  <2>1. children[j] \in Seq(Indices) /\ parents[t] \in Seq(Indices)
    BY <1>1
  <2>2. Count(t, children[j]) # 0
    BY <1>2, <2>1, PlacesFinite DEF Kids
  <2>3. Count(j, parents[t]) # 0
    BY <2>2 DEF Mutual
  <2> QED
    BY <2>1, <2>3, PlacesFinite
<1>3. ASSUME NEW j \in Indices, t \in Goes(j) PROVE t \in Kids(j)
  <2>1. Branching(j)
    BY <1>3 DEF Branching
  <2> QED
    BY <1>3, <2>1 DEF Marked
<1>4. ASSUME parents[t] # <<>> PROVE Jumped(t)
  <2>1. parents[t] \in Seq(Indices)
    BY <1>1
  <2> DEFINE j == parents[t][1]
  <2>2. 1 \in DOMAIN parents[t] /\ j \in Indices
    BY <1>4, <2>1
  <2>3. Count(j, parents[t]) # 0
    BY <2>1, <2>2, PlacesFinite
  <2> HIDE DEF j
  <2>4. Count(t, children[j]) # 0 /\ children[j] \in Seq(Indices)
    BY <1>1, <2>2, <2>3 DEF Mutual
  <2>5. t \in Kids(j)
    <3>1. \E k \in DOMAIN children[j] : children[j][k] = t
      BY <2>4, PlacesFinite
    <3> QED
      BY <3>1 DEF Kids
  <2>6. CASE Decided(j) /\ ~Branching(j) /\ Jumped(j + 1)
    <3>1. children[j] = <<j + 1>>
      BY <2>2, <2>6 DEF Marked
    <3>2. t = j + 1
      BY <2>5, <3>1 DEF Kids
    <3> QED
      BY <2>6, <3>2
  <2>7. CASE ~(Decided(j) /\ ~Branching(j) /\ Jumped(j + 1))
    <3>1. Kids(j) = Goes(j)
      BY <2>2, <2>7 DEF Marked
    <3> QED
      BY <2>2, <2>5, <3>1 DEF Jumped
  <2> QED
    BY <2>6, <2>7
<1> QED
  BY <1>2, <1>3, <1>4 DEF Jumped

(* An instruction ends its block when control does not just go on.         *)
LEMMA EndsBranching ==
  ASSUME Inv, Marked, pc \in {"block", "extend"}, idx \in Indices
  PROVE  Ends(idx) <=> Branching(idx)
<1>1. children \in [Indices -> Seq(Indices)] /\ idx \in Nat
  BY StateFacts
<1>2. ~Decided(idx)
  BY <1>1 DEF Decided
<1>3. Kids(idx) = Goes(idx)
  BY <1>2 DEF Marked
<1>4. children[idx] # <<>> <=> Kids(idx) # {}
  <2>1. children[idx] \in Seq(Indices)
    BY <1>1
  <2>2. children[idx] # <<>> => 1 \in DOMAIN children[idx]
    BY <2>1
  <2>3. CASE children[idx] = <<>>
    BY <2>3 DEF Kids
  <2>4. CASE children[idx] # <<>>
    BY <2>2, <2>4 DEF Kids
  <2> QED
    BY <2>3, <2>4
<1> QED
  BY <1>3, <1>4 DEF Ends, Branching

LEMMA MutualKept ==
  ASSUME Mutual, UNCHANGED <<insts, marks>>
  PROVE  Mutual'
<1>1. children' = children /\ parents' = parents /\ Indices' = Indices
  BY DEF marks, Indices
<1>2. \A i, t \in Indices : Count(t, children'[i]) = Count(i, parents'[t])
  BY <1>1 DEF Mutual
<1> QED
  BY <1>1, <1>2 DEF Mutual, Count

(* A step that leaves children alone and decides only where no child is    *)
(* to be added.                                                            *)
LEMMA MarkedKept ==
  ASSUME Inv, Marked, UNCHANGED <<insts, marks>>, pc \notin {"map", "mark"}, pc' \notin {"map", "mark"},
         \A i \in Indices : Decided(i)' /\ ~Branching(i) /\ Jumped(i + 1) <=>
                            Decided(i) /\ ~Branching(i) /\ Jumped(i + 1)
  PROVE  Marked'
<1>1. children' = children /\ Indices' = Indices /\ \A i : Goes(i)' = Goes(i) /\ Branching(i)' = Branching(i)
  BY GoesKept DEF marks
<1>2. \A i : Jumped(i)' = Jumped(i) /\ Kids(i)' = Kids(i)
  BY <1>1 DEF Jumped, Kids
<1>3. \A i : Jumped(i + 1)' = Jumped(i + 1)
  BY <1>2
<1> QED
  BY <1>1, <1>2, <1>3 DEF Marked

LEMMA NewBlockGraph ==
  ASSUME GraphInv, NewBlock
  PROVE  GraphInv'
<1>1. Inv' /\ Inv
  BY NewBlockInv DEF GraphInv
<1>2. /\ Len(insts) \in Nat /\ Indices = 1 .. Len(insts) /\ idx \in 1 .. Len(insts) + 1
      /\ nodelist \in Seq(Node) /\ Len(nodelist) \in Nat
      /\ idx_to_block \in [Indices -> 0 .. Len(nodelist)]
  BY <1>1, StateFacts
<1>3. /\ pc = "block" /\ idx \in Indices /\ idx' = idx + 1
      /\ UNCHANGED <<insts, text, marks, links>> /\ insts' = insts
      /\ idx_to_block' = [idx_to_block EXCEPT ![idx] = Len(nodelist) + 1]
      /\ nodelist' = Append(nodelist, [start_inst |-> idx, block_len |-> 1])
      /\ pc' = IF Ends(idx) THEN "block" ELSE "extend"
  BY <1>2 DEF NewBlock
<1>4. Ends(idx) <=> Branching(idx)
  BY <1>1, <1>3, EndsBranching DEF GraphInv
<1>5. Indices' = Indices /\ \A i : Goes(i)' = Goes(i) /\ Branching(i)' = Branching(i)
  BY <1>3, GoesKept
<1>6. \A i : Jumped(i)' = Jumped(i)
  BY <1>5 DEF Jumped
<1>7. Mapped'
  BY <1>1, <1>3, MappedKept DEF GraphInv, text
<1>8. Mutual'
  BY <1>3, MutualKept DEF GraphInv
<1>9. Marked'
  <2>1. ASSUME NEW i \in Indices
        PROVE  Decided(i)' /\ ~Branching(i) /\ Jumped(i + 1) <=>
               Decided(i) /\ ~Branching(i) /\ Jumped(i + 1)
    <3>1. Decided(i) <=> i + 1 \in Indices /\ i + 1 <= idx
      BY <1>2, <1>3 DEF Decided
    <3>2. Decided(i)' <=> i + 1 \in Indices /\ (i + 1 <= idx \/ (pc' = "block" /\ i = idx))
      BY <1>2, <1>3, <1>5 DEF Decided
    <3> QED
      BY <1>3, <1>4, <3>1, <3>2
  <2> QED
    BY <1>1, <1>3, <2>1, MarkedKept DEF GraphInv
<1>10. Cut'
  <2>1. Reach = idx - 1 /\ Reach' = idx
    <3>1. Reach = idx - 1 /\ Reach' = idx' - 1
      BY <1>1, <1>3 DEF Inv, Phases
    <3> QED
      BY <1>2, <1>3, <3>1
  <2>2. ASSUME NEW i \in 1 .. Reach' - 1
        PROVE  idx_to_block'[i] # idx_to_block'[i + 1] <=> Branching(i) \/ Jumped(i + 1)
    <3>1. i \in Indices /\ i + 1 \in Indices /\ i # idx
      BY <1>2, <1>3, <2>1
    <3>2. CASE i + 1 = idx
      <4>1. idx_to_block'[i] = idx_to_block[i] /\ idx_to_block[i] \in 0 .. Len(nodelist)
        BY <1>2, <1>3, <3>1
      <4>2. idx_to_block'[i + 1] = Len(nodelist) + 1
        BY <1>2, <1>3, <3>2
      <4>3. Branching(i) \/ Jumped(i + 1)
        <5>1. idx \in 2 .. Len(insts) /\ i = idx - 1
          BY <1>2, <1>3, <3>1, <3>2
        <5> QED
          BY <1>3, <3>2, <5>1 DEF GraphInv, Cut
      <4> QED
        BY <1>2, <4>1, <4>2, <4>3
    <3>3. CASE i + 1 # idx
      <4>1. i \in 1 .. Reach - 1
        BY <1>2, <1>3, <2>1, <3>1, <3>3
      <4>2. idx_to_block'[i] = idx_to_block[i] /\ idx_to_block'[i + 1] = idx_to_block[i + 1]
        BY <1>2, <1>3, <3>1, <3>3
      <4> QED
        BY <4>1, <4>2 DEF GraphInv, Cut
    <3> QED
      BY <3>2, <3>3
  <2>3. pc' = "block" => Branching(idx)
    BY <1>3, <1>4
  <2>4. pc' = "extend" => ~Branching(idx)
    BY <1>3, <1>4
  <2>5. idx' - 1 = idx
    BY <1>2, <1>3
  <2>6. \A i : (Branching(i) \/ Jumped(i + 1))' <=> (Branching(i) \/ Jumped(i + 1))
    BY <1>5, <1>6
  <2>7. Branching(idx - 1)' <=> Branching(idx)
    BY <1>5, <2>5
  <2>8. \A i \in 1 .. Reach' - 1 :
          idx_to_block'[i] # idx_to_block'[i + 1] <=> (Branching(i) \/ Jumped(i + 1))'
    BY <2>2, <2>6
  <2> QED
    BY <2>3, <2>4, <2>7, <2>8 DEF Cut
<1>11. LinkedUp'
  <2>1. pc' \notin {"link", "done"} /\ pc \notin {"link", "done"}
    BY <1>3
  <2> QED
    BY <1>1, <1>3, <2>1, NotLinkedUp DEF GraphInv
<1> QED
  BY <1>1, <1>7, <1>8, <1>9, <1>10, <1>11 DEF GraphInv

LEMMA ExtendGraph ==
  ASSUME GraphInv, Extend
  PROVE  GraphInv'
<1>1. Inv' /\ Inv
  BY ExtendInv DEF GraphInv
<1>2. /\ Len(insts) \in Nat /\ Indices = 1 .. Len(insts) /\ idx \in 1 .. Len(insts) + 1
      /\ Len(nodelist) \in Nat /\ DOMAIN nodelist = 1 .. Len(nodelist)
      /\ idx_to_block \in [Indices -> 0 .. Len(nodelist)]
      /\ parents \in [Indices -> Seq(Indices)]
  BY <1>1, StateFacts
<1>3. /\ pc = "extend" /\ idx \in Indices /\ idx' = idx + 1 /\ parents[idx] = <<>>
      /\ UNCHANGED <<insts, text, marks, links>> /\ insts' = insts
      /\ idx_to_block' = [idx_to_block EXCEPT ![idx] = Len(nodelist)]
      /\ pc' = IF Ends(idx) THEN "block" ELSE "extend"
  BY <1>2 DEF Extend, Extended
<1>4. Ends(idx) <=> Branching(idx)
  BY <1>1, <1>3, EndsBranching DEF GraphInv
<1>5. Indices' = Indices /\ \A i : Goes(i)' = Goes(i) /\ Branching(i)' = Branching(i)
  BY <1>3, GoesKept
<1>6. \A i : Jumped(i)' = Jumped(i)
  BY <1>5 DEF Jumped
<1>7. ~Jumped(idx) /\ ~Branching(idx - 1)
  <2>1. pc \notin {"map", "mark"}
    BY <1>3
  <2>2. ~Jumped(idx)
    BY <1>1, <1>3, <2>1, TargetsHaveParents DEF GraphInv
  <2> QED
    BY <1>3, <2>2 DEF GraphInv, Cut
<1>8. Mapped'
  BY <1>1, <1>3, MappedKept DEF GraphInv, text
<1>9. Mutual'
  BY <1>3, MutualKept DEF GraphInv
<1>10. Marked'
  <2>1. ASSUME NEW i \in Indices
        PROVE  Decided(i)' /\ ~Branching(i) /\ Jumped(i + 1) <=>
               Decided(i) /\ ~Branching(i) /\ Jumped(i + 1)
    <3>1. Decided(i) <=> i + 1 \in Indices /\ i + 1 < idx
      BY <1>2, <1>3 DEF Decided
    <3>2. Decided(i)' <=> i + 1 \in Indices /\ (i + 1 <= idx \/ (pc' = "block" /\ i = idx))
      BY <1>2, <1>3, <1>5 DEF Decided
    <3>3. i + 1 = idx => ~Jumped(i + 1)
      BY <1>7
    <3> QED
      BY <1>2, <1>3, <1>4, <3>1, <3>2, <3>3
  <2> QED
    BY <1>1, <1>3, <2>1, MarkedKept DEF GraphInv
<1>11. Cut'
  <2>1. Reach = idx - 1 /\ Reach' = idx /\ nodelist # <<>>
    <3>1. Reach = idx - 1 /\ Reach' = idx' - 1 /\ nodelist # <<>>
      BY <1>1, <1>3 DEF Inv, Phases
    <3> QED
      BY <1>2, <1>3, <3>1
  <2>2. ASSUME NEW i \in 1 .. Reach' - 1
        PROVE  idx_to_block'[i] # idx_to_block'[i + 1] <=> Branching(i) \/ Jumped(i + 1)
    <3>1. i \in Indices /\ i + 1 \in Indices /\ i # idx
      BY <1>2, <1>3, <2>1
    <3>2. CASE i + 1 = idx
      <4>1. i = Final(nodelist[Len(nodelist)]) /\ Len(nodelist) \in DOMAIN nodelist
        BY <1>1, <1>2, <2>1, <3>1, <3>2 DEF Reach, Inv, TypeOK
      <4>2. i \in Covered(nodelist[Len(nodelist)])
        <5>1. /\ nodelist[Len(nodelist)].start_inst \in Nat /\ nodelist[Len(nodelist)].block_len \in Nat \ {0}
              /\ Covered(nodelist[Len(nodelist)]) =
                   nodelist[Len(nodelist)].start_inst .. Final(nodelist[Len(nodelist)])
          BY <1>1, <4>1, NodeFacts DEF Inv
        <5> QED
          BY <4>1, <5>1 DEF Final
      <4>3. idx_to_block'[i] = Len(nodelist)
        BY <1>1, <1>2, <1>3, <3>1, <4>1, <4>2 DEF Inv, Blocked
      <4>4. idx_to_block'[i + 1] = Len(nodelist)
        BY <1>2, <1>3, <3>2
      <4>5. ~Branching(i) /\ ~Jumped(i + 1)
        <5>1. i = idx - 1
          BY <1>2, <3>1, <3>2
        <5> QED
          BY <1>7, <3>2, <5>1
      <4> QED
        BY <4>3, <4>4, <4>5
    <3>3. CASE i + 1 # idx
      <4>1. i \in 1 .. Reach - 1
        BY <1>2, <1>3, <2>1, <3>1, <3>3
      <4>2. idx_to_block'[i] = idx_to_block[i] /\ idx_to_block'[i + 1] = idx_to_block[i + 1]
        BY <1>2, <1>3, <3>1, <3>3
      <4> QED
        BY <4>1, <4>2 DEF GraphInv, Cut
    <3> QED
      BY <3>2, <3>3
  <2>3. (pc' = "block" => Branching(idx)) /\ (pc' = "extend" => ~Branching(idx))
    BY <1>3, <1>4
  <2>4. idx' - 1 = idx
    BY <1>2, <1>3
  <2>5. \A i : (Branching(i) \/ Jumped(i + 1))' <=> (Branching(i) \/ Jumped(i + 1))
    BY <1>5, <1>6
  <2>6. Branching(idx - 1)' <=> Branching(idx)
    BY <1>5, <2>4
  <2>7. \A i \in 1 .. Reach' - 1 :
          idx_to_block'[i] # idx_to_block'[i + 1] <=> (Branching(i) \/ Jumped(i + 1))'
    BY <2>2, <2>5
  <2> QED
    BY <2>3, <2>6, <2>7 DEF Cut
<1>12. LinkedUp'
  <2>1. pc' \notin {"link", "done"} /\ pc \notin {"link", "done"}
    BY <1>3
  <2> QED
    BY <1>1, <1>3, <2>1, NotLinkedUp DEF GraphInv
<1> QED
  BY <1>1, <1>8, <1>9, <1>10, <1>11, <1>12 DEF GraphInv

LEMMA SplitGraph ==
  ASSUME GraphInv, Split
  PROVE  GraphInv'
<1>1. Inv' /\ Inv
  BY SplitInv DEF GraphInv
<1>2. /\ Len(insts) \in Nat /\ Indices = 1 .. Len(insts) /\ idx \in 1 .. Len(insts) + 1
      /\ Len(nodelist) \in Nat /\ Reach \in Nat
      /\ parents \in [Indices -> Seq(Indices)] /\ children \in [Indices -> Seq(Indices)]
  BY <1>1, StateFacts
<1>3. /\ pc = "extend" /\ pc' = "block" /\ idx \in Indices /\ parents[idx] # <<>>
      /\ parents' = [parents EXCEPT ![idx] = Append(@, idx - 1)]
      /\ children' = [children EXCEPT ![idx - 1] = Append(@, idx)]
      /\ UNCHANGED <<insts, idx, text, blocks, links>> /\ insts' = insts /\ idx' = idx
  BY <1>2 DEF Split
<1>4. idx - 1 \in Indices /\ (idx - 1) + 1 = idx /\ Reach = idx - 1
  <2>1. Reach = idx - 1 /\ nodelist # <<>>
    BY <1>1, <1>3 DEF Inv, Phases
  <2>2. Reach # 0
    <3>1. Len(nodelist) \in DOMAIN nodelist
      BY <1>1, <2>1 DEF Inv, TypeOK
    <3> QED
      BY <1>1, <2>1, <3>1, NodeFacts DEF Reach, Inv
  <2> QED
    BY <1>2, <1>3, <2>1, <2>2
<1>5. Indices' = Indices /\ \A i : Goes(i)' = Goes(i) /\ Branching(i)' = Branching(i)
  BY <1>3, GoesKept
<1>6. \A i : Jumped(i)' = Jumped(i)
  BY <1>5 DEF Jumped
<1>7. ~Branching(idx - 1) /\ Jumped(idx)
  <2>1. pc \notin {"map", "mark"}
    BY <1>3
  <2>2. Jumped(idx)
    BY <1>1, <1>3, <2>1, TargetsHaveParents DEF GraphInv
  <2> QED
    BY <1>3, <2>2 DEF GraphInv, Cut
<1>8. children[idx - 1] = <<>>
  <2>1. ~Decided(idx - 1)
    BY <1>2, <1>3, <1>4 DEF Decided
  <2>2. Kids(idx - 1) = {}
    BY <1>3, <1>4, <1>7, <2>1 DEF GraphInv, Marked, Branching
  <2>3. children[idx - 1] \in Seq(Indices)
    BY <1>2, <1>4
  <2>4. children[idx - 1] # <<>> => 1 \in DOMAIN children[idx - 1]
    BY <2>3
  <2> QED
    BY <2>2, <2>4 DEF Kids
<1>9. Mapped'
  BY <1>1, <1>3, MappedKept DEF GraphInv, text
<1>10. Mutual'
  <2>1. ASSUME NEW i \in Indices, NEW t \in Indices
        PROVE  Count(t, children'[i]) = Count(i, parents'[t])
    <3>1. Count(t, children[i]) = Count(i, parents[t])
      BY DEF GraphInv, Mutual
    <3>2. children[i] \in Seq(Indices) /\ parents[t] \in Seq(Indices)
      BY <1>2
    <3>3. /\ children'[i] = IF i = idx - 1 THEN Append(children[i], idx) ELSE children[i]
          /\ parents'[t] = IF t = idx THEN Append(parents[t], idx - 1) ELSE parents[t]
      BY <1>2, <1>3, <1>4
    <3>4. Count(t, Append(children[i], idx)) = IF t = idx THEN Count(t, children[i]) + 1 ELSE Count(t, children[i])
      BY <1>3, <3>2, CountAppend
    <3>5. Count(i, Append(parents[t], idx - 1)) =
            IF i = idx - 1 THEN Count(i, parents[t]) + 1 ELSE Count(i, parents[t])
      BY <1>4, <3>2, CountAppend
    <3> QED
      BY <3>1, <3>3, <3>4, <3>5
  <2> QED
    BY <1>5, <2>1 DEF Mutual, Count
<1>11. Marked'
  <2>1. ASSUME NEW i \in Indices
        PROVE  IF Decided(i)' /\ ~Branching(i) /\ Jumped(i + 1)
               THEN children'[i] = <<i + 1>> ELSE Kids(i)' = Goes(i)
    <3>1. CASE i = idx - 1
      <4>1. Decided(i)' /\ i + 1 = idx
        BY <1>3, <1>4, <1>5, <3>1 DEF Decided
      <4>2. children'[i] = <<idx>>
        BY <1>2, <1>3, <1>4, <1>8, <3>1
      <4> QED
        BY <1>7, <3>1, <4>1, <4>2
    <3>2. CASE i # idx - 1
      <4>1. Decided(i)' <=> Decided(i)
        BY <1>2, <1>3, <1>4, <1>5, <3>2 DEF Decided
      <4>2. children'[i] = children[i] /\ Kids(i)' = Kids(i)
        BY <1>2, <1>3, <1>4, <3>2 DEF Kids
      <4> QED
        BY <1>3, <4>1, <4>2 DEF GraphInv, Marked
    <3> QED
      BY <3>1, <3>2
  <2>2. \A i : Jumped(i + 1)' = Jumped(i + 1)
    BY <1>6
  <2> QED
    BY <1>3, <1>5, <2>1, <2>2 DEF Marked
<1>12. Cut'
  <2>1. nodelist' = nodelist /\ idx_to_block' = idx_to_block /\ Reach' = Reach
    BY <1>3 DEF blocks, Reach, Final
  <2>2. \A i : (Branching(i) \/ Jumped(i + 1))' <=> (Branching(i) \/ Jumped(i + 1))
    BY <1>5, <1>6
  <2>3. Jumped(idx)'
    BY <1>3, <1>6, <1>7
  <2>4. \A i \in 1 .. Reach' - 1 :
          idx_to_block'[i] # idx_to_block'[i + 1] <=> (Branching(i) \/ Jumped(i + 1))'
    BY <2>1, <2>2 DEF GraphInv, Cut
  <2> QED
    BY <1>3, <2>3, <2>4 DEF Cut
<1>13. LinkedUp'
  <2>1. pc' \notin {"link", "done"} /\ pc \notin {"link", "done"}
    BY <1>3
  <2> QED
    BY <1>1, <1>3, <2>1, NotLinkedUp DEF GraphInv
<1> QED
  BY <1>1, <1>9, <1>10, <1>11, <1>12, <1>13 DEF GraphInv

LEMMA CutKept ==
  ASSUME Cut, UNCHANGED <<insts, blocks>>,
         pc' = "block" => idx' = 1, pc' # "extend"
  PROVE  Cut'
<1>1. nodelist' = nodelist /\ idx_to_block' = idx_to_block /\ Reach' = Reach
  BY DEF blocks, Reach, Final
<1>2. Indices' = Indices /\ \A i : Goes(i)' = Goes(i) /\ Branching(i)' = Branching(i)
  BY GoesKept
<1>3. \A i : Jumped(i)' = Jumped(i)
  BY <1>2 DEF Jumped
<1>4. \A i : (Branching(i) \/ Jumped(i + 1))' <=> (Branching(i) \/ Jumped(i + 1))
  BY <1>2, <1>3
<1>5. \A i \in 1 .. Reach' - 1 :
        idx_to_block'[i] # idx_to_block'[i + 1] <=> (Branching(i) \/ Jumped(i + 1))'
  BY <1>1, <1>4 DEF Cut
<1>6. ~(pc' = "block" /\ idx' \in 2 .. Len(insts'))
  OBVIOUS
<1> QED
  BY <1>5, <1>6 DEF Cut

LEMMA LinkedKept ==
  ASSUME LinkedUp, UNCHANGED <<marks, blocks, links>>, Linked' = Linked
  PROVE  LinkedUp'
<1>1. \A l : Blocks(l)' = Blocks(l)
  BY DEF Blocks, blocks
<1>2. \A k : /\ Blocks(parents[nodelist[k].start_inst])' = Blocks(parents[nodelist[k].start_inst])
             /\ Blocks(children[Final(nodelist[k])])' = Blocks(children[Final(nodelist[k])])
  BY <1>1 DEF marks, blocks, Final
<1>3. /\ nodelist' = nodelist /\ parents' = parents
      /\ node_parents' = node_parents /\ node_children' = node_children /\ top_nodes' = top_nodes
  BY DEF marks, blocks, links
<1>4. \A k \in DOMAIN nodelist' :
        Count(k, top_nodes') = IF k <= Linked' /\ parents'[nodelist'[k].start_inst] = <<>>
                               THEN 1 ELSE 0
  BY <1>3 DEF LinkedUp
<1>5. /\ node_parents' = [k \in 1 .. Linked' |-> Blocks(parents[nodelist[k].start_inst])']
      /\ node_children' = [k \in 1 .. Linked' |-> Blocks(children[Final(nodelist[k])])']
  BY <1>2, <1>3 DEF LinkedUp
<1> QED
  BY <1>3, <1>4, <1>5 DEF LinkedUp, Count

LEMMA MapGraph ==
  ASSUME GraphInv, Map
  PROVE  GraphInv'
<1>1. Inv' /\ Inv
  BY MapInv DEF GraphInv
<1>2. /\ pc = "map" /\ pc' = "map" /\ UNCHANGED <<insts, marks, blocks, links>>
  BY DEF Map
<1>3. Mapped'
  BY <1>1, MapMapped DEF GraphInv
<1>4. Mutual'
  BY <1>2, MutualKept DEF GraphInv
<1>5. Marked'
  <2>1. \A i \in Indices : children[i] = <<>>
    BY <1>2 DEF GraphInv, Marked
  <2>2. children' = children /\ Indices' = Indices
    BY <1>2 DEF marks, Indices
  <2> QED
    BY <1>2, <2>1, <2>2 DEF Marked
<1>6. Cut'
  BY <1>2, CutKept DEF GraphInv
<1>7. LinkedUp'
  BY <1>1, <1>2, NotLinkedUp DEF GraphInv
<1> QED
  BY <1>1, <1>3, <1>4, <1>5, <1>6, <1>7 DEF GraphInv

LEMMA MarkGraph ==
  ASSUME GraphInv, Mark
  PROVE  GraphInv'
<1>1. Inv' /\ Inv
  BY MarkInv DEF GraphInv
<1>2. /\ pc = "mark" /\ pc' = "mark" /\ UNCHANGED <<insts, map_offset_to_idx, blocks, links>>
      /\ byte_idx' = byte_idx + insts[idx].size /\ idx' = idx + 1 /\ idx <= Len(insts)
  BY DEF Mark
<1>3. Mapped'
  <2>1. idx \in Indices /\ byte_idx = Offset(idx)
    BY <1>1, <1>2, StateFacts DEF GraphInv, Mapped
  <2>2. byte_idx' = Offset(idx')
    BY <1>1, <1>2, <2>1, StateFacts, OffsetFacts
  <2> QED
    BY <1>1, <1>2, <2>2, MappedKept DEF GraphInv
<1>4. Mutual' /\ Marked'
  BY <1>1, MarkMutual, MarkMarked DEF GraphInv
<1>5. Cut'
  BY <1>2, CutKept DEF GraphInv
<1>6. LinkedUp'
  BY <1>1, <1>2, NotLinkedUp DEF GraphInv
<1> QED
  BY <1>1, <1>3, <1>4, <1>5, <1>6 DEF GraphInv

LEMMA PhaseGraph ==
  ASSUME GraphInv, EndMap \/ EndMark \/ EndBlocks \/ Return
  PROVE  GraphInv'
<1>1. Inv' /\ Inv
  BY PhaseInv DEF GraphInv
<1>2. /\ UNCHANGED <<insts, text, marks, blocks, links>>
      /\ insts' = insts /\ map_offset_to_idx' = map_offset_to_idx /\ children' = children
      /\ nodelist' = nodelist
  BY DEF EndMap, EndMark, EndBlocks, Return, text, marks, blocks
<1>3. /\ Len(insts) \in Nat /\ Indices = 1 .. Len(insts) /\ idx \in 1 .. Len(insts) + 1
      /\ Len(nodelist) \in Nat
  BY <1>1, StateFacts
<1>4. \/ pc = "map" /\ pc' = "mark" /\ idx' = 1 /\ idx = Len(insts) + 1
      \/ pc = "mark" /\ pc' = "block" /\ idx' = 1 /\ idx = Len(insts) + 1
      \/ pc \in {"block", "extend"} /\ pc' = "link" /\ idx' = 1 /\ idx = Len(insts) + 1
      \/ pc = "link" /\ pc' = "done" /\ idx' = idx /\ idx > Len(nodelist)
  BY <1>3 DEF EndMap, EndMark, EndBlocks, Return
<1>5. Mapped'
  <2>1. pc' = "mark" => byte_idx' = Offset(idx')
    <3>1. pc' = "mark" => pc = "map" /\ idx' = 1
      BY <1>4
    <3> QED
      BY <1>1, <1>2, <3>1, StateFacts, OffsetFacts DEF GraphInv, Mapped, text
  <2>2. pc' # "map" /\ (pc = "map" => idx = Len(insts) + 1)
    BY <1>4
  <2> QED
    BY <1>1, <1>2, <2>1, <2>2, MappedKept DEF GraphInv
<1>6. Mutual'
  BY <1>2, MutualKept DEF GraphInv
<1>7. Marked'
  <2>1. CASE pc = "map"
    <3>1. \A i \in Indices : children[i] = <<>> /\ i >= 1
      BY <1>3, <2>1 DEF GraphInv, Marked
    <3>2. pc' = "mark" /\ idx' = 1 /\ Indices' = Indices
      BY <1>2, <1>4, <2>1 DEF Indices
    <3> QED
      BY <1>2, <3>1, <3>2 DEF Marked
  <2>2. CASE pc = "mark"
    <3>1. \A i \in Indices : ~Decided(i) /\ ~(i >= idx)
      BY <1>3, <1>4, <2>2 DEF Decided
    <3>2. \A i \in Indices : Kids(i) = Goes(i)
      BY <2>2, <3>1 DEF GraphInv, Marked
    <3>3. \A i : Kids(i)' = Kids(i) /\ Goes(i)' = Goes(i)
      BY <1>2, GoesKept DEF Kids
    <3>4. pc' = "block" /\ idx' = 1 /\ Indices' = Indices
      BY <1>2, <1>4, <2>2 DEF Indices
    <3>5. \A i \in Indices : ~Decided(i)'
      BY <1>3, <3>4 DEF Decided
    <3> QED
      BY <3>2, <3>3, <3>4, <3>5 DEF Marked
  <2>3. CASE pc \notin {"map", "mark"}
    <3>1. Indices' = Indices
      BY <1>2 DEF Indices
    <3>2. \A i \in Indices : Decided(i)' <=> Decided(i)
      BY <1>3, <1>4, <2>3, <3>1 DEF Decided
    <3> QED
      BY <1>1, <1>2, <1>4, <2>3, <3>2, MarkedKept DEF GraphInv
  <2> QED
    BY <2>1, <2>2, <2>3
<1>8. Cut'
  BY <1>2, <1>4, CutKept DEF GraphInv
<1>9. LinkedUp'
  <2>1. CASE pc # "link"
    BY <1>1, <1>2, <1>4, <2>1, NotLinkedUp DEF GraphInv
  <2>2. CASE pc = "link"
    <3>1. Linked = idx - 1 /\ Linked' = Len(nodelist)
      BY <1>2, <1>4, <2>2 DEF Linked
    <3>2. Linked' = Linked
      BY <1>3, <1>4, <2>2, <3>1 DEF GraphInv, LinkedUp
    <3> QED
      BY <1>2, <3>2, LinkedKept DEF GraphInv
  <2> QED
    BY <2>1, <2>2
<1> QED
  BY <1>1, <1>5, <1>6, <1>7, <1>8, <1>9 DEF GraphInv

(* A sequence that is given by a function, and one more element.           *)
LEMMA AppendFun ==
  ASSUME NEW n \in Nat, NEW f
  PROVE  Append([k \in 1 .. n |-> f[k]], f[n + 1]) = [k \in 1 .. n + 1 |-> f[k]]
<1> DEFINE V == {f[k] : k \in 1 .. n + 1}
           s == [k \in 1 .. n |-> f[k]]
           t == [k \in 1 .. n + 1 |-> f[k]]
<1>1. s \in Seq(V) /\ t \in Seq(V) /\ f[n + 1] \in V /\ Len(s) = n /\ Len(t) = n + 1
  OBVIOUS
<1>2. \A k \in 1 .. n + 1 : t[k] = IF k = n + 1 THEN f[n + 1] ELSE s[k]
  OBVIOUS
<1> HIDE DEF s, t, V
<1>3. Append(s, f[n + 1]) \in Seq(V) /\ Len(Append(s, f[n + 1])) = n + 1
  BY <1>1
<1>4. \A k \in 1 .. n + 1 : Append(s, f[n + 1])[k] = t[k]
  BY <1>1, <1>2
<1>5. Append(s, f[n + 1]) = t
  BY <1>1, <1>3, <1>4, SeqEqual
<1> QED
  BY <1>5 DEF s, t

LEMMA LinkGraph ==
  ASSUME GraphInv, Link
  PROVE  GraphInv'
<1>1. Inv' /\ Inv
  BY LinkInv DEF GraphInv
<1>2. /\ pc = "link" /\ pc' = "link" /\ idx <= Len(nodelist) /\ idx' = idx + 1
      /\ UNCHANGED <<insts, text, marks, blocks>>
      /\ insts' = insts /\ map_offset_to_idx' = map_offset_to_idx
      /\ nodelist' = nodelist /\ parents' = parents /\ children' = children
      /\ node_parents' = Append(node_parents, Blocks(parents[nodelist[idx].start_inst]))
      /\ node_children' = Append(node_children, Blocks(children[Final(nodelist[idx])]))
      /\ top_nodes' = IF parents[nodelist[idx].start_inst] = <<>> THEN Append(top_nodes, idx) ELSE top_nodes
  BY DEF Link, text, marks, blocks
<1>3. /\ idx \in Nat \ {0} /\ Len(nodelist) \in Nat /\ DOMAIN nodelist = 1 .. Len(nodelist)
      /\ Len(insts) \in Nat /\ Indices = 1 .. Len(insts)
  BY <1>1, StateFacts
<1>4. Mapped'
  BY <1>1, <1>2, MappedKept DEF GraphInv
<1>5. Mutual'
  BY <1>2, MutualKept DEF GraphInv
<1>6. Marked'
  <2>1. Indices' = Indices
    BY <1>2 DEF Indices
  <2>2. \A i \in Indices : Decided(i)' <=> Decided(i)
    BY <1>2, <2>1 DEF Decided
  <2> QED
    BY <1>1, <1>2, <2>2, MarkedKept DEF GraphInv
<1>7. Cut'
  BY <1>2, CutKept DEF GraphInv
<1>8. LinkedUp'
  <2> DEFINE n == idx - 1
             P == [k \in 1 .. idx |-> Blocks(parents[nodelist[k].start_inst])]
             C == [k \in 1 .. idx |-> Blocks(children[Final(nodelist[k])])]
  <2>1. Linked = n /\ Linked' = idx /\ n \in Nat /\ n + 1 = idx /\ idx \in 1 .. idx
    BY <1>2, <1>3 DEF Linked
  <2>2. /\ node_parents = [k \in 1 .. n |-> Blocks(parents[nodelist[k].start_inst])]
        /\ node_children = [k \in 1 .. n |-> Blocks(children[Final(nodelist[k])])]
    BY <2>1 DEF GraphInv, LinkedUp
  <2>3. node_parents = [k \in 1 .. n |-> P[k]] /\ node_children = [k \in 1 .. n |-> C[k]]
    BY <2>1, <2>2
  <2>4. /\ node_parents' = Append(node_parents, P[n + 1])
        /\ node_children' = Append(node_children, C[n + 1])
    BY <1>2, <2>1
  <2>5. P = [k \in 1 .. n + 1 |-> P[k]] /\ C = [k \in 1 .. n + 1 |-> C[k]]
    BY <2>1
  <2> HIDE DEF P, C, n
  <2>6. node_parents' = P /\ node_children' = C
    <3>1. /\ Append([k \in 1 .. n |-> P[k]], P[n + 1]) = [k \in 1 .. n + 1 |-> P[k]]
          /\ Append([k \in 1 .. n |-> C[k]], C[n + 1]) = [k \in 1 .. n + 1 |-> C[k]]
      BY <2>1, AppendFun
    <3> QED
      BY <2>3, <2>4, <2>5, <3>1
  <2>7. \A l : Blocks(l)' = Blocks(l)
    BY <1>2 DEF Blocks, blocks
  <2>8. \A k : /\ Blocks(parents[nodelist[k].start_inst])' = Blocks(parents[nodelist[k].start_inst])
               /\ Blocks(children[Final(nodelist[k])])' = Blocks(children[Final(nodelist[k])])
    BY <1>2, <2>7 DEF Final
  <2>9. /\ node_parents' = [k \in 1 .. Linked' |-> Blocks(parents[nodelist[k].start_inst])']
        /\ node_children' = [k \in 1 .. Linked' |-> Blocks(children[Final(nodelist[k])])']
    BY <2>1, <2>6, <2>8 DEF P, C
  <2>10. ASSUME NEW k \in DOMAIN nodelist
         PROVE  Count(k, top_nodes') = IF k <= idx /\ parents[nodelist[k].start_inst] = <<>> THEN 1 ELSE 0
    <3>1. Count(k, top_nodes) = IF k <= n /\ parents[nodelist[k].start_inst] = <<>> THEN 1 ELSE 0
      BY <2>1 DEF GraphInv, LinkedUp
    <3>2. top_nodes \in Seq(1 .. Len(nodelist)) /\ idx \in 1 .. Len(nodelist) /\ k \in Nat
      BY <1>1, <1>2, <1>3 DEF Inv, TypeOK
    <3>3. Count(k, Append(top_nodes, idx)) = IF k = idx THEN Count(k, top_nodes) + 1 ELSE Count(k, top_nodes)
      BY <3>2, CountAppend
    <3>4. (k <= idx <=> k <= n \/ k = idx) /\ ~(idx <= n)
      BY <1>3, <2>1, <3>2
    <3> QED
      BY <1>2, <3>1, <3>3, <3>4
  <2>11. Linked' \in 0 .. Len(nodelist')
    BY <1>2, <1>3, <2>1
  <2>12. \A k \in DOMAIN nodelist' :
           Count(k, top_nodes') = IF k <= Linked' /\ parents'[nodelist'[k].start_inst] = <<>> THEN 1 ELSE 0
    BY <1>2, <2>1, <2>10
  <2> QED
    BY <2>9, <2>11, <2>12 DEF LinkedUp, Count
<1> QED
  BY <1>1, <1>4, <1>5, <1>6, <1>7, <1>8 DEF GraphInv

LEMMA StutterGraph ==
  ASSUME GraphInv, UNCHANGED vars
  PROVE  GraphInv'
<1>1. Inv' /\ Inv
  BY StutterInv DEF GraphInv
<1>2. /\ UNCHANGED <<insts, text, marks, blocks, links>> /\ pc' = pc /\ idx' = idx
      /\ insts' = insts /\ nodelist' = nodelist /\ children' = children
      /\ map_offset_to_idx' = map_offset_to_idx /\ byte_idx' = byte_idx
  BY DEF vars, text, marks, blocks
<1>3. Indices' = Indices /\ \A i : Goes(i)' = Goes(i) /\ Branching(i)' = Branching(i) /\ Offset(i)' = Offset(i)
  BY <1>2, GoesKept
<1>4. \A i : Jumped(i)' = Jumped(i) /\ Kids(i)' = Kids(i) /\ Decided(i)' = Decided(i)
  BY <1>2, <1>3 DEF Jumped, Kids, Decided
<1>5. Mapped'
  BY <1>2, <1>3 DEF GraphInv, Mapped, text_len
<1>6. Mutual'
  BY <1>2, MutualKept DEF GraphInv
<1>7. Marked'
  <2>1. \A i : Jumped(i + 1)' = Jumped(i + 1)
    BY <1>4
  <2> QED
    BY <1>2, <1>3, <1>4, <2>1 DEF GraphInv, Marked
<1>8. Cut'
  <2>1. nodelist' = nodelist /\ idx_to_block' = idx_to_block /\ Reach' = Reach
    BY <1>2 DEF blocks, Reach, Final
  <2>2. /\ \A i : Jumped(i + 1)' = Jumped(i + 1)
        /\ Jumped(idx)' = Jumped(idx) /\ Branching(idx - 1)' = Branching(idx - 1)
    BY <1>2, <1>3, <1>4
  <2> QED
    BY <1>2, <1>3, <2>1, <2>2 DEF GraphInv, Cut
<1>9. LinkedUp'
  <2>1. Linked' = Linked
    BY <1>2 DEF Linked
  <2> QED
    BY <1>2, <2>1, LinkedKept DEF GraphInv
<1> QED
  BY <1>1, <1>5, <1>6, <1>7, <1>8, <1>9 DEF GraphInv

LEMMA InitGraph == Init => GraphInv
<1> SUFFICES ASSUME Init PROVE GraphInv
  OBVIOUS
<1>1. Inv
  BY InitInv
<1>2. /\ insts \in Seq(Instructions) /\ Len(insts) \in Nat /\ Indices = 1 .. Len(insts)
  BY <1>1, StateFacts
<1>3. /\ pc = "map" /\ idx = 1 /\ byte_idx = 0 /\ map_offset_to_idx = <<>>
      /\ nodelist = <<>> /\ node_parents = <<>> /\ node_children = <<>> /\ top_nodes = <<>>
      /\ \A i \in Indices : children[i] = <<>> /\ parents[i] = <<>>
  BY DEF Init
<1>4. Mapped
  <2>1. text_len = 0 /\ Offset(idx) = 0
    BY <1>2, <1>3, OffsetFacts DEF text_len
  <2> QED
    BY <1>3, <2>1 DEF Mapped
<1>5. Mutual
  BY <1>3 DEF Mutual, Count
<1>6. Marked
  BY <1>3 DEF Marked
<1>7. Cut
  BY <1>3 DEF Cut, Reach
<1>8. LinkedUp
  <2>1. Linked = 0 /\ DOMAIN nodelist = {} /\ 1 .. 0 = {} /\ Linked \in 0 .. Len(nodelist)
    BY <1>3 DEF Linked
  <2>2. /\ node_parents = [k \in 1 .. Linked |-> Blocks(parents[nodelist[k].start_inst])]
        /\ node_children = [k \in 1 .. Linked |-> Blocks(children[Final(nodelist[k])])]
    BY <1>3, <2>1
  <2> QED
    BY <2>1, <2>2 DEF LinkedUp
<1> QED
  BY <1>1, <1>4, <1>5, <1>6, <1>7, <1>8 DEF GraphInv

LEMMA NextGraph == GraphInv /\ [Next]_vars => GraphInv'
<1> SUFFICES ASSUME GraphInv, [Next]_vars PROVE GraphInv'
  OBVIOUS
<1>1. CASE Map BY <1>1, MapGraph
<1>2. CASE Mark BY <1>2, MarkGraph
<1>3. CASE EndMap \/ EndMark \/ EndBlocks \/ Return BY <1>3, PhaseGraph
<1>4. CASE NewBlock BY <1>4, NewBlockGraph
<1>5. CASE Split BY <1>5, SplitGraph
<1>6. CASE Extend BY <1>6, ExtendGraph
<1>7. CASE Link BY <1>7, LinkGraph
<1>8. CASE Stopped \/ UNCHANGED vars BY <1>8, StutterGraph DEF Stopped
<1> QED BY <1>1, <1>2, <1>3, <1>4, <1>5, <1>6, <1>7, <1>8 DEF Next

-----------------------------------------------------------------------------
(* The finished graph: control enters a block at its first instruction and *)
(* leaves it after its last one.                                           *)
LEMMA InBlock ==
  ASSUME GraphInv, pc \in {"link", "done"}, NEW i \in Indices
  PROVE  /\ idx_to_block[i] \in DOMAIN nodelist
         /\ nodelist[idx_to_block[i]].start_inst \in Nat \ {0}
         /\ nodelist[idx_to_block[i]].start_inst <= i
         /\ Final(nodelist[idx_to_block[i]]) \in Nat /\ i <= Final(nodelist[idx_to_block[i]])
         /\ \A j \in Int : nodelist[idx_to_block[i]].start_inst <= j /\ j <= Final(nodelist[idx_to_block[i]])
                           => idx_to_block[j] = idx_to_block[i] /\ j \in Indices
<1> DEFINE b == nodelist[idx_to_block[i]]
<1>1. Inv /\ i \in 1 .. Reach
  <2>1. Reach = Len(insts)
    BY DEF GraphInv, Inv, Phases
  <2> QED
    BY <2>1, StateFacts DEF GraphInv
<1>2. idx_to_block[i] \in DOMAIN nodelist /\ i \in Covered(b)
  BY <1>1 DEF Inv, Blocked
<1>3. /\ b.start_inst \in Nat \ {0} /\ Final(b) \in Nat /\ Covered(b) = b.start_inst .. Final(b)
  BY <1>1, <1>2, NodeFacts DEF Inv
<1>4. \A j \in Covered(b) : j \in Indices /\ idx_to_block[j] = idx_to_block[i]
  BY <1>1, <1>2 DEF Inv, Blocked
<1> HIDE DEF b
<1>5. b.start_inst <= i /\ i <= Final(b)
  BY <1>2, <1>3
<1> QED
  BY <1>2, <1>3, <1>4, <1>5 DEF b

LEMMA BlocksCut ==
  ASSUME GraphInv, pc \in {"link", "done"}, NEW i \in 1 .. Len(insts) - 1
  PROVE  idx_to_block[i] # idx_to_block[i + 1] <=> Branching(i) \/ Jumped(i + 1)
<1>1. Reach = Len(insts)
  BY DEF GraphInv, Inv, Phases
<1> QED
  BY <1>1 DEF GraphInv, Cut

(* A child of an instruction begins its block, and its parent ends one.    *)
LEMMA ChildBegins ==
  ASSUME GraphInv, pc = "done", NEW i \in Indices, NEW t \in Kids(i)
  PROVE  /\ t \in Indices /\ Jumped(t)
         /\ nodelist[idx_to_block[t]].start_inst = t
         /\ Final(nodelist[idx_to_block[i]]) = i
<1>1. /\ Len(insts) \in Nat /\ Indices = 1 .. Len(insts)
      /\ children \in [Indices -> Seq(Indices)]
  BY StateFacts DEF GraphInv
<1>2. t \in Indices
  <2>1. children[i] \in Seq(Indices)
    BY <1>1
  <2> QED
    BY <2>1 DEF Kids
<1>3. (Branching(i) /\ Jumped(t)) \/ (t = i + 1 /\ Jumped(i + 1))
  <2>1. CASE Decided(i) /\ ~Branching(i) /\ Jumped(i + 1)
    <3>1. children[i] = <<i + 1>>
      BY <2>1 DEF GraphInv, Marked
    <3> QED
      BY <2>1, <3>1 DEF Kids
  <2>2. CASE ~(Decided(i) /\ ~Branching(i) /\ Jumped(i + 1))
    <3>1. Kids(i) = Goes(i)
      BY <2>2 DEF GraphInv, Marked
    <3> QED
      BY <3>1 DEF Branching, Jumped
  <2> QED
    BY <2>1, <2>2
<1>4. Jumped(t)
  BY <1>3
<1>5. nodelist[idx_to_block[t]].start_inst = t
  <2> SUFFICES ASSUME nodelist[idx_to_block[t]].start_inst # t PROVE FALSE
    OBVIOUS
  <2>1. t - 1 \in 1 .. Len(insts) - 1 /\ (t - 1) + 1 = t /\ idx_to_block[t - 1] = idx_to_block[t]
    <3> DEFINE q == nodelist[idx_to_block[t]]
    <3>1. /\ q.start_inst \in Nat \ {0} /\ q.start_inst <= t /\ Final(q) \in Nat /\ t <= Final(q)
          /\ \A j \in Int : q.start_inst <= j /\ j <= Final(q) => idx_to_block[j] = idx_to_block[t]
          /\ q.start_inst # t
      BY <1>2, InBlock
    <3> HIDE DEF q
    <3>2. t \in Nat /\ q.start_inst <= t - 1 /\ t - 1 <= Final(q) /\ t - 1 \in Int
      BY <1>1, <1>2, <3>1
    <3> QED
      BY <1>1, <1>2, <3>1, <3>2
  <2>2. Jumped((t - 1) + 1)
    BY <1>4, <2>1
  <2> QED
    BY <2>1, <2>2, BlocksCut
<1>6. Final(nodelist[idx_to_block[i]]) = i
  <2> SUFFICES ASSUME Final(nodelist[idx_to_block[i]]) # i PROVE FALSE
    OBVIOUS
  <2>1. i + 1 \in Indices /\ idx_to_block[i + 1] = idx_to_block[i]
    <3> DEFINE q == nodelist[idx_to_block[i]]
    <3>1. /\ q.start_inst \in Nat \ {0} /\ q.start_inst <= i /\ Final(q) \in Nat /\ i <= Final(q)
          /\ \A j \in Int : q.start_inst <= j /\ j <= Final(q)
                           => idx_to_block[j] = idx_to_block[i] /\ j \in Indices
          /\ Final(q) # i
      BY InBlock
    <3> HIDE DEF q
    <3>2. i \in Nat /\ q.start_inst <= i + 1 /\ i + 1 <= Final(q) /\ i + 1 \in Int
      BY <1>1, <3>1
    <3> QED
      BY <3>1, <3>2
  <2>2. i \in 1 .. Len(insts) - 1
    BY <1>1, <2>1
  <2> QED
    BY <1>3, <2>1, <2>2, BlocksCut
<1> QED
  BY <1>2, <1>4, <1>5, <1>6

(* Counting blocks is counting instructions.                               *)
LEMMA CountBlocks ==
  ASSUME NEW b, NEW x, NEW s, \A k \in DOMAIN s : idx_to_block[s[k]] = b <=> s[k] = x
  PROVE  Count(b, Blocks(s)) = Count(x, s)
<1>1. {k \in DOMAIN Blocks(s) : Blocks(s)[k] = b} = {k \in DOMAIN s : s[k] = x}
  BY DEF Blocks
<1> QED
  BY <1>1 DEF Count

LEMMA GraphBasic == GraphInv => BlocksAreBasic
<1> SUFFICES ASSUME GraphInv, pc \in {"link", "done"}, NEW i \in 1 .. Len(insts) - 1
             PROVE  idx_to_block[i] # idx_to_block[i + 1] <=>
                      Branching(i) \/ \E j \in Indices : i + 1 \in Goes(j)
  BY DEF BlocksAreBasic
<1> QED
  BY BlocksCut DEF Jumped

(* The ends of a block, and its links.                                     *)
LEMMA BlockEnds ==
  ASSUME GraphInv, pc = "done", NEW b \in DOMAIN nodelist
  PROVE  /\ nodelist[b].start_inst \in Indices /\ Final(nodelist[b]) \in Indices
         /\ idx_to_block[nodelist[b].start_inst] = b /\ idx_to_block[Final(nodelist[b])] = b
         /\ node_parents[b] = Blocks(parents[nodelist[b].start_inst])
         /\ node_children[b] = Blocks(children[Final(nodelist[b])])
         /\ Count(b, top_nodes) = IF parents[nodelist[b].start_inst] = <<>> THEN 1 ELSE 0
<1>1. Inv
  BY DEF GraphInv
<1>2. /\ nodelist[b].start_inst \in Nat \ {0} /\ nodelist[b].block_len \in Nat \ {0}
      /\ Covered(nodelist[b]) = nodelist[b].start_inst .. Final(nodelist[b])
      /\ Len(nodelist) \in Nat /\ b \in 1 .. Len(nodelist)
  BY <1>1, NodeFacts DEF Inv
<1>3. nodelist[b].start_inst \in Covered(nodelist[b]) /\ Final(nodelist[b]) \in Covered(nodelist[b])
  BY <1>2 DEF Final
<1>4. \A i \in Covered(nodelist[b]) : i \in Indices /\ idx_to_block[i] = b
  BY <1>1 DEF Inv, Blocked
<1>5. Linked = Len(nodelist)
  BY DEF Linked
<1>6. /\ node_parents = [k \in 1 .. Len(nodelist) |-> Blocks(parents[nodelist[k].start_inst])]
      /\ node_children = [k \in 1 .. Len(nodelist) |-> Blocks(children[Final(nodelist[k])])]
      /\ Count(b, top_nodes) = IF b <= Len(nodelist) /\ parents[nodelist[b].start_inst] = <<>> THEN 1 ELSE 0
  BY <1>5 DEF GraphInv, LinkedUp
<1> QED
  BY <1>2, <1>3, <1>4, <1>6

LEMMA GraphMutual == GraphInv => LinksAreMutual
<1> SUFFICES ASSUME GraphInv, pc = "done", NEW a \in DOMAIN nodelist, NEW b \in DOMAIN nodelist
             PROVE  /\ Count(b, node_children[a]) = Count(a, node_parents[b])
                    /\ Count(a, top_nodes) = IF node_parents[a] = <<>> THEN 1 ELSE 0
  BY DEF LinksAreMutual
<1> DEFINE i == Final(nodelist[a])
           t == nodelist[b].start_inst
<1>1. /\ parents \in [Indices -> Seq(Indices)] /\ children \in [Indices -> Seq(Indices)]
  BY StateFacts DEF GraphInv
<1>2. /\ i \in Indices /\ idx_to_block[i] = a /\ node_children[a] = Blocks(children[i])
      /\ t \in Indices /\ idx_to_block[t] = b /\ node_parents[b] = Blocks(parents[t])
  BY BlockEnds
<1>3. Count(b, node_children[a]) = Count(t, children[i])
  <2>1. ASSUME NEW k \in DOMAIN children[i]
        PROVE  idx_to_block[children[i][k]] = b <=> children[i][k] = t
    <3>1. children[i][k] \in Kids(i)
      BY DEF Kids
    <3> HIDE DEF i
    <3>2. nodelist[idx_to_block[children[i][k]]].start_inst = children[i][k]
      BY <1>2, <3>1, ChildBegins
    <3> QED
      BY <1>2, <3>2
  <2> HIDE DEF i, t
  <2> QED
    BY <1>2, <2>1, CountBlocks
<1>4. Count(a, node_parents[b]) = Count(i, parents[t])
  <2>1. ASSUME NEW k \in DOMAIN parents[t]
        PROVE  idx_to_block[parents[t][k]] = a <=> parents[t][k] = i
    <3> DEFINE j == parents[t][k]
    <3> HIDE DEF t
    <3>1. parents[t] \in Seq(Indices) /\ j \in Indices
      BY <1>1, <1>2
    <3>2. Count(j, parents[t]) # 0
      BY <3>1, PlacesFinite
    <3> HIDE DEF j
    <3>3. Count(t, children[j]) # 0 /\ children[j] \in Seq(Indices)
      BY <1>1, <1>2, <3>1, <3>2 DEF GraphInv, Mutual
    <3>4. t \in Kids(j)
      <4>1. \E q \in DOMAIN children[j] : children[j][q] = t
        BY <3>3, PlacesFinite
      <4> QED
        BY <4>1 DEF Kids
    <3>5. Final(nodelist[idx_to_block[j]]) = j
      BY <3>1, <3>4, ChildBegins
    <3> QED
      BY <1>2, <3>5 DEF j
  <2> HIDE DEF i, t
  <2> QED
    BY <1>2, <2>1, CountBlocks
<1>5. Count(t, children[i]) = Count(i, parents[t])
  BY <1>2 DEF GraphInv, Mutual
<1>6. Count(a, top_nodes) = IF node_parents[a] = <<>> THEN 1 ELSE 0
  <2>1. /\ nodelist[a].start_inst \in Indices
        /\ node_parents[a] = Blocks(parents[nodelist[a].start_inst])
        /\ Count(a, top_nodes) = IF parents[nodelist[a].start_inst] = <<>> THEN 1 ELSE 0
    BY BlockEnds
  <2>2. parents[nodelist[a].start_inst] \in Seq(Indices)
    BY <1>1, <2>1
  <2>3. \A s \in Seq(Indices) : Blocks(s) = <<>> <=> s = <<>>
    <3> TAKE s \in Seq(Indices)
    <3>1. DOMAIN Blocks(s) = DOMAIN s /\ DOMAIN s = 1 .. Len(s) /\ Len(s) \in Nat
      BY DEF Blocks
    <3>2. s # <<>> => 1 \in DOMAIN s
      OBVIOUS
    <3>3. s = <<>> => Blocks(s) = <<>>
      BY DEF Blocks
    <3>4. DOMAIN <<>> = {}
      OBVIOUS
    <3> QED
      BY <3>1, <3>2, <3>3, <3>4
  <2> QED
    BY <2>1, <2>2, <2>3
<1> QED
  BY <1>3, <1>4, <1>5, <1>6

LEMMA GraphContinues == GraphInv => ChildrenContinue
<1> SUFFICES ASSUME GraphInv, pc = "done", NEW b \in DOMAIN nodelist, NEW i, i = Final(nodelist[b])
             PROVE  {nodelist[node_children[b][k]].start_inst : k \in DOMAIN node_children[b]}
                      = IF Branching(i) THEN Goes(i) ELSE {i + 1} \cap Indices
  BY DEF ChildrenContinue
<1>1. /\ Len(insts) \in Nat /\ Indices = 1 .. Len(insts)
  BY StateFacts DEF GraphInv
<1>2. i \in Indices /\ idx_to_block[i] = b /\ node_children[b] = Blocks(children[i])
  BY BlockEnds
<1>3. {nodelist[node_children[b][k]].start_inst : k \in DOMAIN node_children[b]} = Kids(i)
  <2>1. DOMAIN node_children[b] = DOMAIN children[i]
    BY <1>2 DEF Blocks
  <2>2. ASSUME NEW k \in DOMAIN children[i]
        PROVE  nodelist[node_children[b][k]].start_inst = children[i][k]
    <3>1. node_children[b][k] = idx_to_block[children[i][k]]
      BY <1>2 DEF Blocks
    <3>2. children[i][k] \in Kids(i)
      BY DEF Kids
    <3> QED
      BY <1>2, <3>1, <3>2, ChildBegins
  <2> QED
    BY <2>1, <2>2 DEF Kids
<1>4. CASE Branching(i)
  BY <1>2, <1>3, <1>4 DEF GraphInv, Marked
<1>5. CASE ~Branching(i) /\ i + 1 \in Indices
  <2>1. idx_to_block[i + 1] # b
    <3>1. i + 1 <= Final(nodelist[idx_to_block[i + 1]])
      BY <1>5, InBlock
    <3> QED
      BY <1>1, <1>2, <3>1
  <2>2. i \in 1 .. Len(insts) - 1
    BY <1>1, <1>2, <1>5
  <2>3. Jumped(i + 1) /\ Decided(i)
    BY <1>2, <1>5, <2>1, <2>2, BlocksCut DEF Decided
  <2>4. children[i] = <<i + 1>>
    BY <1>2, <1>5, <2>3 DEF GraphInv, Marked
  <2> QED
    BY <1>3, <1>5, <2>4 DEF Kids
<1>6. CASE ~Branching(i) /\ i + 1 \notin Indices
  <2>1. Kids(i) = Goes(i)
    BY <1>2, <1>6 DEF GraphInv, Marked, Decided
  <2> QED
    BY <1>3, <1>6, <2>1 DEF Branching
<1> QED
  BY <1>4, <1>5, <1>6

-----------------------------------------------------------------------------
(* cfg_make writes and reads within its arrays, for every program: the     *)
(* offsets of its map lead to instructions, and the marks, blocks and top  *)
(* nodes are indices of instructions and blocks.                           *)
THEOREM TypeCorrect == Spec => []TypeOK
<1>1. Inv => TypeOK
  BY DEF Inv
<1> QED BY <1>1, InitInv, NextInv, PTL DEF Spec

(* The blocks partition every program, and every instruction finds the     *)
(* block it is in.                                                         *)
THEOREM BlocksCover == Spec => []BlocksPartition
<1>1. Inv => BlocksPartition
  <2> SUFFICES ASSUME Inv PROVE BlocksPartition
    OBVIOUS
  <2>1. pc \in {"link", "done"} => \A i \in Indices : i \in 1 .. Reach
    BY IndicesFacts DEF Inv, TypeOK, Phases
  <2> QED BY <2>1, Zenon DEF Inv, Blocked, BlocksPartition
<1> QED BY <1>1, InitInv, NextInv, PTL DEF Spec

(* For every program: control enters a block only at its first instruction *)
(* and leaves it only after its last, and no block could be longer.        *)
THEOREM BlocksBasic == Spec => []BlocksAreBasic
BY InitGraph, NextGraph, GraphBasic, PTL DEF Spec

(* In the graph that is returned a block is as often a parent of another   *)
(* as that one is its child, and top_nodes are the blocks without parents. *)
THEOREM LinksMutual == Spec => []LinksAreMutual
BY InitGraph, NextGraph, GraphMutual, PTL DEF Spec

(* The children of a block are where its last instruction goes on, be it   *)
(* with the targets of its branch or with the next instruction.            *)
THEOREM ChildrenFollow == Spec => []ChildrenContinue
BY InitGraph, NextGraph, GraphContinues, PTL DEF Spec
=============================================================================
