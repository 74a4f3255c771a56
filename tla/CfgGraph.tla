------------------------------ MODULE CfgGraph ------------------------------
(***************************************************************************)
(* cfg_make of example/libdiscfg/cfg.c: the basic blocks of a program and  *)
(* the control flow between them.  It maps offsets to instructions, marks  *)
(* the targets of all branches, cuts the program into blocks at the marks, *)
(* and links the blocks.  Each round of a loop is an action.  Instructions *)
(* and blocks count from 1, offsets from 0.                                *)
(***************************************************************************)
EXTENDS Integers, Sequences, FiniteSets

CONSTANTS
  Instructions,   \* records with the fields type, size and rel_offset
  Programs,       \* what cfg_make is given
  UNSUPPORTED     \* the rel_offset of a branch whose target is no constant

ASSUME InstructionsAssumption ==
  \A x \in Instructions :
    /\ x.type \in {"plain", "jmp", "jcc", "return"}
    /\ x.size \in Nat \ {0}
    /\ x.rel_offset = UNSUPPORTED \/ x.rel_offset \in Int

ASSUME ProgramsAssumption == Programs \subseteq Seq(Instructions)

VARIABLES
  insts,
  idx,            \* inst_idx, then the number of a block
  map_offset_to_idx,
  byte_idx,
  parents,        \* of each instruction, the instructions that branch to it
  children,       \* of each instruction, the instructions it branches to
  nodelist,       \* the blocks: start_inst and block_len
  idx_to_block,   \* 0 is what malloc left there
  node_parents, node_children,   \* of each block, its neighbours
  top_nodes,
  pc

text   == <<map_offset_to_idx, byte_idx>>
marks  == <<parents, children>>
blocks == <<nodelist, idx_to_block>>
links  == <<node_parents, node_children, top_nodes>>
vars   == <<insts, idx, text, marks, blocks, links, pc>>

Indices == DOMAIN insts

Init ==
  /\ insts \in Programs
  /\ idx = 1 /\ map_offset_to_idx = <<>> /\ byte_idx = 0
  /\ parents = [i \in Indices |-> <<>>] /\ children = [i \in Indices |-> <<>>]
  /\ nodelist = <<>> /\ idx_to_block = [i \in Indices |-> 0]
  /\ node_parents = <<>> /\ node_children = <<>> /\ top_nodes = <<>>
  /\ pc = "map"

-----------------------------------------------------------------------------
(* Every byte of an instruction leads to it.                               *)
Map ==
  /\ pc = "map" /\ idx <= Len(insts)
  /\ map_offset_to_idx' = map_offset_to_idx \o [b \in 1 .. insts[idx].size |-> idx]
  /\ idx' = idx + 1
  /\ UNCHANGED <<insts, byte_idx, marks, blocks, links, pc>>

EndMap ==
  /\ pc = "map" /\ idx > Len(insts)
  /\ pc' = "mark" /\ idx' = 1
  /\ UNCHANGED <<insts, text, marks, blocks, links>>

text_len == Len(map_offset_to_idx)

(* The instruction a branch of instruction i leads to, if it is in the     *)
(* text: byte_idx is in front of the instruction.                          *)
Inside(i, rel_offset) ==
  LET target_offset == byte_idx + insts[i].size + rel_offset
  IN  IF target_offset < 0 \/ target_offset >= text_len THEN <<>>
      ELSE <<map_offset_to_idx[target_offset + 1]>>

(* get_branch_targets: a conditional jump goes on with the next            *)
(* instruction as well.                                                    *)
Reached(i) ==
  IF insts[i].rel_offset = UNSUPPORTED THEN <<>>
  ELSE CASE insts[i].type = "jmp" -> Inside(i, insts[i].rel_offset)
         [] insts[i].type = "jcc" -> Inside(i, insts[i].rel_offset) \o Inside(i, 0)
         [] OTHER -> <<>>

(* Mutant of Targeted: of two branches to one instruction one is lost.     *)
TargetedOnce(t, i) == parents[t] \o (IF \E k \in DOMAIN Reached(i) : Reached(i)[k] = t
                                     THEN <<i>> ELSE <<>>)
(* The parents of t once the branches of i are marked.                     *)
Targeted(t, i) ==
  parents[t] \o [k \in 1 .. Cardinality({j \in DOMAIN Reached(i) : Reached(i)[j] = t}) |-> i]

Mark ==
  /\ pc = "mark" /\ idx <= Len(insts)
  /\ children' = [children EXCEPT ![idx] = @ \o Reached(idx)]
  /\ parents' = [t \in Indices |-> Targeted(t, idx)]
  /\ byte_idx' = byte_idx + insts[idx].size
  /\ idx' = idx + 1
  /\ UNCHANGED <<insts, map_offset_to_idx, blocks, links, pc>>

EndMark ==
  /\ pc = "mark" /\ idx > Len(insts)
  /\ pc' = "block" /\ idx' = 1
  /\ UNCHANGED <<insts, text, marks, blocks, links>>

-----------------------------------------------------------------------------
(* Mutant of Ends: a return does not end a block.                          *)
EndsBranch(i) == children[i] # <<>>
Ends(i)       == children[i] # <<>> \/ insts[i].type = "return"

NewBlock ==
  /\ pc = "block" /\ idx <= Len(insts)
  /\ nodelist' = Append(nodelist, [start_inst |-> idx, block_len |-> 1])
  /\ idx_to_block' = [idx_to_block EXCEPT ![idx] = Len(nodelist) + 1]
  /\ idx' = idx + 1
  /\ pc' = IF Ends(idx) THEN "block" ELSE "extend"
  /\ UNCHANGED <<insts, text, marks, links>>

(* Mutant of Split: inst_idx-- is forgotten.                               *)
SplitSkips ==
  /\ pc = "extend" /\ idx <= Len(insts) /\ parents[idx] # <<>>
  /\ parents' = [parents EXCEPT ![idx] = Append(@, idx - 1)]
  /\ children' = [children EXCEPT ![idx - 1] = Append(@, idx)]
  /\ pc' = "block" /\ idx' = idx + 1
  /\ UNCHANGED <<insts, text, blocks, links>>
(* Another block jumps here: this one becomes its parent.                  *)
Split ==
  /\ pc = "extend" /\ idx <= Len(insts) /\ parents[idx] # <<>>
  /\ parents' = [parents EXCEPT ![idx] = Append(@, idx - 1)]
  /\ children' = [children EXCEPT ![idx - 1] = Append(@, idx)]
  /\ pc' = "block"
  /\ UNCHANGED <<insts, idx, text, blocks, links>>

Extended ==
  /\ idx_to_block' = [idx_to_block EXCEPT ![idx] = Len(nodelist)]
  /\ nodelist' = [nodelist EXCEPT ![Len(nodelist)].block_len = @ + 1]
  /\ idx' = idx + 1

Extend ==
  /\ pc = "extend" /\ idx <= Len(insts) /\ parents[idx] = <<>>
  /\ Extended
  /\ pc' = IF Ends(idx) THEN "block" ELSE "extend"
  /\ UNCHANGED <<insts, text, marks, links>>

EndBlocks ==
  /\ pc \in {"block", "extend"} /\ idx > Len(insts)
  /\ pc' = "link" /\ idx' = 1
  /\ UNCHANGED <<insts, text, marks, blocks, links>>

-----------------------------------------------------------------------------
Blocks(list) == [k \in DOMAIN list |-> idx_to_block[list[k]]]

Final(b) == b.start_inst + b.block_len - 1

(* Mutant of Link: the children are those of the first instruction.        *)
LinkFirst ==
  /\ pc = "link" /\ idx <= Len(nodelist)
  /\ LET b == nodelist[idx] IN
       /\ node_parents' = Append(node_parents, Blocks(parents[b.start_inst]))
       /\ node_children' = Append(node_children, Blocks(children[b.start_inst]))
       /\ top_nodes' = IF parents[b.start_inst] = <<>> THEN Append(top_nodes, idx) ELSE top_nodes
  /\ idx' = idx + 1
  /\ UNCHANGED <<insts, text, marks, blocks, pc>>
Link ==
  /\ pc = "link" /\ idx <= Len(nodelist)
  /\ LET b == nodelist[idx] IN
       /\ node_parents' = Append(node_parents, Blocks(parents[b.start_inst]))
       /\ node_children' = Append(node_children, Blocks(children[Final(b)]))
       /\ top_nodes' = IF parents[b.start_inst] = <<>> THEN Append(top_nodes, idx) ELSE top_nodes
  /\ idx' = idx + 1
  /\ UNCHANGED <<insts, text, marks, blocks, pc>>

(* The working memory is freed.                                            *)
Return ==
  /\ pc = "link" /\ idx > Len(nodelist)
  /\ pc' = "done" /\ UNCHANGED <<insts, idx, text, marks, blocks, links>>

Stopped == pc = "done" /\ UNCHANGED vars

Next == Map \/ EndMap \/ Mark \/ EndMark \/ NewBlock \/ Split \/ Extend \/ EndBlocks
        \/ Link \/ Return \/ Stopped

Spec == Init /\ [][Next]_vars

-----------------------------------------------------------------------------
TypeOK ==
  /\ insts \in Seq(Instructions) /\ idx \in 1 .. Len(insts) + 1
  /\ map_offset_to_idx \in Seq(Indices) /\ byte_idx \in Nat
  /\ parents \in [Indices -> Seq(Indices)] /\ children \in [Indices -> Seq(Indices)]
  /\ nodelist \in Seq([start_inst : Indices, block_len : Indices])
  /\ idx_to_block \in [Indices -> 0 .. Len(nodelist)]
  /\ top_nodes \in Seq(1 .. Len(nodelist))
  /\ pc \in {"map", "mark", "block", "extend", "link", "done"}

Covered(b) == b.start_inst .. Final(b)

(* The blocks follow each other and cover what has been read, and every    *)
(* instruction finds its block: no entry of idx_to_block that malloc left  *)
(* is followed when the blocks are linked.                                 *)
BlocksPartition ==
  /\ \A k \in DOMAIN nodelist :
       /\ nodelist[k].start_inst = IF k = 1 THEN 1 ELSE Final(nodelist[k - 1]) + 1
       /\ \A i \in Covered(nodelist[k]) : i \in Indices /\ idx_to_block[i] = k
  /\ pc \in {"link", "done"} =>
       \A i \in Indices : idx_to_block[i] \in DOMAIN nodelist /\ i \in Covered(nodelist[idx_to_block[i]])

(* Where the program goes from an instruction, without cfg_make's map:     *)
(* Goes(i) are the instructions its branches lead to.                      *)
Offset(i) == LET before[k \in 1 .. Len(insts) + 1] ==
                   IF k = 1 THEN 0 ELSE before[k - 1] + insts[k - 1].size
             IN  before[i]
Leads(i, rel_offset) ==
  {j \in Indices : Offset(j) <= Offset(i + 1) + rel_offset /\ Offset(i + 1) + rel_offset < Offset(j + 1)}
Goes(i) ==
  IF insts[i].type \notin {"jmp", "jcc"} \/ insts[i].rel_offset = UNSUPPORTED THEN {}
  ELSE Leads(i, insts[i].rel_offset) \cup (IF insts[i].type = "jcc" THEN Leads(i, 0) ELSE {})

(* Control comes into a block only at its first instruction and leaves it  *)
(* only after its last, and no block could be longer.                      *)
Branching(i) == Goes(i) # {} \/ insts[i].type = "return"

BlocksAreBasic ==
  pc \in {"link", "done"} =>
    \A i \in 1 .. Len(insts) - 1 :
      idx_to_block[i] # idx_to_block[i + 1] <=> Branching(i) \/ \E j \in Indices : i + 1 \in Goes(j)

Count(x, s) == Cardinality({k \in DOMAIN s : s[k] = x})

(* When the graph is returned, a block is as often a parent of another as  *)
(* that one is a child of it; the blocks of top_nodes are those without a  *)
(* parent.                                                                 *)
LinksAreMutual ==
  pc = "done" =>
    \A a, b \in DOMAIN nodelist :
      /\ Count(b, node_children[a]) = Count(a, node_parents[b])
      /\ Count(a, top_nodes) = IF node_parents[a] = <<>> THEN 1 ELSE 0

(* The last instruction of a block goes on with the first instruction of   *)
(* each child, and of no other block: with the targets of its branch, or   *)
(* with the next one.                                                      *)
ChildrenContinue ==
  pc = "done" =>
    \A b \in DOMAIN nodelist :
      LET i == Final(nodelist[b]) IN
        {nodelist[node_children[b][k]].start_inst : k \in DOMAIN node_children[b]}
          = IF Branching(i) THEN Goes(i) ELSE {i + 1} \cap Indices
=============================================================================
