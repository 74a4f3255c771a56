---------------------------- MODULE DisasmProofs ----------------------------
(***************************************************************************)
(* Proofs about the disassembly loops under example/: the recursion of     *)
(* x86_disasm_forward and what it shows, for buffers of any length and     *)
(* instructions of any kind, and the blocks cs.c allocates and the         *)
(* instructions it finds, for every sequence of calls.                     *)
(***************************************************************************)
EXTENDS DisasmForward, CsDisasm, Induction, SequenceTheorems

(* Recursive disassembly: DisasmForward.                                   *)
Addresses == buf_rva .. buf_rva + buf_len - 1

(* The jump whose destination is looked for lies in the buffer.            *)
Pending == Running /\ Frame.at = "dest" => Frame.addr \in Addresses

(* Every activation but the innermost has put its jump on the list.        *)
Owing == Depth <= Cardinality(rva_list \cap Addresses) + 1

ForwardInv == ForwardTypeOK /\ Pending /\ Owing

-----------------------------------------------------------------------------
(* What is decoded is an instruction, and one that decodes is in the       *)
(* buffer.                                                                 *)
LEMMA Decoding ==
  ASSUME buf \in Seq(Insns), NEW offset \in Nat
  PROVE  /\ x86_disasm(offset) \in Insns \cup {Invalid}
         /\ x86_disasm(offset) # Invalid => offset \in Offsets /\ x86_disasm(offset).size \in Nat \ {0}
         /\ Bytes(x86_disasm(offset)) \in Nat
         /\ follow_insn_dest(x86_disasm(offset)) => x86_disasm(offset) # Invalid
<1> DEFINE insn == buf[offset + 1]
<1>1. CASE x86_disasm(offset) = Invalid
  BY <1>1 DEF Invalid, Bytes, follow_insn_dest
<1>2. CASE x86_disasm(offset) # Invalid
  <2> DEFINE fails == \/ offset >= buf_len
                      \/ buf[offset + 1].type = "insn_invalid"
                      \/ offset + buf[offset + 1].size > buf_len
  <2>6. x86_disasm(offset) = IF fails THEN Invalid ELSE insn
    BY Zenon DEF x86_disasm
  <2>7. ~fails
    BY ONLY <2>6, <1>2, Zenon
  <2>8. buf_len \in Nat
    BY DEF buf_len
  <2>9. x86_disasm(offset) = insn
    BY ONLY <2>6, <2>7, Zenon
  <2>1. offset < buf_len /\ x86_disasm(offset) = insn
    <3>1. ~(offset >= buf_len)
      BY <2>7
    <3> QED
      BY ONLY <3>1, <2>8, <2>9, offset \in Nat
  <2>2. offset + 1 \in 1 .. Len(buf)
    BY <2>1 DEF buf_len
  <2>3. insn \in Insns
    BY <2>2
  <2>4. insn.size \in Nat \ {0}
    BY <2>3, InsnsAssumption DEF InsnsAssumption
  <2>5. offset \in Offsets
    BY <2>1 DEF Offsets, buf_len
  <2> QED
    BY <2>1, <2>3, <2>4, <2>5, <1>2 DEF Bytes
<1> QED
  BY <1>1, <1>2

(* Only the buffer's addresses count, of which there are finitely many.    *)
LEMMA Counting ==
  ASSUME buf \in Seq(Insns), buf_rva \in Nat, NEW S
  PROVE  /\ IsFiniteSet(S \cap Addresses)
         /\ Cardinality(S \cap Addresses) \in Nat
         /\ Cardinality(S \cap Addresses) <= buf_len
<1>1. buf_len \in Nat
  BY DEF buf_len
<1>2. IsFiniteSet(Addresses) /\ Cardinality(Addresses) = buf_len
  BY <1>1, FS_Interval DEF Addresses
<1> HIDE DEF Addresses
<1>3. S \cap Addresses \subseteq Addresses
  OBVIOUS
<1> QED
  BY <1>1, <1>2, <1>3, FS_Subset, FS_CardinalityType

(* A new address on the list makes room for one more activation.           *)
LEMMA OneMore ==
  ASSUME buf \in Seq(Insns), buf_rva \in Nat, NEW S, NEW a \in Addresses, a \notin S
  PROVE  Cardinality((S \cup {a}) \cap Addresses) = Cardinality(S \cap Addresses) + 1
<1>1. IsFiniteSet(S \cap Addresses)
  BY Counting
<1> HIDE DEF Addresses
<1>2. (S \cup {a}) \cap Addresses = (S \cap Addresses) \cup {a}
  OBVIOUS
<1>3. a \notin S \cap Addresses
  OBVIOUS
<1> QED
  BY <1>1, <1>2, <1>3, FS_AddElement

LEMMA Buffer == ASSUME ForwardTypeOK PROVE buf \in Seq(Insns) /\ buf_rva \in Nat
BY BuffersAssumption, BasesAssumption DEF ForwardTypeOK, BuffersAssumption, BasesAssumption

LEMMA InnermostTyped ==
  ASSUME ForwardTypeOK, Running
  PROVE  Depth \in Nat \ {0} /\ Frame \in Activations
BY DEF ForwardTypeOK, Running, Depth, Frame

LEMMA Replaced ==
  ASSUME ForwardTypeOK, Running, NEW fr \in Activations,
         frames' = [frames EXCEPT ![Depth] = fr]
  PROVE  frames' \in Seq(Activations) /\ Running' /\ Depth' = Depth /\ Frame' = fr
BY InnermostTyped DEF ForwardTypeOK, Running, Depth, Frame

LEMMA New ==
  ASSUME NEW offset \in Nat
  PROVE  NewActivation(offset) \in Activations
BY DEF NewActivation, Activations, Invalid

-----------------------------------------------------------------------------
LEMMA ForwardStart == ForwardInit => ForwardInv
<1> SUFFICES ASSUME ForwardInit PROVE ForwardInv
  OBVIOUS
<1>1. buf \in Seq(Insns) /\ buf_rva \in Nat
  BY BuffersAssumption, BasesAssumption DEF ForwardInit, BuffersAssumption, BasesAssumption
<1>2. entry \in Nat
  BY <1>1 DEF ForwardInit, buf_len
<1>3. frames \in Seq(Activations) /\ Depth = 1 /\ Frame.at = "loop"
  BY <1>2, New DEF ForwardInit, Depth, Frame, NewActivation
<1>4. ForwardTypeOK
  BY <1>3 DEF ForwardTypeOK, ForwardInit
<1>5. Cardinality(rva_list \cap Addresses) \in Nat
  BY <1>1, Counting
<1> QED
  BY <1>3, <1>4, <1>5 DEF ForwardInv, Pending, Owing

LEMMA DisassembleInv == ForwardInv /\ Disassemble => ForwardInv'
<1> SUFFICES ASSUME ForwardInv, Disassemble PROVE ForwardInv'
  OBVIOUS
<1> USE DEF ForwardInv
<1>1. buf \in Seq(Insns) /\ buf_rva \in Nat
  BY Buffer
<1> DEFINE offset == Frame.offset + Frame.bytes
           insn   == x86_disasm(offset)
           fr     == [Frame EXCEPT !.bytes = @ + Bytes(insn),
                              !.count = IF insn.size = 0 THEN @ ELSE @ + 1,
                              !.insn = insn, !.addr = buf_rva + offset,
                              !.at = IF follow_insn_dest(insn) THEN "dest" ELSE "next"]
<1>2. Frame \in Activations /\ Running
  BY InnermostTyped DEF Disassemble
<1>3. offset \in Nat
  BY <1>2 DEF Activations
<1>4. /\ insn \in Insns \cup {Invalid}
      /\ insn # Invalid => offset \in Offsets /\ insn.size \in Nat \ {0}
      /\ Bytes(insn) \in Nat
      /\ follow_insn_dest(insn) => insn # Invalid
  BY <1>1, <1>3, Decoding
<1>5. shown' = (IF insn.size = 0 THEN shown ELSE Append(shown, offset)) /\ frames' = [frames EXCEPT ![Depth] = fr]
  BY DEF Disassemble, Now
<1>6. UNCHANGED <<buf, buf_rva, entry, rva_list, total>>
  BY DEF Disassemble
<1>7. fr \in Activations /\ fr.addr = buf_rva + offset /\ (fr.at = "dest" => follow_insn_dest(insn))
  <2> DEFINE bytes == Frame.bytes + Bytes(insn)
             count == IF insn.size = 0 THEN Frame.count ELSE Frame.count + 1
             point == IF follow_insn_dest(insn) THEN "dest" ELSE "next"
  <2>1. bytes \in Nat /\ count \in Nat
    <3>1. Frame.bytes \in Nat /\ Frame.count \in Nat /\ Bytes(insn) \in Nat
      BY <1>2, <1>4 DEF Activations
    <3> HIDE DEF insn
    <3> QED
      BY ONLY <3>1
  <2>2. point \in {"loop", "dest", "call", "next"} /\ (point = "dest" => follow_insn_dest(insn))
    OBVIOUS
  <2>3. fr = [Frame EXCEPT !.bytes = bytes, !.count = count, !.insn = insn,
                           !.addr = buf_rva + offset, !.at = point]
    BY Zenon
  <2>4. buf_rva + offset \in Nat
    BY <1>1, <1>3
  <2>5. insn \in Insns \cup {Invalid}
    BY <1>4
  <2> HIDE DEF fr, bytes, count, point, insn, offset
  <2> QED
    BY ONLY <1>2, <2>1, <2>2, <2>3, <2>4, <2>5 DEF Activations
<1>8. shown' \in Seq(Offsets)
  <2>1. CASE insn = Invalid
    BY <2>1, <1>5 DEF Invalid, ForwardTypeOK
  <2>2. CASE insn # Invalid
    BY <2>2, <1>4, <1>5 DEF ForwardTypeOK
  <2> QED
    BY <2>1, <2>2
<1> HIDE DEF fr, insn, offset
<1>9. frames' \in Seq(Activations) /\ Depth' = Depth /\ Frame' = fr
  BY <1>2, <1>5, <1>7, Replaced
<1>10. ForwardTypeOK'
  BY <1>6, <1>8, <1>9 DEF ForwardTypeOK, Offsets, buf_len, Activations, Invalid
<1>11. Pending'
  <2> SUFFICES ASSUME fr.at = "dest" PROVE buf_rva + offset \in Addresses
    BY <1>6, <1>7, <1>9 DEF Pending, Addresses, buf_len
  <2>1. offset \in Offsets
    BY <1>4, <1>7
  <2> QED
    BY <2>1, <1>1 DEF Offsets, Addresses, buf_len
<1>12. Owing'
  BY <1>6, <1>9 DEF Owing, Addresses, buf_len
<1> QED
  BY <1>10, <1>11, <1>12

LEMMA FollowInv == ForwardInv /\ Follow => ForwardInv'
<1> SUFFICES ASSUME ForwardInv, Follow PROVE ForwardInv'
  OBVIOUS
<1> USE DEF ForwardInv
<1>1. buf \in Seq(Insns) /\ buf_rva \in Nat
  BY Buffer
<1>2. Frame \in Activations /\ Running /\ Depth \in Nat \ {0}
  BY InnermostTyped DEF Follow
<1> DEFINE dest  == Frame.insn.dest
           waits == [Frame EXCEPT !.at = "call"]
<1>3. dest \in Nat
  BY <1>1 DEF Follow, Offsets, buf_len
<1>4. Frame.addr \in Addresses /\ Frame.addr \notin rva_list /\ Frame.addr \in Nat
  BY <1>2 DEF Pending, Follow, Resolves, Known, Activations
<1>5. waits \in Activations
  BY <1>2 DEF Activations
<1>6. frames' = Append([frames EXCEPT ![Depth] = waits], NewActivation(dest))
  BY <1>2 DEF Follow, Depth, Frame, ForwardTypeOK
<1>7. NewActivation(dest) \in Activations /\ NewActivation(dest).at = "loop"
  BY <1>3, New DEF NewActivation
<1> HIDE DEF waits, dest
<1>8. frames' \in Seq(Activations) /\ Depth' = Depth + 1 /\ Frame' = NewActivation(dest)
  BY <1>2, <1>5, <1>6, <1>7 DEF ForwardTypeOK, Depth, Frame
<1>9. rva_list' = rva_list \cup {Frame.addr} /\ UNCHANGED <<buf, buf_rva, entry, shown, total>>
  BY DEF Follow
<1>10. ForwardTypeOK'
  BY <1>4, <1>8, <1>9 DEF ForwardTypeOK, Offsets, buf_len, Activations, Invalid
<1>11. Pending'
  BY <1>7, <1>8 DEF Pending
<1>12. Owing'
  <2>1. Cardinality(rva_list' \cap Addresses) = Cardinality(rva_list \cap Addresses) + 1
    BY <1>1, <1>4, <1>9, OneMore
  <2>2. Cardinality(rva_list \cap Addresses) \in Nat
    BY <1>1, Counting
  <2>3. Addresses' = Addresses
    BY <1>9 DEF Addresses, buf_len
  <2> QED
    BY <2>1, <2>2, <2>3, <1>2, <1>8 DEF Owing
<1> QED
  BY <1>10, <1>11, <1>12

(* The list only grows, and the depth does not.                            *)
LEMMA StillOwing ==
  ASSUME ForwardInv, UNCHANGED <<buf, buf_rva>>, rva_list \subseteq rva_list',
         Depth \in Nat, Depth' \in Nat, Depth' <= Depth
  PROVE  Owing'
<1>1. buf \in Seq(Insns) /\ buf_rva \in Nat /\ Addresses' = Addresses
  BY Buffer DEF ForwardInv, Addresses, buf_len
<1>2. /\ IsFiniteSet(rva_list' \cap Addresses)
      /\ Cardinality(rva_list \cap Addresses) \in Nat
      /\ Cardinality(rva_list' \cap Addresses) \in Nat
  BY <1>1, Counting
<1>3. rva_list \cap Addresses \subseteq rva_list' \cap Addresses
  OBVIOUS
<1>4. Cardinality(rva_list \cap Addresses) <= Cardinality(rva_list' \cap Addresses)
  BY <1>2, <1>3, FS_Subset
<1> QED
  BY <1>1, <1>2, <1>4 DEF ForwardInv, Owing

LEMMA IgnoreInv == ForwardInv /\ Ignore => ForwardInv'
<1> SUFFICES ASSUME ForwardInv, Ignore PROVE ForwardInv'
  OBVIOUS
<1>1. Frame \in Activations /\ Running /\ Depth \in Nat \ {0} /\ ForwardTypeOK
  BY InnermostTyped DEF Ignore, ForwardInv
<1> DEFINE fr == [Frame EXCEPT !.at = "next"]
<1>2. fr \in Activations /\ fr.at = "next" /\ Frame.addr \in Nat
  BY <1>1 DEF Activations
<1>3. frames' = [frames EXCEPT ![Depth] = fr]
  BY <1>1 DEF Ignore, Frame, Depth, ForwardTypeOK
<1> HIDE DEF fr
<1>4. frames' \in Seq(Activations) /\ Depth' = Depth /\ Frame' = fr
  BY <1>1, <1>2, <1>3, Replaced
<1>5. rva_list' = rva_list \cup {Frame.addr} /\ UNCHANGED <<buf, buf_rva, entry, shown, total>>
  BY DEF Ignore
<1>6. ForwardTypeOK'
  BY <1>1, <1>2, <1>4, <1>5 DEF ForwardTypeOK, Offsets, buf_len, Activations, Invalid
<1>7. Pending'
  BY <1>2, <1>4 DEF Pending
<1> QED
  BY <1>1, <1>4, <1>5, <1>6, <1>7, StillOwing DEF ForwardInv

LEMMA ContinueInv == ForwardInv /\ Continue => ForwardInv'
<1> SUFFICES ASSUME ForwardInv, Continue PROVE ForwardInv'
  OBVIOUS
<1>1. Frame \in Activations /\ Running /\ Depth \in Nat \ {0} /\ ForwardTypeOK
  BY InnermostTyped DEF Continue, ForwardInv
<1> DEFINE fr == [Frame EXCEPT !.cont = ~insn_doesnt_return(Frame.insn), !.at = "loop"]
<1>2. fr \in Activations /\ fr.at = "loop"
  BY <1>1 DEF Activations, insn_doesnt_return
<1>3. frames' = [frames EXCEPT ![Depth] = fr] /\ UNCHANGED <<buf, buf_rva, entry, rva_list, shown, total>>
  BY DEF Continue, Now
<1> HIDE DEF fr
<1>4. frames' \in Seq(Activations) /\ Depth' = Depth /\ Frame' = fr
  BY <1>1, <1>2, <1>3, Replaced
<1>5. ForwardTypeOK'
  BY <1>1, <1>3, <1>4 DEF ForwardTypeOK, Offsets, buf_len, Activations, Invalid
<1>6. Pending'
  BY <1>2, <1>4 DEF Pending
<1> QED
  BY <1>1, <1>3, <1>4, <1>5, <1>6, StillOwing DEF ForwardInv

LEMMA ReturnCountInv == ForwardInv /\ ReturnCount => ForwardInv'
<1> SUFFICES ASSUME ForwardInv, ReturnCount PROVE ForwardInv'
  OBVIOUS
<1>1. ForwardTypeOK /\ Depth \in Nat \ {0, 1} /\ frames \in Seq(Activations)
  BY DEF ReturnCount, ForwardInv, ForwardTypeOK, Depth
<1> DEFINE back == SubSeq(frames, 1, Depth - 1)
           fr   == [back[Depth - 1] EXCEPT !.count = @ + Frame.count, !.at = "next"]
<1>2. back \in Seq(Activations) /\ Len(back) = Depth - 1 /\ Frame \in Activations
  <2> DEFINE n == Len(frames)
  <2>1. n \in Nat \ {0, 1} /\ Depth = n /\ Frame = frames[n]
    BY <1>1 DEF Depth, Frame
  <2>2. SubSeq(frames, 1, n - 1) \in Seq(Activations) /\ Len(SubSeq(frames, 1, n - 1)) = n - 1
    BY ONLY <1>1, <2>1
  <2>3. frames[n] \in Activations
    BY ONLY <1>1, <2>1
  <2> QED
    BY ONLY <2>1, <2>2, <2>3
<1>3. back[Depth - 1] \in Activations
  BY <1>1, <1>2
<1>4. frames' = [back EXCEPT ![Depth - 1] = fr]
  BY <1>1, <1>2 DEF ReturnCount
<1> HIDE DEF back
<1>5. fr \in Activations /\ fr.at = "next"
  <2> DEFINE above == back[Depth - 1]
             count == above.count + Frame.count
  <2>1. count \in Nat
    BY <1>2, <1>3 DEF Activations
  <2>2. fr = [above EXCEPT !.count = count, !.at = "next"]
    BY Zenon
  <2> HIDE DEF fr, above, count
  <2>3. above \in Activations
    BY <1>3 DEF above
  <2> QED
    BY ONLY <2>1, <2>2, <2>3 DEF Activations
<1> HIDE DEF fr
<1>6. frames' \in Seq(Activations) /\ Depth' = Depth - 1 /\ Frame' = fr
  BY <1>1, <1>2, <1>4, <1>5 DEF Depth, Frame
<1>7. UNCHANGED <<buf, buf_rva, entry, rva_list, shown, total>>
  BY DEF ReturnCount
<1>8. ForwardTypeOK'
  BY <1>1, <1>6, <1>7 DEF ForwardTypeOK, Offsets, buf_len, Activations, Invalid
<1>9. Pending'
  BY <1>5, <1>6 DEF Pending
<1> QED
  BY <1>1, <1>6, <1>7, <1>8, <1>9, StillOwing DEF ForwardInv

LEMMA ReturnTotalInv == ForwardInv /\ ReturnTotal => ForwardInv'
<1> SUFFICES ASSUME ForwardInv, ReturnTotal PROVE ForwardInv'
  OBVIOUS
<1>1. ForwardTypeOK /\ Depth = 1 /\ Running /\ Frame \in Activations
  BY InnermostTyped DEF ReturnTotal, ForwardInv, Running, Depth
<1>2. frames' = <<>> /\ total' = Frame.count /\ UNCHANGED <<buf, buf_rva, entry, rva_list, shown>>
  BY DEF ReturnTotal
<1>3. total' \in Nat
  BY <1>1, <1>2 DEF Activations
<1>4. ForwardTypeOK'
  BY <1>1, <1>2, <1>3 DEF ForwardTypeOK, Offsets, buf_len, Activations, Invalid
<1>5. Pending' /\ Depth' = 0
  BY <1>2 DEF Pending, Running, Depth
<1> QED
  BY <1>1, <1>2, <1>4, <1>5, StillOwing DEF ForwardInv

LEMMA StutterInv == ForwardInv /\ UNCHANGED forward_vars => ForwardInv'
BY DEF ForwardInv, forward_vars, ForwardTypeOK, Pending, Owing, Running, Frame, Depth, Addresses, Offsets,
       buf_len, Activations, Invalid

LEMMA ForwardStep == ForwardInv /\ [ForwardNext]_forward_vars => ForwardInv'
BY DisassembleInv, FollowInv, IgnoreInv, ContinueInv, ReturnCountInv, ReturnTotalInv, StutterInv
   DEF ForwardNext, ForwardStopped

-----------------------------------------------------------------------------
(* Every variable of x86_disasm_forward keeps its type, and the callback   *)
(* is given only instructions in the buffer.                               *)
THEOREM ForwardTypeCorrect == ForwardSpec => []ForwardTypeOK
<1>1. ForwardInv => ForwardTypeOK
  BY DEF ForwardInv
<1> QED
  BY ForwardStart, ForwardStep, <1>1, PTL DEF ForwardSpec

(* Whatever loops the program has, the recursion is no deeper than the     *)
(* buffer has bytes, plus one.                                             *)
THEOREM RecursionIsBounded == ForwardSpec => []StackBounded
<1>1. ForwardInv => StackBounded
  <2> SUFFICES ASSUME ForwardInv PROVE StackBounded
    OBVIOUS
  <2>1. buf \in Seq(Insns) /\ buf_rva \in Nat
    BY Buffer DEF ForwardInv
  <2>2. /\ Cardinality(rva_list \cap Addresses) \in Nat
        /\ Cardinality(rva_list \cap Addresses) <= buf_len
    BY <2>1, Counting
  <2>3. buf_len \in Nat /\ Depth \in Nat
    BY <2>1 DEF buf_len, Depth, ForwardInv, ForwardTypeOK
  <2> QED
    BY <2>2, <2>3 DEF ForwardInv, Owing, StackBounded
<1> QED
  BY ForwardStart, ForwardStep, <1>1, PTL DEF ForwardSpec

-----------------------------------------------------------------------------
(* What execution can reach, for an entry point in the buffer.             *)
Reached(o) == entry < buf_len /\ OnTheFlow(o)

FallsTo(o) == IF x86_disasm(o).type \in {"insn_jmp", "insn_return"} THEN {}
              ELSE {o + Bytes(x86_disasm(o))}
Jumps(o) == /\ follow_insn_dest(x86_disasm(o)) /\ x86_disasm(o).dest # UNRESOLVED
            /\ x86_disasm(o).dest \in Offsets

(* V are the offsets that were disassembled, A those that are still to be, *)
(* S those shown, L the resolver's list and P the jump that is looked at.  *)
Covers(V, A, S, L, P) ==
  /\ V \subseteq Offsets /\ P \subseteq V
  /\ \A o \in V \cup A : o \in Offsets => Reached(o)
  /\ S = {o \in V : x86_disasm(o) # Invalid}
  /\ entry \in Offsets => entry \in V \cup A
  /\ \A o \in V : \A d \in FallsTo(o) : d \in Offsets => d \in V \cup A
  /\ 0 \in L /\ \A a \in L : a # 0 => \E o \in V : a = buf_rva + o
  /\ \A o \in V : follow_insn_dest(x86_disasm(o)) => buf_rva + o \in L \/ o \in P
  /\ \A o \in V : Jumps(o) /\ buf_rva + o \in L \ {0} => x86_disasm(o).dest \in V \cup A

LEMMA FlowsFrom ==
  /\ \A o : \A d \in FallsTo(o) : d \in FlowsTo(o)
  /\ \A o : Jumps(o) /\ buf_rva + o # 0 => x86_disasm(o).dest \in FlowsTo(o)
  /\ \A o : \A d \in FlowsTo(o) : d \in Offsets =>
       d \in FallsTo(o) \/ (Jumps(o) /\ buf_rva + o # 0 /\ d = x86_disasm(o).dest)
BY DEF FallsTo, FlowsTo, Jumps

LEMMA ReachedOn ==
  ASSUME NEW o \in Offsets, Reached(o), NEW d \in FlowsTo(o), d \in Offsets
  PROVE  Reached(d)
<1> SUFFICES ASSUME NEW S \in SUBSET Offsets, entry \in S,
                    \A x \in S : FlowsTo(x) \cap Offsets \subseteq S
             PROVE  d \in S
  BY DEF Reached, OnTheFlow
<1>1. o \in S
  BY DEF Reached, OnTheFlow
<1> QED
  BY <1>1

LEMMA FlowStarts ==
  ASSUME ForwardTypeOK
  PROVE  Covers({}, {entry}, {}, {0}, {})
<1>1. entry \in Offsets => Reached(entry)
  <2>1. buf_len \in Nat
    BY Buffer DEF buf_len
  <2> QED
    BY <2>1 DEF Reached, OnTheFlow, Offsets
<1> QED
  BY <1>1 DEF Covers

LEMMA FlowVisits ==
  ASSUME ForwardTypeOK, NEW V, NEW B, NEW o \in Nat, NEW S, NEW L, Covers(V, B \cup {o}, S, L, {})
  PROVE  \E W : Covers(W, B \cup FallsTo(o),
                       IF x86_disasm(o) = Invalid THEN S ELSE S \cup {o}, L,
                       IF follow_insn_dest(x86_disasm(o)) THEN {o} ELSE {})
<1> DEFINE P == IF follow_insn_dest(x86_disasm(o)) THEN {o} ELSE {}
           T == IF x86_disasm(o) = Invalid THEN S ELSE S \cup {o}
           A == B \cup FallsTo(o)
<1>1. /\ x86_disasm(o) # Invalid => o \in Offsets
      /\ follow_insn_dest(x86_disasm(o)) => x86_disasm(o) # Invalid
  BY Buffer, Decoding
<1>2. CASE o \in Offsets
  <2> DEFINE W == V \cup {o}
  <2>1. Reached(o)
    BY <1>2 DEF Covers
  <2>2. W \subseteq Offsets /\ P \subseteq W
    BY <1>2 DEF Covers
  <2>3. \A p \in W \cup A : p \in Offsets => Reached(p)
    <3> SUFFICES ASSUME NEW p \in W \cup A, p \in Offsets PROVE Reached(p)
      OBVIOUS
    <3>1. CASE p \in FallsTo(o)
      BY <1>2, <2>1, <3>1, FlowsFrom, ReachedOn
    <3> QED
      BY <2>1, <3>1 DEF Covers
  <2>4. T = {p \in W : x86_disasm(p) # Invalid}
    <3>1. S = {p \in V : x86_disasm(p) # Invalid}
      BY DEF Covers
    <3> QED
      BY <3>1
  <2>5. \A p \in V \cup (B \cup {o}) : p \in W \cup A
    OBVIOUS
  <2>6. entry \in Offsets => entry \in W \cup A
    BY <2>5 DEF Covers
  <2>7. \A p \in W : \A d \in FallsTo(p) : d \in Offsets => d \in W \cup A
    BY <2>5 DEF Covers
  <2>8. 0 \in L /\ \A a \in L : a # 0 => \E p \in W : a = buf_rva + p
    BY DEF Covers
  <2>9. \A p \in W : follow_insn_dest(x86_disasm(p)) => buf_rva + p \in L \/ p \in P
    BY DEF Covers
  <2>10. \A p \in W : Jumps(p) /\ buf_rva + p \in L \ {0} => x86_disasm(p).dest \in W \cup A
    <3> SUFFICES ASSUME NEW p \in W, Jumps(p), buf_rva + p \in L, buf_rva + p # 0
                 PROVE  x86_disasm(p).dest \in W \cup A
      OBVIOUS
    <3>1. PICK q \in V : buf_rva + p = buf_rva + q
      BY DEF Covers
    <3>2. p \in Int /\ q \in Int /\ buf_rva \in Int
      BY <2>2, Buffer DEF Covers, Offsets
    <3>3. p \in V
      BY <3>1, <3>2
    <3> QED
      BY <2>5, <3>3 DEF Covers
  <2> HIDE DEF W, A, T, P
  <2>11. Covers(W, A, T, L, P)
    BY <2>2, <2>3, <2>4, <2>6, <2>7, <2>8, <2>9, <2>10 DEF Covers
  <2> QED
    BY <2>11 DEF A, T, P
<1>3. CASE o \notin Offsets
  <2>1. T = S /\ P = {} /\ x86_disasm(o) = Invalid
    BY <1>1, <1>3
  <2>2. \A d \in FallsTo(o) : d \notin Offsets
    <3>1. FallsTo(o) \subseteq {o + 1}
      BY <2>1 DEF FallsTo, Bytes, Invalid
    <3>2. o + 1 \notin Offsets
      BY <1>3, Buffer DEF Offsets, buf_len
    <3> QED
      BY <3>1, <3>2
  <2> HIDE DEF P, T
  <2>3. Covers(V, A, S, L, {})
    BY <1>3, <2>2 DEF Covers, Jumps
  <2> QED
    BY <2>1, <2>3 DEF P, T
<1> QED
  BY <1>2, <1>3

(* A destination is looked for: followed, or not.                          *)
LEMMA FlowFollows ==
  ASSUME ForwardTypeOK, NEW V, NEW A, NEW S, NEW L, NEW p, Covers(V, A, S, L, {p}),
         Jumps(p), buf_rva + p \notin L
  PROVE  Covers(V, A \cup {x86_disasm(p).dest}, S, L \cup {buf_rva + p}, {})
<1> DEFINE d == x86_disasm(p).dest
<1>1. p \in V /\ p \in Offsets /\ Reached(p) /\ buf_rva + p # 0
  BY DEF Covers
<1>2. d \in Offsets /\ Reached(d)
  BY <1>1, FlowsFrom, ReachedOn DEF Jumps
<1>3. \A o \in V : buf_rva + o = buf_rva + p => o = p
  <2>1. \A o \in V : o \in Int
    BY DEF Covers, Offsets
  <2> QED
    BY <1>1, <2>1, Buffer
<1>4. \A o \in V : Jumps(o) /\ buf_rva + o \in (L \cup {buf_rva + p}) \ {0} =>
        x86_disasm(o).dest \in V \cup (A \cup {d})
  BY <1>3 DEF Covers
<1>5. \A o \in V : follow_insn_dest(x86_disasm(o)) => buf_rva + o \in L \cup {buf_rva + p}
  BY DEF Covers
<1> HIDE DEF d
<1>6. Covers(V, A \cup {d}, S, L \cup {buf_rva + p}, {})
  BY <1>1, <1>2, <1>4, <1>5 DEF Covers, d
<1> QED
  BY <1>6 DEF d

LEMMA FlowIgnores ==
  ASSUME ForwardTypeOK, NEW V, NEW A, NEW S, NEW L, NEW p, Covers(V, A, S, L, {p}),
         ~(Jumps(p) /\ buf_rva + p \notin L)
  PROVE  Covers(V, A, S, L \cup {buf_rva + p}, {})
<1>1. p \in V
  BY DEF Covers
<1>2. \A o \in V : buf_rva + o = buf_rva + p => o = p
  <2>1. \A o \in V : o \in Int
    BY DEF Covers, Offsets
  <2> QED
    BY <1>1, <2>1, Buffer
<1>3. \A o \in V : Jumps(o) /\ buf_rva + o \in (L \cup {buf_rva + p}) \ {0} =>
        x86_disasm(o).dest \in V \cup A
  BY <1>2 DEF Covers
<1>4. \A o \in V : follow_insn_dest(x86_disasm(o)) => buf_rva + o \in L \cup {buf_rva + p}
  BY DEF Covers
<1> QED
  BY <1>1, <1>3, <1>4 DEF Covers

LEMMA FlowReturns ==
  ASSUME NEW V, NEW A, NEW B, NEW S, NEW L, NEW P, Covers(V, A, S, L, P),
         B \subseteq A, \A o \in A \ B : o \notin Offsets
  PROVE  Covers(V, B, S, L, P)
BY DEF Covers, Jumps

(* Nothing is left to be done.                                             *)
LEMMA FlowEnds ==
  ASSUME ForwardTypeOK, NEW V, NEW A, NEW S, NEW L, Covers(V, A, S, L, {}), A \cap Offsets = {}
  PROVE  S = {o \in Offsets : /\ buf[o + 1].type # "insn_invalid"
                              /\ o + buf[o + 1].size <= buf_len
                              /\ entry < buf_len /\ OnTheFlow(o)}
<1>1. \A o \in Offsets : x86_disasm(o) # Invalid <=>
        buf[o + 1].type # "insn_invalid" /\ o + buf[o + 1].size <= buf_len
  <2> SUFFICES ASSUME NEW o \in Offsets
               PROVE  x86_disasm(o) # Invalid <=>
                        buf[o + 1].type # "insn_invalid" /\ o + buf[o + 1].size <= buf_len
    OBVIOUS
  <2>1. buf \in Seq(Insns) /\ buf_len \in Nat /\ buf_len = Len(buf)
    BY Buffer DEF buf_len
  <2>2. o \in Nat /\ o < buf_len /\ o + 1 \in 1 .. Len(buf)
    BY <2>1 DEF Offsets
  <2>3. buf[o + 1] \in Insns
    BY <2>1, <2>2
  <2>4. buf[o + 1].size \in Nat \ {0}
    BY <2>3, InsnsAssumption DEF InsnsAssumption
  <2>5. buf[o + 1] # Invalid
    BY <2>4 DEF Invalid
  <2> QED
    BY <2>1, <2>2, <2>4, <2>5 DEF x86_disasm
<1>2. \A o \in V : Reached(o) /\ o \in Offsets
  BY DEF Covers
<1>3. ASSUME NEW o \in Offsets, Reached(o) PROVE o \in V
  <2>1. entry \in V
    <3>1. entry \in Offsets
      BY <1>3, Buffer DEF Reached, ForwardTypeOK, Offsets, buf_len
    <3> QED
      BY <3>1 DEF Covers
  <2>2. \A x \in V : FlowsTo(x) \cap Offsets \subseteq V
    <3> SUFFICES ASSUME NEW x \in V, NEW d \in FlowsTo(x), d \in Offsets PROVE d \in V
      OBVIOUS
    <3>1. CASE d \in FallsTo(x)
      BY <3>1 DEF Covers
    <3>2. CASE Jumps(x) /\ buf_rva + x # 0 /\ d = x86_disasm(x).dest
      <4>1. buf_rva + x \in L \ {0}
        BY <3>2 DEF Covers, Jumps
      <4> QED
        BY <3>2, <4>1 DEF Covers
    <3> QED
      BY <3>1, <3>2, FlowsFrom
  <2>3. V \in SUBSET Offsets
    BY DEF Covers
  <2> QED
    BY <1>3, <2>1, <2>2, <2>3 DEF Reached, OnTheFlow
<1>4. S = {o \in V : x86_disasm(o) # Invalid}
  BY DEF Covers
<1> QED
  BY <1>1, <1>2, <1>3, <1>4 DEF Reached

-----------------------------------------------------------------------------
(* Where an activation goes on, where all of them do, and the offset of    *)
(* the jump that is looked at.                                             *)
NextOf(fr) == IF IF fr.at = "loop" THEN fr.cont ELSE ~insn_doesnt_return(fr.insn)
              THEN {fr.offset + fr.bytes} ELSE {}
Below(fs)   == UNION {NextOf(fs[i]) : i \in 1 .. Len(fs) - 1}
AheadOf(fs) == UNION {NextOf(fs[i]) : i \in 1 .. Len(fs)}
WaitsOf(fs) == IF fs # <<>> /\ fs[Len(fs)].at = "dest" THEN {fs[Len(fs)].addr - buf_rva} ELSE {}
Seen(s)     == {s[i] : i \in 1 .. Len(s)}

(* The counts of the activations add up to n.                              *)
AddUp(fs, n) == \E acc \in [0 .. Len(fs) -> Nat] :
  acc[0] = 0 /\ acc[Len(fs)] = n /\ \A i \in 1 .. Len(fs) : acc[i] = acc[i - 1] + fs[i].count

Covered == \E V : Covers(V, AheadOf(frames), Seen(shown), rva_list, WaitsOf(frames))
Waits(fs) ==
  /\ \A i \in 1 .. Len(fs) - 1 : fs[i].at = "call"
  /\ fs # <<>> /\ fs[Len(fs)].at = "dest" =>
       \E p \in Offsets : /\ fs[Len(fs)].addr = buf_rva + p /\ fs[Len(fs)].insn = x86_disasm(p)
                          /\ follow_insn_dest(x86_disasm(p))
Counted == IF Running THEN AddUp(frames, Len(shown)) ELSE total = Len(shown)

FlowInv == ForwardInv /\ Covered /\ Waits(frames) /\ Counted

(* In gs the innermost activation of fs has become fr.                     *)
Becomes(fs, fr, gs) == gs = [fs EXCEPT ![Len(fs)] = fr]

LEMMA AheadLast ==
  ASSUME NEW fs \in Seq(Activations), fs # <<>>, NEW fr, NEW gs, Becomes(fs, fr, gs)
  PROVE  /\ AheadOf(fs) = Below(fs) \cup NextOf(fs[Len(fs)])
         /\ AheadOf(gs) = Below(fs) \cup NextOf(fr)
         /\ Len(gs) = Len(fs) /\ gs[Len(gs)] = fr /\ \A i \in 1 .. Len(fs) - 1 : gs[i] = fs[i]
<1>1. /\ Len(gs) = Len(fs) /\ Len(fs) \in Nat \ {0} /\ gs[Len(fs)] = fr
      /\ \A i \in 1 .. Len(fs) - 1 : gs[i] = fs[i]
  BY DEF Becomes
<1>2. \A i \in 1 .. Len(fs) : i \in 1 .. Len(fs) - 1 \/ i = Len(fs)
  BY ONLY <1>1
<1>3. \A i \in 1 .. Len(fs) - 1 : i \in 1 .. Len(fs)
  BY ONLY <1>1
<1>4. Len(fs) \in 1 .. Len(fs)
  BY ONLY <1>1
<1> QED
  BY <1>1, <1>2, <1>3, <1>4, Zenon DEF AheadOf, Below

LEMMA AheadMore ==
  ASSUME NEW fs \in Seq(Activations), NEW fr
  PROVE  AheadOf(Append(fs, fr)) = AheadOf(fs) \cup NextOf(fr)
<1> DEFINE gs == Append(fs, fr)
<1>1. /\ Len(gs) = Len(fs) + 1 /\ Len(fs) \in Nat /\ gs[Len(fs) + 1] = fr
      /\ \A i \in 1 .. Len(fs) : gs[i] = fs[i]
  OBVIOUS
<1>2. /\ \A i \in 1 .. Len(gs) : i \in 1 .. Len(fs) \/ i = Len(fs) + 1
      /\ \A i \in 1 .. Len(fs) : i \in 1 .. Len(gs)
      /\ Len(fs) + 1 \in 1 .. Len(gs)
  BY <1>1
<1> HIDE DEF gs
<1>3. AheadOf(gs) = AheadOf(fs) \cup NextOf(fr)
  BY <1>1, <1>2, Zenon DEF AheadOf
<1> QED
  BY <1>3 DEF gs

LEMMA Shortened ==
  ASSUME NEW T, NEW fs \in Seq(T), NEW n \in Nat, n < Len(fs)
  PROVE  /\ SubSeq(fs, 1, n) \in Seq(T) /\ Len(SubSeq(fs, 1, n)) = n
         /\ \A i \in 1 .. n : SubSeq(fs, 1, n)[i] = fs[i]
OBVIOUS

(* In gs the innermost activation of fs is gone and its caller is fr.      *)
BackIn(fs, fr, gs) == gs = [SubSeq(fs, 1, Len(fs) - 1) EXCEPT ![Len(fs) - 1] = fr]

LEMMA Shorter ==
  ASSUME NEW fs \in Seq(Activations), Len(fs) > 1, NEW fr, NEW gs, BackIn(fs, fr, gs)
  PROVE  /\ Len(fs) \in Nat \ {0, 1} /\ Len(gs) = Len(fs) - 1 /\ gs[Len(fs) - 1] = fr
         /\ \A i \in 1 .. Len(fs) - 2 : gs[i] = fs[i]
         /\ fs[Len(fs)] \in Activations /\ fs[Len(fs) - 1] \in Activations
<1> DEFINE n    == Len(fs)
           back == SubSeq(fs, 1, n - 1)
<1>1. n \in Nat \ {0, 1} /\ n = Len(fs) /\ fs \in Seq(Activations)
  <2>1. Len(fs) \in Nat
    BY ONLY fs \in Seq(Activations)
  <2>2. Len(fs) \in Nat \ {0, 1}
    <3>1. \A m \in Nat : m > 1 => m \in Nat \ {0, 1}
      OBVIOUS
    <3> QED
      BY <2>1, <3>1, Zenon
  <2> QED
    BY <2>2, Zenon
<1> HIDE DEF n
<1>2. back \in Seq(Activations) /\ Len(back) = n - 1 /\ \A i \in 1 .. n - 1 : back[i] = fs[i]
  <2>1. n - 1 \in Nat /\ n - 1 < n
    BY ONLY <1>1
  <2> QED
    BY ONLY <1>1, <2>1, Shortened
<1>3. fs[n] \in Activations /\ fs[n - 1] \in Activations
  <2>1. n \in 1 .. Len(fs) /\ n - 1 \in 1 .. Len(fs)
    BY ONLY <1>1
  <2>2. \A i \in 1 .. Len(fs) : fs[i] \in Activations
    BY ONLY <1>1
  <2> QED
    BY ONLY <2>1, <2>2
<1>4. gs = [back EXCEPT ![n - 1] = fr]
  BY DEF n, BackIn
<1> HIDE DEF back
<1>5. Len(gs) = n - 1 /\ gs[n - 1] = fr /\ \A i \in 1 .. n - 2 : gs[i] = back[i]
  BY ONLY <1>1, <1>2, <1>4
<1>6. \A i \in 1 .. n - 2 : gs[i] = fs[i]
  BY ONLY <1>1, <1>2, <1>5
<1> QED
  BY <1>1, <1>3, <1>5, <1>6 DEF n

LEMMA AheadLess ==
  ASSUME NEW fs \in Seq(Activations), Len(fs) > 1, NEW fr, NEW gs, BackIn(fs, fr, gs),
         NextOf(fr) = NextOf(fs[Len(fs) - 1])
  PROVE  /\ AheadOf(gs) = Below(fs) /\ Len(gs) = Len(fs) - 1 /\ gs[Len(gs)] = fr
         /\ \A i \in 1 .. Len(gs) - 1 : gs[i] = fs[i]
<1>1. /\ Len(fs) \in Nat \ {0, 1} /\ Len(gs) = Len(fs) - 1 /\ gs[Len(fs) - 1] = fr
      /\ \A i \in 1 .. Len(fs) - 2 : gs[i] = fs[i]
  BY Shorter
<1>2. /\ Len(gs) = Len(fs) - 1 /\ gs[Len(gs)] = fr
      /\ \A i \in 1 .. Len(gs) - 1 : gs[i] = fs[i]
  BY ONLY <1>1
<1>3. \A i \in 1 .. Len(fs) - 1 : NextOf(gs[i]) = NextOf(fs[i])
  <2> SUFFICES ASSUME NEW i \in 1 .. Len(fs) - 1 PROVE NextOf(gs[i]) = NextOf(fs[i])
    OBVIOUS
  <2>1. i \in 1 .. Len(gs) - 1 \/ i = Len(gs)
    BY ONLY <1>1, <1>2, i \in 1 .. Len(fs) - 1
  <2> QED
    BY <1>2, <2>1
<1> QED
  BY <1>2, <1>3 DEF AheadOf, Below

LEMMA CountTyped == \A fr \in Activations : fr.count \in Nat
BY DEF Activations

LEMMA AddOne ==
  ASSUME NEW fs \in Seq(Activations), fs # <<>>, NEW n \in Nat, AddUp(fs, n), NEW k \in Nat,
         NEW fr, fr.count = fs[Len(fs)].count + k, NEW gs, gs = [fs EXCEPT ![Len(fs)] = fr]
  PROVE  AddUp(gs, n + k)
<1> DEFINE l == Len(fs)
<1>1. PICK acc \in [0 .. l -> Nat] :
        acc[0] = 0 /\ acc[l] = n /\ \A i \in 1 .. l : acc[i] = acc[i - 1] + fs[i].count
  BY DEF AddUp
<1>2. l \in Nat \ {0} /\ Len(gs) = l /\ gs[l] = fr /\ \A i \in 1 .. l : i # l => gs[i] = fs[i]
      /\ fs[l] \in Activations
  OBVIOUS
<1> HIDE DEF l
<1>3. fs[l].count \in Nat
  BY <1>2, CountTyped
<1> DEFINE acc2 == [acc EXCEPT ![l] = n + k]
<1>4. acc2 \in [0 .. l -> Nat] /\ acc2[0] = 0 /\ acc2[l] = n + k
      /\ \A i \in 0 .. l : i # l => acc2[i] = acc[i]
  BY <1>1, <1>2
<1>5. ASSUME NEW i \in 1 .. l PROVE acc2[i] = acc2[i - 1] + gs[i].count
  <2>1. i - 1 \in 0 .. l /\ i - 1 # l /\ i \in 0 .. l
    BY <1>2
  <2>2. acc2[i - 1] = acc[i - 1] /\ acc[i - 1] \in Nat
    BY <1>1, <1>4, <2>1
  <2>3. CASE i = l
    <3>1. acc[l] = acc[l - 1] + fs[l].count /\ acc[l - 1] \in Nat
      BY <1>1, <1>2, <2>2, <2>3
    <3>2. gs[l].count = fs[l].count + k
      BY <1>2 DEF l
    <3> HIDE DEF acc2
    <3> QED
      BY ONLY <1>1, <1>3, <1>4, <2>2, <2>3, <3>1, <3>2, SMTT(30)
  <2>4. CASE i # l
    BY <1>1, <1>2, <1>4, <2>1, <2>2, <2>4
  <2> QED
    BY <2>3, <2>4
<1> HIDE DEF acc2
<1> QED
  BY <1>2, <1>4, <1>5 DEF AddUp

LEMMA AddNone ==
  ASSUME NEW fs \in Seq(Activations), NEW n \in Nat, AddUp(fs, n), NEW fr, fr.count = 0
  PROVE  AddUp(Append(fs, fr), n)
<1> DEFINE l == Len(fs)
           gs == Append(fs, fr)
<1>1. PICK acc \in [0 .. l -> Nat] :
        acc[0] = 0 /\ acc[l] = n /\ \A i \in 1 .. l : acc[i] = acc[i - 1] + fs[i].count
  BY DEF AddUp
<1>2. l \in Nat /\ Len(gs) = l + 1 /\ gs[l + 1] = fr /\ \A i \in 1 .. l : gs[i] = fs[i]
  OBVIOUS
<1> DEFINE acc2 == [i \in 0 .. l + 1 |-> IF i = l + 1 THEN n ELSE acc[i]]
<1> HIDE DEF l, gs
<1>3. acc2 \in [0 .. l + 1 -> Nat] /\ acc2[0] = 0 /\ acc2[l + 1] = n
      /\ \A i \in 0 .. l : acc2[i] = acc[i]
  BY <1>1, <1>2
<1>4. ASSUME NEW i \in 1 .. l + 1 PROVE acc2[i] = acc2[i - 1] + gs[i].count
  <2>1. i - 1 \in 0 .. l
    BY <1>2
  <2>2. acc2[i - 1] = acc[i - 1] /\ acc[i - 1] \in Nat
    BY <1>1, <1>3, <2>1
  <2>3. CASE i = l + 1
    BY <1>1, <1>2, <1>3, <2>2, <2>3
  <2>4. CASE i \in 1 .. l
    <3>1. i \in 0 .. l
      BY ONLY <1>2, <2>4
    <3>2. acc2[i] = acc[i] /\ gs[i] = fs[i] /\ acc[i] = acc[i - 1] + fs[i].count
      BY <1>1, <1>2, <1>3, <2>4, <3>1
    <3> QED
      BY ONLY <2>2, <3>2
  <2> QED
    BY <1>2, <2>3, <2>4
<1> HIDE DEF acc2
<1>5. AddUp(gs, n)
  BY ONLY <1>2, <1>3, <1>4, Zenon DEF AddUp
<1> QED
  BY <1>5 DEF gs

LEMMA AddBack ==
  ASSUME NEW fs \in Seq(Activations), Len(fs) > 1, NEW n \in Nat, AddUp(fs, n),
         NEW fr, fr.count = fs[Len(fs) - 1].count + fs[Len(fs)].count,
         NEW gs, BackIn(fs, fr, gs)
  PROVE  AddUp(gs, n)
<1> DEFINE l == Len(fs)
<1>1. PICK acc \in [0 .. l -> Nat] :
        acc[0] = 0 /\ acc[l] = n /\ \A i \in 1 .. l : acc[i] = acc[i - 1] + fs[i].count
  BY DEF AddUp
<1>2. /\ l \in Nat \ {0, 1} /\ Len(gs) = l - 1 /\ gs[l - 1] = fr
      /\ \A i \in 1 .. l - 2 : gs[i] = fs[i]
      /\ fs[l] \in Activations /\ fs[l - 1] \in Activations
  BY Shorter
<1>3. fs[l].count \in Nat /\ fs[l - 1].count \in Nat
  BY <1>2, CountTyped
<1> DEFINE acc2 == [i \in 0 .. l - 1 |-> IF i = l - 1 THEN n ELSE acc[i]]
<1>4. fr.count = fs[l - 1].count + fs[l].count
  OBVIOUS
<1> HIDE DEF l
<1>5. acc2 \in [0 .. l - 1 -> Nat] /\ acc2[0] = 0 /\ acc2[l - 1] = n
      /\ \A i \in 0 .. l - 2 : acc2[i] = acc[i]
  <2>1. n \in Nat /\ acc \in [0 .. l -> Nat] /\ acc[0] = 0 /\ l \in Nat \ {0, 1}
    BY <1>1, <1>2
  <2> QED
    BY ONLY <2>1
<1>6. ASSUME NEW i \in 1 .. l - 1 PROVE acc2[i] = acc2[i - 1] + gs[i].count
  <2>1. i - 1 \in 0 .. l - 2 /\ i - 1 \in 0 .. l
    BY <1>2
  <2>2. acc2[i - 1] = acc[i - 1] /\ acc[i - 1] \in Nat
    <3> HIDE DEF acc2
    <3>1. acc2[i - 1] = acc[i - 1]
      BY ONLY <1>5, <2>1
    <3>2. acc[i - 1] \in Nat
      BY ONLY <2>1, acc \in [0 .. l -> Nat]
    <3> QED
      BY <3>1, <3>2
  <2>3. CASE i = l - 1
    <3>1. acc[l - 1] = acc[l - 2] + fs[l - 1].count
      <4>1. l - 1 \in 1 .. l /\ (l - 1) - 1 = l - 2
        BY <1>2
      <4> QED
        BY <1>1, <4>1
    <3>2. acc[l] = acc[l - 1] + fs[l].count
      <4>1. l \in 1 .. l
        BY <1>2
      <4> QED
        BY <1>1, <4>1
    <3>3. i - 1 = l - 2
      BY <1>2, <2>3
    <3> HIDE DEF acc2
    <3>4. acc2[i] = n /\ gs[i].count = fs[l - 1].count + fs[l].count
      BY <1>2, <1>4, <1>5, <2>3
    <3>5. acc2[i - 1] = acc[l - 2] /\ acc[l - 2] \in Nat
      BY ONLY <2>2, <3>3, Zenon
    <3>6. acc[l] = n
      BY <1>1
    <3>7. n = (acc[l - 2] + fs[l - 1].count) + fs[l].count
      BY ONLY <3>1, <3>2, <3>6, Zenon
    <3>8. \A a, b, c \in Nat : (a + b) + c = a + (b + c)
      OBVIOUS
    <3>9. (acc[l - 2] + fs[l - 1].count) + fs[l].count = acc[l - 2] + (fs[l - 1].count + fs[l].count)
      BY ONLY <1>3, <3>5, <3>8
    <3> QED
      BY ONLY <3>4, <3>5, <3>7, <3>9, Zenon
  <2>4. CASE i \in 1 .. l - 2
    <3>1. i \in 0 .. l - 2 /\ i \in 1 .. l
      BY <1>2, <2>4
    <3> QED
      BY <1>1, <1>2, <1>5, <2>2, <2>4, <3>1
  <2> QED
    BY <1>2, <2>3, <2>4
<1> HIDE DEF acc2
<1> QED
  BY ONLY <1>2, <1>5, <1>6, Zenon DEF AddUp

LEMMA AddLast ==
  ASSUME NEW fs \in Seq(Activations), Len(fs) = 1, NEW n, AddUp(fs, n)
  PROVE  fs[1].count = n
<1>1. PICK acc \in [0 .. 1 -> Nat] : acc[0] = 0 /\ acc[1] = n /\ acc[1] = acc[0] + fs[1].count
  BY DEF AddUp
<1>2. fs[1] \in Activations
  OBVIOUS
<1>3. fs[1].count \in Nat
  BY <1>2, CountTyped
<1> QED
  BY ONLY <1>1, <1>3

-----------------------------------------------------------------------------
(* What is to be shown of a step, in terms of the buffer as it is.         *)
LEMMA FlowCarried ==
  ASSUME UNCHANGED <<buf, buf_rva, entry>>,
         \E V : Covers(V, AheadOf(frames'), Seen(shown'), rva_list', WaitsOf(frames')),
         Waits(frames')
  PROVE  Covered' /\ Waits(frames)'
<1>1. buf_len' = buf_len
  BY DEF buf_len
<1>2. Offsets' = Offsets
  BY <1>1 DEF Offsets
<1>3. \A o : x86_disasm(o)' = x86_disasm(o)
  BY <1>1 DEF x86_disasm
<1>4. \A o : FlowsTo(o)' = FlowsTo(o)
  BY <1>3 DEF FlowsTo
<1>5. \A o : Reached(o)' <=> Reached(o)
  BY <1>1, <1>2, <1>4 DEF Reached, OnTheFlow
<1>6. \A o : FallsTo(o)' = FallsTo(o)
  BY <1>3 DEF FallsTo
<1>7. \A o : Jumps(o)' <=> Jumps(o)
  BY <1>2, <1>3 DEF Jumps
<1>8. WaitsOf(frames') = WaitsOf(frames)'
  BY DEF WaitsOf
<1>9. \A V : Covers(V, AheadOf(frames'), Seen(shown'), rva_list', WaitsOf(frames'))
             => Covers(V, AheadOf(frames), Seen(shown), rva_list, WaitsOf(frames))'
  BY <1>1, <1>2, <1>3, <1>5, <1>6, <1>7, <1>8, Zenon DEF Covers, AheadOf, Seen
<1>10. Waits(frames)'
  BY <1>2, <1>3 DEF Waits
<1> QED
  BY <1>9, <1>10 DEF Covered

LEMMA FlowStart == ForwardInit => FlowInv
<1> SUFFICES ASSUME ForwardInit PROVE FlowInv
  OBVIOUS
<1>1. ForwardInv
  BY ForwardStart
<1> DEFINE fr == NewActivation(entry)
<1>2. /\ fr.at = "loop" /\ fr.cont = TRUE /\ fr.offset = entry /\ fr.bytes = 0 /\ fr.count = 0
  BY DEF NewActivation
<1>3. frames = <<fr>> /\ shown = <<>> /\ rva_list = {0}
  BY DEF ForwardInit
<1> HIDE DEF fr
<1>4. Len(frames) = 1 /\ frames[1] = fr /\ Len(shown) = 0 /\ frames # <<>>
  BY <1>3
<1>5. AheadOf(frames) = {entry}
  <2>1. entry + 0 = entry
    BY <1>1, Buffer DEF ForwardInv, ForwardTypeOK, buf_len
  <2>2. NextOf(fr) = {entry}
    BY <1>2, <2>1 DEF NextOf
  <2> QED
    BY <1>4, <2>2 DEF AheadOf
<1>6. Seen(shown) = {} /\ WaitsOf(frames) = {} /\ Waits(frames)
  BY <1>2, <1>4 DEF Seen, WaitsOf, Waits
<1>7. Covered
  BY <1>1, <1>3, <1>5, <1>6, FlowStarts DEF Covered, ForwardInv
<1>8. AddUp(frames, 0)
  <2> DEFINE acc == [i \in 0 .. 1 |-> 0]
  <2>1. acc \in [0 .. 1 -> Nat] /\ acc[0] = 0 /\ acc[1] = 0 /\ acc[1] = acc[0] + frames[1].count
    BY <1>2, <1>4
  <2> HIDE DEF acc
  <2>2. \A i \in 1 .. 1 : acc[i] = acc[i - 1] + frames[i].count
    BY <2>1
  <2> QED
    BY <1>4, <2>1, <2>2 DEF AddUp
<1>9. Counted
  BY <1>4, <1>8 DEF Counted, Running
<1> QED
  BY <1>1, <1>6, <1>7, <1>9 DEF FlowInv

LEMMA FlowDisassembles == FlowInv /\ Disassemble => FlowInv'
<1> SUFFICES ASSUME FlowInv, Disassemble PROVE FlowInv'
  OBVIOUS
<1>1. /\ ForwardInv /\ ForwardInv' /\ ForwardTypeOK /\ Running /\ Waits(frames)
      /\ AddUp(frames, Len(shown)) /\ UNCHANGED <<buf, buf_rva, entry, rva_list, total>>
      /\ Frame.at = "loop" /\ Frame.cont
  BY DisassembleInv DEF FlowInv, ForwardInv, Counted, Disassemble
<1> DEFINE o    == Frame.offset + Frame.bytes
           insn == x86_disasm(o)
           fr   == [Frame EXCEPT !.bytes = @ + Bytes(insn),
                            !.count = IF insn.size = 0 THEN @ ELSE @ + 1,
                            !.insn = insn, !.addr = buf_rva + o,
                            !.at = IF follow_insn_dest(insn) THEN "dest" ELSE "next"]
           k    == IF insn.size = 0 THEN 0 ELSE 1
<1>2. Frame \in Activations /\ Depth \in Nat \ {0} /\ buf_rva \in Nat /\ buf \in Seq(Insns)
  BY <1>1, InnermostTyped, Buffer
<1>3. o \in Nat /\ Frame.offset \in Nat /\ Frame.bytes \in Nat /\ Frame.count \in Nat
  BY <1>2 DEF Activations
<1>4. /\ insn # Invalid => o \in Offsets /\ insn.size \in Nat \ {0}
      /\ Bytes(insn) \in Nat /\ (follow_insn_dest(insn) => insn # Invalid)
      /\ insn = Invalid => insn.size = 0
  <2>1. insn = Invalid => insn.size = 0
    <3>1. Invalid.size = 0
      BY DEF Invalid
    <3> QED
      BY ONLY <3>1, Zenon
  <2> HIDE DEF o
  <2>2. /\ insn # Invalid => o \in Offsets /\ insn.size \in Nat \ {0}
        /\ Bytes(insn) \in Nat /\ (follow_insn_dest(insn) => insn # Invalid)
    BY ONLY <1>2, <1>3, Decoding
  <2> QED
    BY <2>1, <2>2
<1>5. frames' = [frames EXCEPT ![Len(frames)] = fr]
  BY DEF Disassemble, Now, Depth
<1>6. shown' = IF insn.size = 0 THEN shown ELSE Append(shown, o)
  BY DEF Disassemble
<1>7. /\ fr.bytes = Frame.bytes + Bytes(insn) /\ fr.offset = Frame.offset
      /\ fr.count = Frame.count + k /\ fr.insn = insn /\ fr.addr = buf_rva + o
      /\ fr.at = IF follow_insn_dest(insn) THEN "dest" ELSE "next"
  <2> HIDE DEF o, insn
  <2>1. /\ fr.bytes = Frame.bytes + Bytes(insn) /\ fr.offset = Frame.offset
        /\ fr.count = IF insn.size = 0 THEN Frame.count ELSE Frame.count + 1
        /\ fr.insn = insn /\ fr.addr = buf_rva + o
        /\ fr.at = IF follow_insn_dest(insn) THEN "dest" ELSE "next"
    BY <1>2 DEF Activations
  <2>2. (IF insn.size = 0 THEN Frame.count ELSE Frame.count + 1) = Frame.count + k
    BY <1>3
  <2> QED
    BY <2>1, <2>2
<1>8. k \in Nat /\ Len(shown) \in Nat /\ Len(shown') = Len(shown) + k
  BY <1>1, <1>6 DEF ForwardTypeOK
<1> HIDE DEF fr, k
<1>9. Frame = frames[Len(frames)] /\ frames \in Seq(Activations) /\ frames # <<>>
  BY <1>1 DEF Frame, Depth, Running, ForwardTypeOK
<1>10. AddUp(frames', Len(shown) + k)
  BY <1>1, <1>5, <1>7, <1>8, <1>9, AddOne
<1>11. NextOf(Frame) = {o} /\ NextOf(fr) = FallsTo(o)
  <2>1. NextOf(Frame) = {o}
    BY <1>1 DEF NextOf
  <2>2. fr.at # "loop"
    BY <1>7
  <2>3. fr.offset + fr.bytes = o + Bytes(insn)
    <3>1. \A a, b, c \in Nat : a + (b + c) = (a + b) + c
      OBVIOUS
    <3> QED
      BY <1>3, <1>4, <1>7, <3>1
  <2>4. NextOf(fr) = IF insn.type \in {"insn_jmp", "insn_return"} THEN {} ELSE {o + Bytes(insn)}
    BY <1>7, <2>2, <2>3 DEF NextOf, insn_doesnt_return
  <2> QED
    BY <2>1, <2>4 DEF FallsTo
<1>12. /\ AheadOf(frames) = Below(frames) \cup {o}
       /\ AheadOf(frames') = Below(frames) \cup FallsTo(o)
       /\ Len(frames') = Len(frames) /\ frames'[Len(frames')] = fr
       /\ \A i \in 1 .. Len(frames) - 1 : frames'[i] = frames[i]
  <2> HIDE DEF o
  <2>1. Becomes(frames, fr, frames')
    BY ONLY <1>5 DEF Becomes
  <2>2. /\ AheadOf(frames) = Below(frames) \cup NextOf(frames[Len(frames)])
        /\ AheadOf(frames') = Below(frames) \cup NextOf(fr)
        /\ Len(frames') = Len(frames) /\ frames'[Len(frames')] = fr
        /\ \A i \in 1 .. Len(frames) - 1 : frames'[i] = frames[i]
    BY ONLY <1>9, <2>1, AheadLast
  <2> QED
    BY ONLY <1>9, <1>11, <2>2
<1>13. Seen(shown') = IF insn = Invalid THEN Seen(shown) ELSE Seen(shown) \cup {o}
  <2>1. CASE insn = Invalid
    BY <1>4, <1>6, <2>1
  <2>2. CASE insn # Invalid
    <3>1. shown' = Append(shown, o) /\ shown \in Seq(Offsets)
      BY <1>1, <1>4, <1>6, <2>2 DEF ForwardTypeOK
    <3> HIDE DEF o, insn
    <3>2. /\ Len(shown') = Len(shown) + 1 /\ Len(shown) \in Nat /\ shown'[Len(shown) + 1] = o
          /\ \A i \in 1 .. Len(shown) : shown'[i] = shown[i]
      BY <3>1
    <3>3. /\ \A i \in 1 .. Len(shown') : i \in 1 .. Len(shown) \/ i = Len(shown) + 1
          /\ \A i \in 1 .. Len(shown) : i \in 1 .. Len(shown')
          /\ Len(shown) + 1 \in 1 .. Len(shown')
      BY ONLY <3>2
    <3> QED
      BY <2>2, <3>2, <3>3, Zenon DEF Seen
  <2> QED
    BY <2>1, <2>2
<1>14. WaitsOf(frames) = {} /\ WaitsOf(frames') = IF follow_insn_dest(insn) THEN {o} ELSE {}
  <2>1. (buf_rva + o) - buf_rva = o
    BY <1>2, <1>3
  <2>2. frames' # <<>>
    BY <1>2, <1>12 DEF Depth
  <2> QED
    BY <1>1, <1>7, <1>9, <1>12, <2>1, <2>2 DEF WaitsOf
<1>15. \E V : Covers(V, AheadOf(frames'), Seen(shown'), rva_list', WaitsOf(frames'))
  <2>1. PICK V : Covers(V, Below(frames) \cup {o}, Seen(shown), rva_list, {})
    BY <1>12, <1>14 DEF FlowInv, Covered
  <2> HIDE DEF o, insn
  <2>2. \E W : Covers(W, Below(frames) \cup FallsTo(o),
                      IF x86_disasm(o) = Invalid THEN Seen(shown) ELSE Seen(shown) \cup {o}, rva_list,
                      IF follow_insn_dest(x86_disasm(o)) THEN {o} ELSE {})
    BY <1>1, <1>3, <2>1, FlowVisits
  <2> QED
    BY <1>1, <1>12, <1>13, <1>14, <2>2 DEF insn
<1>16. Waits(frames')
  <2>1. \A i \in 1 .. Len(frames') - 1 : frames'[i].at = "call"
    BY <1>1, <1>12 DEF Waits
  <2>2. fr.at = "dest" => o \in Offsets /\ follow_insn_dest(insn)
    BY <1>4, <1>7
  <2> HIDE DEF o
  <2> QED
    BY <1>7, <1>12, <2>1, <2>2 DEF Waits
<1>17. Covered' /\ Waits(frames)'
  BY <1>1, <1>15, <1>16, FlowCarried
<1>18. Counted'
  <2>1. Running'
    BY <1>9, <1>12 DEF Running
  <2>2. AddUp(frames', Len(shown'))
    BY <1>8, <1>10
  <2> QED
    BY <2>1, <2>2 DEF Counted, AddUp
<1> QED
  BY <1>1, <1>17, <1>18 DEF FlowInv

LEMMA FlowFollow == FlowInv /\ Follow => FlowInv'
<1> SUFFICES ASSUME FlowInv, Follow PROVE FlowInv'
  OBVIOUS
<1>1. /\ ForwardInv /\ ForwardInv' /\ ForwardTypeOK /\ Running /\ Waits(frames)
      /\ AddUp(frames, Len(shown)) /\ UNCHANGED <<buf, buf_rva, entry, shown, total>>
      /\ Frame.at = "dest" /\ Frame.addr \notin rva_list /\ Frame.insn.dest # UNRESOLVED
      /\ Frame.insn.dest \in Offsets /\ rva_list' = rva_list \cup {Frame.addr}
  BY FollowInv DEF FlowInv, ForwardInv, Counted, Follow, Resolves, Known
<1> DEFINE dest  == Frame.insn.dest
           waits == [Frame EXCEPT !.at = "call"]
           mid   == [frames EXCEPT ![Len(frames)] = waits]
<1>2. Frame \in Activations /\ Depth \in Nat \ {0} /\ buf_rva \in Nat /\ buf \in Seq(Insns)
  BY <1>1, InnermostTyped, Buffer
<1>3. Frame = frames[Len(frames)] /\ frames \in Seq(Activations) /\ frames # <<>>
  BY <1>1 DEF Frame, Depth, Running, ForwardTypeOK
<1>4. PICK p \in Offsets : /\ Frame.addr = buf_rva + p /\ Frame.insn = x86_disasm(p)
                           /\ follow_insn_dest(x86_disasm(p))
  BY <1>1, <1>3 DEF Waits
<1>5. p \in Nat /\ (buf_rva + p) - buf_rva = p
  BY <1>2 DEF Offsets, buf_len
<1>6. WaitsOf(frames) = {p}
  BY <1>1, <1>3, <1>4, <1>5 DEF WaitsOf
<1>7. PICK V : Covers(V, AheadOf(frames), Seen(shown), rva_list, {p})
  BY <1>6 DEF FlowInv, Covered
<1>8. Jumps(p) /\ dest = x86_disasm(p).dest
  BY <1>1, <1>4 DEF Jumps
<1>9. Covers(V, AheadOf(frames) \cup {dest}, Seen(shown'), rva_list', {})
  BY <1>1, <1>4, <1>7, <1>8, FlowFollows
<1>10. /\ waits.at = "call" /\ waits.count = Frame.count + 0 /\ NextOf(waits) = NextOf(Frame)
       /\ waits \in Activations
  BY <1>1, <1>2 DEF Activations, NextOf
<1>11. frames' = Append(mid, NewActivation(dest))
  BY <1>2, <1>3 DEF Follow, Depth, Frame
<1> HIDE DEF waits, dest
<1>12. /\ mid \in Seq(Activations) /\ AheadOf(mid) = AheadOf(frames) /\ Len(mid) = Len(frames)
       /\ mid[Len(mid)] = waits /\ \A i \in 1 .. Len(frames) - 1 : mid[i] = frames[i]
  <2>1. Becomes(frames, waits, mid)
    BY DEF Becomes
  <2> HIDE DEF mid
  <2>2. mid \in Seq(Activations)
    BY ONLY <1>3, <1>10, <2>1 DEF Becomes
  <2>3. /\ AheadOf(frames) = Below(frames) \cup NextOf(frames[Len(frames)])
        /\ AheadOf(mid) = Below(frames) \cup NextOf(waits)
        /\ Len(mid) = Len(frames) /\ mid[Len(mid)] = waits
        /\ \A i \in 1 .. Len(frames) - 1 : mid[i] = frames[i]
    BY ONLY <1>3, <2>1, AheadLast
  <2> QED
    BY ONLY <1>3, <1>10, <2>2, <2>3
<1>13. AddUp(mid, Len(shown) + 0)
  <2>1. Len(shown) \in Nat
    BY <1>1 DEF ForwardTypeOK
  <2> QED
    BY <1>1, <1>3, <1>10, <2>1, AddOne
<1> DEFINE new == NewActivation(dest)
<1>14. /\ new.at = "loop" /\ new.cont = TRUE /\ new.count = 0 /\ new.offset = dest /\ new.bytes = 0
  BY DEF NewActivation
<1> HIDE DEF mid, new
<1>15. /\ Len(frames') = Len(frames) + 1 /\ frames'[Len(frames')] = new /\ frames' # <<>>
       /\ \A i \in 1 .. Len(frames) : frames'[i] = mid[i]
  BY <1>11, <1>12 DEF new
<1>16. AheadOf(frames') = AheadOf(frames) \cup {dest}
  <2>1. dest + 0 = dest
    BY <1>1 DEF dest, Offsets
  <2>2. NextOf(new) = {dest}
    BY <1>14, <2>1 DEF NextOf
  <2> QED
    BY <1>11, <1>12, <2>2, AheadMore DEF new
<1>17. WaitsOf(frames') = {}
  BY <1>14, <1>15 DEF WaitsOf
<1>18. Waits(frames')
  <2>1. \A i \in 1 .. Len(frames') - 1 : frames'[i].at = "call"
    <3> SUFFICES ASSUME NEW i \in 1 .. Len(frames') - 1 PROVE frames'[i].at = "call"
      OBVIOUS
    <3>1. Len(frames) \in Nat
      BY <1>3
    <3>2. i \in 1 .. Len(frames) /\ (i \in 1 .. Len(frames) - 1 \/ i = Len(frames))
      BY ONLY <1>15, <3>1, i \in 1 .. Len(frames') - 1
    <3> QED
      BY <1>1, <1>10, <1>12, <1>15, <3>2 DEF Waits
  <2> QED
    BY <1>14, <1>15, <2>1 DEF Waits
<1>19. Covered' /\ Waits(frames)'
  BY <1>1, <1>9, <1>16, <1>17, <1>18, FlowCarried
<1>20. Counted'
  <2>1. Len(shown) \in Nat /\ Len(shown) + 0 = Len(shown)
    BY <1>1 DEF ForwardTypeOK
  <2>2. AddUp(frames', Len(shown))
    BY <1>11, <1>12, <1>13, <1>14, <2>1, AddNone DEF new
  <2> QED
    BY <1>1, <1>15, <2>2 DEF Counted, AddUp, Running
<1> QED
  BY <1>1, <1>19, <1>20 DEF FlowInv

LEMMA FlowIgnore == FlowInv /\ Ignore => FlowInv'
<1> SUFFICES ASSUME FlowInv, Ignore PROVE FlowInv'
  OBVIOUS
<1>1. /\ ForwardInv /\ ForwardInv' /\ ForwardTypeOK /\ Running /\ Waits(frames)
      /\ AddUp(frames, Len(shown)) /\ UNCHANGED <<buf, buf_rva, entry, shown, total>>
      /\ Frame.at = "dest" /\ rva_list' = rva_list \cup {Frame.addr}
      /\ ~(/\ Frame.addr \notin rva_list /\ Frame.insn.dest # UNRESOLVED
           /\ Frame.insn.dest \in Offsets)
  BY IgnoreInv DEF FlowInv, ForwardInv, Counted, Ignore, Resolves, Known
<1> DEFINE fr == [Frame EXCEPT !.at = "next"]
<1>2. Frame \in Activations /\ Depth \in Nat \ {0} /\ buf_rva \in Nat /\ buf \in Seq(Insns)
  BY <1>1, InnermostTyped, Buffer
<1>3. Frame = frames[Len(frames)] /\ frames \in Seq(Activations) /\ frames # <<>>
  BY <1>1 DEF Frame, Depth, Running, ForwardTypeOK
<1>4. PICK p \in Offsets : /\ Frame.addr = buf_rva + p /\ Frame.insn = x86_disasm(p)
                           /\ follow_insn_dest(x86_disasm(p))
  BY <1>1, <1>3 DEF Waits
<1>5. p \in Nat /\ (buf_rva + p) - buf_rva = p
  BY <1>2 DEF Offsets, buf_len
<1>6. WaitsOf(frames) = {p}
  BY <1>1, <1>3, <1>4, <1>5 DEF WaitsOf
<1>7. PICK V : Covers(V, AheadOf(frames), Seen(shown), rva_list, {p})
  BY <1>6 DEF FlowInv, Covered
<1>8. ~(Jumps(p) /\ buf_rva + p \notin rva_list)
  BY <1>1, <1>4 DEF Jumps
<1>9. Covers(V, AheadOf(frames), Seen(shown'), rva_list', {})
  BY <1>1, <1>4, <1>7, <1>8, FlowIgnores
<1>10. /\ fr.at = "next" /\ fr.count = Frame.count + 0 /\ NextOf(fr) = NextOf(Frame)
  BY <1>1, <1>2 DEF Activations, NextOf
<1>11. frames' = [frames EXCEPT ![Len(frames)] = fr]
  BY <1>2, <1>3 DEF Ignore, Depth, Frame
<1> HIDE DEF fr
<1>12. /\ AheadOf(frames') = AheadOf(frames) /\ Len(frames') = Len(frames)
       /\ frames'[Len(frames')] = fr
       /\ \A i \in 1 .. Len(frames) - 1 : frames'[i] = frames[i]
  <2>1. Becomes(frames, fr, frames')
    BY ONLY <1>11 DEF Becomes
  <2>2. /\ AheadOf(frames) = Below(frames) \cup NextOf(frames[Len(frames)])
        /\ AheadOf(frames') = Below(frames) \cup NextOf(fr)
        /\ Len(frames') = Len(frames) /\ frames'[Len(frames')] = fr
        /\ \A i \in 1 .. Len(frames) - 1 : frames'[i] = frames[i]
    BY ONLY <1>3, <2>1, AheadLast
  <2> QED
    BY ONLY <1>3, <1>10, <2>2
<1>13. WaitsOf(frames') = {} /\ Waits(frames')
  BY <1>1, <1>10, <1>12 DEF WaitsOf, Waits
<1>14. Covered' /\ Waits(frames)'
  BY <1>1, <1>9, <1>12, <1>13, FlowCarried
<1>15. Counted'
  <2>1. Len(shown) \in Nat /\ Len(shown) + 0 = Len(shown)
    BY <1>1 DEF ForwardTypeOK
  <2>2. AddUp(frames', Len(shown) + 0)
    BY <1>1, <1>3, <1>10, <1>11, <2>1, AddOne
  <2>3. Running'
    BY <1>3, <1>12 DEF Running
  <2> QED
    BY <1>1, <2>1, <2>2, <2>3 DEF Counted, AddUp
<1> QED
  BY <1>1, <1>14, <1>15 DEF FlowInv

LEMMA FlowContinue == FlowInv /\ Continue => FlowInv'
<1> SUFFICES ASSUME FlowInv, Continue PROVE FlowInv'
  OBVIOUS
<1>1. /\ ForwardInv /\ ForwardInv' /\ ForwardTypeOK /\ Running /\ Waits(frames)
      /\ AddUp(frames, Len(shown)) /\ UNCHANGED <<buf, buf_rva, entry, rva_list, shown, total>>
      /\ Frame.at = "next"
  BY ContinueInv DEF FlowInv, ForwardInv, Counted, Continue
<1> DEFINE fr == [Frame EXCEPT !.cont = ~insn_doesnt_return(Frame.insn), !.at = "loop"]
<1>2. Frame \in Activations /\ Depth \in Nat \ {0} /\ buf_rva \in Nat /\ buf \in Seq(Insns)
  BY <1>1, InnermostTyped, Buffer
<1>3. Frame = frames[Len(frames)] /\ frames \in Seq(Activations) /\ frames # <<>>
  BY <1>1 DEF Frame, Depth, Running, ForwardTypeOK
<1>4. /\ fr.at = "loop" /\ fr.cont = ~insn_doesnt_return(Frame.insn)
      /\ fr.count = Frame.count + 0 /\ fr.offset = Frame.offset /\ fr.bytes = Frame.bytes
  BY <1>2 DEF Activations
<1>5. frames' = [frames EXCEPT ![Len(frames)] = fr]
  BY DEF Continue, Now, Depth
<1> HIDE DEF fr
<1>6. NextOf(fr) = NextOf(Frame)
  BY <1>1, <1>4 DEF NextOf
<1>7. /\ AheadOf(frames') = AheadOf(frames) /\ Len(frames') = Len(frames)
      /\ frames'[Len(frames')] = fr
      /\ \A i \in 1 .. Len(frames) - 1 : frames'[i] = frames[i]
  <2>1. Becomes(frames, fr, frames')
    BY ONLY <1>5 DEF Becomes
  <2>2. /\ AheadOf(frames) = Below(frames) \cup NextOf(frames[Len(frames)])
        /\ AheadOf(frames') = Below(frames) \cup NextOf(fr)
        /\ Len(frames') = Len(frames) /\ frames'[Len(frames')] = fr
        /\ \A i \in 1 .. Len(frames) - 1 : frames'[i] = frames[i]
    BY ONLY <1>3, <2>1, AheadLast
  <2> QED
    BY ONLY <1>3, <1>6, <2>2
<1>8. WaitsOf(frames') = {} /\ WaitsOf(frames) = {} /\ Waits(frames')
  BY <1>1, <1>3, <1>4, <1>7 DEF WaitsOf, Waits
<1>9. Covered' /\ Waits(frames)'
  BY <1>1, <1>7, <1>8, FlowCarried DEF FlowInv, Covered
<1>10. Counted'
  <2>1. Len(shown) \in Nat /\ Len(shown) + 0 = Len(shown)
    BY <1>1 DEF ForwardTypeOK
  <2>2. AddUp(frames', Len(shown) + 0)
    BY <1>1, <1>3, <1>4, <1>5, <2>1, AddOne
  <2>3. Running'
    BY <1>3, <1>7 DEF Running
  <2> QED
    BY <1>1, <2>1, <2>2, <2>3 DEF Counted, AddUp
<1> QED
  BY <1>1, <1>9, <1>10 DEF FlowInv

(* An activation that has ended leaves nothing in the buffer to be done.   *)
LEMMA NothingAhead ==
  ASSUME NEW fr \in Activations, Ended(fr), buf_len \in Nat
  PROVE  \A o \in NextOf(fr) : o \notin Offsets
<1>1. fr.at = "loop" /\ ~(fr.cont /\ fr.bytes < buf_len) /\ fr.offset \in Nat /\ fr.bytes \in Nat
  BY DEF Ended, Activations
<1>2. CASE fr.cont
  <2>1. NextOf(fr) = {fr.offset + fr.bytes}
    BY <1>1, <1>2 DEF NextOf
  <2>2. fr.offset + fr.bytes \notin Offsets
    BY <1>1, <1>2 DEF Offsets
  <2> QED
    BY <2>1, <2>2
<1>3. CASE ~fr.cont
  BY <1>1, <1>3 DEF NextOf
<1> QED
  BY <1>2, <1>3

LEMMA FlowReturnCount == FlowInv /\ ReturnCount => FlowInv'
<1> SUFFICES ASSUME FlowInv, ReturnCount PROVE FlowInv'
  OBVIOUS
<1>1. /\ ForwardInv /\ ForwardInv' /\ ForwardTypeOK /\ Waits(frames)
      /\ UNCHANGED <<buf, buf_rva, entry, rva_list, shown, total>>
      /\ Ended(Frame) /\ Len(frames) > 1
  BY ReturnCountInv DEF FlowInv, ForwardInv, ReturnCount, Depth
<1> DEFINE n     == Len(frames)
           above == frames[n - 1]
           fr    == [above EXCEPT !.count = @ + Frame.count, !.at = "next"]
<1>2. n \in Nat \ {0, 1} /\ frames \in Seq(Activations) /\ frames # <<>> /\ Frame = frames[n]
      /\ n = Len(frames)
  BY <1>1 DEF ForwardTypeOK, Frame, Depth
<1> HIDE DEF n
<1>3. above \in Activations /\ Frame \in Activations /\ above.at = "call"
  <2>1. n \in 1 .. n /\ n - 1 \in 1 .. n /\ n - 1 \in 1 .. n - 1
    BY ONLY <1>2
  <2>2. \A i \in 1 .. n : frames[i] \in Activations
    BY ONLY <1>2
  <2> QED
    BY <1>1, <1>2, <2>1, <2>2 DEF Waits
<1>4. BackIn(frames, fr, frames')
  <2>1. SubSeq(frames, 1, n - 1)[n - 1] = above
    <3>1. n - 1 \in Nat /\ n - 1 < n /\ n - 1 \in 1 .. n - 1
      BY ONLY <1>2
    <3> QED
      BY ONLY <1>2, <3>1, Shortened
  <2> QED
    <3>1. frames' = [SubSeq(frames, 1, n - 1) EXCEPT ![n - 1] = fr]
      BY <1>1, <1>2, <2>1, Zenon DEF ReturnCount, Depth
    <3> QED
      BY <1>2, <3>1 DEF BackIn
<1>5. /\ fr.at = "next" /\ fr.count = above.count + Frame.count /\ NextOf(fr) = NextOf(above)
  <2> DEFINE count == above.count + Frame.count
  <2>1. fr = [above EXCEPT !.count = count, !.at = "next"]
    BY Zenon
  <2> HIDE DEF fr, count, above
  <2>2. fr.at = "next" /\ fr.count = count /\ fr.insn = above.insn /\ fr.offset = above.offset
        /\ fr.bytes = above.bytes
    BY ONLY <1>3, <2>1 DEF Activations
  <2> QED
    BY <1>3, <2>2 DEF NextOf, count
<1> HIDE DEF fr
<1>6. /\ AheadOf(frames') = Below(frames) /\ Len(frames') = n - 1 /\ frames'[Len(frames')] = fr
      /\ \A i \in 1 .. Len(frames') - 1 : frames'[i] = frames[i]
  BY ONLY <1>1, <1>2, <1>4, <1>5, AheadLess DEF above
<1>7. AheadOf(frames) = Below(frames) \cup NextOf(Frame)
  <2>1. \E gs : Becomes(frames, fr, gs)
    BY DEF Becomes
  <2> QED
    BY ONLY <1>2, <2>1, AheadLast
<1>8. buf_len \in Nat
  BY <1>1, Buffer DEF buf_len
<1>9. \A o \in AheadOf(frames) \ Below(frames) : o \notin Offsets
  BY <1>1, <1>3, <1>7, <1>8, NothingAhead
<1>10. WaitsOf(frames) = {} /\ WaitsOf(frames') = {}
  BY <1>1, <1>2, <1>5, <1>6 DEF WaitsOf, Ended
<1>11. PICK V : Covers(V, AheadOf(frames), Seen(shown), rva_list, {})
  BY <1>10 DEF FlowInv, Covered
<1>12. Covers(V, Below(frames), Seen(shown), rva_list, {})
  BY <1>7, <1>9, <1>11, FlowReturns
<1>13. Waits(frames')
  <2>1. \A i \in 1 .. Len(frames') - 1 : i \in 1 .. n - 1
    BY ONLY <1>2, <1>6
  <2>2. \A i \in 1 .. Len(frames') - 1 : frames'[i].at = "call"
    <3>1. \A i \in 1 .. n - 1 : frames[i].at = "call"
      BY <1>1, <1>2 DEF Waits
    <3> QED
      BY ONLY <1>6, <2>1, <3>1
  <2>3. frames'[Len(frames')].at # "dest"
    BY ONLY <1>5, <1>6
  <2> QED
    BY ONLY <2>2, <2>3 DEF Waits
<1>14. Covered' /\ Waits(frames)'
  BY <1>1, <1>6, <1>10, <1>12, <1>13, FlowCarried
<1>15. Counted'
  <2>1. AddUp(frames, Len(shown)) /\ Len(shown) \in Nat
    BY <1>1, <1>2 DEF FlowInv, Counted, Running, ForwardTypeOK
  <2>2. AddUp(frames', Len(shown))
    BY ONLY <1>1, <1>2, <1>4, <1>5, <2>1, AddBack DEF above
  <2>3. Running'
    BY <1>2, <1>6 DEF Running
  <2> QED
    BY <1>1, <2>2, <2>3 DEF Counted, AddUp
<1> QED
  BY <1>1, <1>14, <1>15 DEF FlowInv

LEMMA FlowReturnTotal == FlowInv /\ ReturnTotal => FlowInv'
<1> SUFFICES ASSUME FlowInv, ReturnTotal PROVE FlowInv'
  OBVIOUS
<1>1. /\ ForwardInv /\ ForwardInv' /\ ForwardTypeOK
      /\ UNCHANGED <<buf, buf_rva, entry, rva_list, shown>> /\ frames' = <<>>
      /\ Ended(Frame) /\ Len(frames) = 1 /\ total' = Frame.count
  BY ReturnTotalInv DEF FlowInv, ForwardInv, ReturnTotal, Depth
<1>2. /\ frames \in Seq(Activations) /\ frames # <<>> /\ Frame = frames[1] /\ Frame \in Activations
      /\ Running
  BY <1>1 DEF ForwardTypeOK, Frame, Depth, Running
<1>3. buf_len \in Nat
  BY <1>1, Buffer DEF buf_len
<1>4. AheadOf(frames) = NextOf(Frame) /\ AheadOf(frames') = {} /\ Len(frames') = 0
  BY <1>1, <1>2 DEF AheadOf
<1>5. WaitsOf(frames) = {} /\ WaitsOf(frames') = {} /\ Waits(frames')
  BY <1>1, <1>2, <1>4 DEF WaitsOf, Ended, Waits
<1>6. PICK V : Covers(V, AheadOf(frames), Seen(shown), rva_list, {})
  BY <1>5 DEF FlowInv, Covered
<1>7. Covers(V, {}, Seen(shown), rva_list, {})
  <2>1. \A o \in AheadOf(frames) \ {} : o \notin Offsets
    BY <1>1, <1>2, <1>3, <1>4, NothingAhead
  <2> QED
    BY <1>6, <2>1, FlowReturns
<1>8. Covered' /\ Waits(frames)'
  BY <1>1, <1>4, <1>5, <1>7, FlowCarried
<1>9. Counted'
  <2>1. AddUp(frames, Len(shown))
    BY <1>2 DEF FlowInv, Counted
  <2>2. Frame.count = Len(shown)
    BY <1>1, <1>2, <2>1, AddLast
  <2> QED
    BY <1>1, <2>2 DEF Counted, Running
<1> QED
  BY <1>1, <1>8, <1>9 DEF FlowInv

LEMMA FlowStutters == FlowInv /\ UNCHANGED forward_vars => FlowInv'
<1> SUFFICES ASSUME FlowInv, UNCHANGED forward_vars PROVE FlowInv'
  OBVIOUS
<1>1. UNCHANGED <<buf, buf_rva, entry, rva_list, frames, shown, total>>
  BY DEF forward_vars
<1>2. Covered' /\ Waits(frames)'
  BY <1>1, FlowCarried DEF FlowInv, Covered
<1>3. Counted' /\ ForwardInv'
  BY <1>1, StutterInv DEF FlowInv, Counted, AddUp, Running
<1> QED
  BY <1>2, <1>3 DEF FlowInv

LEMMA FlowStep == FlowInv /\ [ForwardNext]_forward_vars => FlowInv'
BY FlowDisassembles, FlowFollow, FlowIgnore, FlowContinue, FlowReturnCount, FlowReturnTotal,
   FlowStutters DEF ForwardNext, ForwardStopped

(* Although a jump that was seen before is never followed again, the       *)
(* callback is given every instruction that execution can reach from the   *)
(* entry point and no other, and the number returned is that of its calls. *)
THEOREM FlowFollowed == ForwardSpec => []FollowsFlow
<1>1. FlowInv => FollowsFlow
  <2> SUFFICES ASSUME FlowInv, ~Running PROVE FollowsFlow
    BY DEF FollowsFlow
  <2>1. frames = <<>> /\ ForwardTypeOK
    BY DEF Running, FlowInv, ForwardInv
  <2>2. AheadOf(frames) = {} /\ WaitsOf(frames) = {} /\ Len(frames) = 0
    BY <2>1 DEF AheadOf, WaitsOf
  <2>3. PICK V : Covers(V, {}, Seen(shown), rva_list, {})
    BY <2>2 DEF FlowInv, Covered
  <2>4. Seen(shown) = {o \in Offsets : /\ buf[o + 1].type # "insn_invalid"
                                       /\ o + buf[o + 1].size <= buf_len
                                       /\ entry < buf_len /\ OnTheFlow(o)}
    BY <2>1, <2>3, FlowEnds
  <2>5. Seen(shown) = {shown[i] : i \in DOMAIN shown}
    BY <2>1 DEF Seen, ForwardTypeOK
  <2>6. total = Len(shown)
    BY <2>1 DEF FlowInv, Counted
  <2> QED
    BY <2>4, <2>5, <2>6 DEF FollowsFlow
<1> QED
  BY <1>1, FlowStart, FlowStep, PTL DEF ForwardSpec

-----------------------------------------------------------------------------
(* The interface of cs.c: CsDisasm.                                        *)

(* A block that malloc returns is not allocated.                           *)
LEMMA FreshBlock ==
  ASSUME NEW S \in SUBSET Nat, IsFiniteSet(S)
  PROVE  Fresh(S) \in Nat /\ Fresh(S) \notin S /\ Fresh(S) # NULL
<1> DEFINE Free == {i \in 1 .. Cardinality(S) + 1 : i \notin S}
<1>1. Cardinality(S) \in Nat
  BY FS_CardinalityType
<1>2. Free \in SUBSET Nat /\ Free # {}
  <2>1. Cardinality(1 .. Cardinality(S) + 1) = Cardinality(S) + 1
    BY <1>1, FS_Interval
  <2>2. 1 .. Cardinality(S) + 1 \in SUBSET S => Cardinality(S) + 1 <= Cardinality(S)
    BY <2>1, FS_Subset
  <2> QED
    BY <1>1, <2>2
<1>3. PICK i \in Free : \A j \in Free : i <= j
  BY <1>2, LeastNumber
<1>4. i \in 1 .. Cardinality(S) + 1 /\ i \notin S /\ \A j \in 1 .. i - 1 : j \in S
  BY <1>1, <1>3
<1>5. \E k \in 1 .. Cardinality(S) + 1 : k \notin S /\ \A j \in 1 .. k - 1 : j \in S
  BY <1>4
<1>6. Fresh(S) \in 1 .. Cardinality(S) + 1 /\ Fresh(S) \notin S
  BY <1>5 DEF Fresh
<1> QED
  BY <1>1, <1>6, SkipAssumption

-----------------------------------------------------------------------------
(* What changes in the set of pointers when a block is allocated or freed. *)
Owns(P, L) ==
  /\ {p[3] : p \in P} \ {NULL} = L
  /\ \A p, q \in P : p[3] = q[3] /\ p[3] # NULL => p = q

LEMMA OwnsMore ==
  ASSUME NEW P, NEW L, Owns(P, L), NEW w, NEW i, NEW b, b \notin L, b # NULL
  PROVE  Owns(P \cup {<<w, i, b>>}, L \cup {b})
<1> DEFINE t == <<w, i, b>>
<1>1. t[3] = b
  OBVIOUS
<1>2. \A p \in P : p[3] = b => FALSE
  BY DEF Owns
<1> HIDE DEF t
<1>3. {p[3] : p \in P \cup {t}} \ {NULL} = L \cup {b}
  BY <1>1 DEF Owns
<1>4. \A p, q \in P \cup {t} : p[3] = q[3] /\ p[3] # NULL => p = q
  BY <1>1, <1>2 DEF Owns
<1> QED
  BY <1>3, <1>4 DEF Owns, t

LEMMA OwnsNull ==
  ASSUME NEW P, NEW L, Owns(P, L), NEW w, NEW i
  PROVE  Owns(P \cup {<<w, i, NULL>>}, L)
BY DEF Owns

LEMMA OwnsLess ==
  ASSUME NEW P, NEW L, Owns(P, L), NEW Q \in SUBSET P
  PROVE  Owns(P \ Q, L \ {q[3] : q \in Q})
BY DEF Owns

LEMMA OwnsBlock ==
  ASSUME NEW P, NEW L, Owns(P, L), NEW w, NEW i, NEW b, b \in Pointer, <<w, i, b>> \in P
  PROVE  b \in L \cup {NULL}
<1>1. <<w, i, b>>[3] = b
  OBVIOUS
<1> QED
  BY <1>1 DEF Owns

(* Moving the pointers of an array to another place.                       *)
LEMMA OwnsMoved ==
  ASSUME NEW P, NEW L, Owns(P \cup HeldByArray("run", run), L), run # NULL,
         P \cap HeldByArray("got", run) = {}, P \cap HeldByArray("run", run) = {}
  PROVE  Owns(P \cup HeldByArray("got", run), L)
<1> DEFINE D == DOMAIN run.insns
           X(w) == {<<w, 0, run.array>>} \cup {<<w, i, run.insns[i].detail>> : i \in D}
<1>1. HeldByArray("run", run) = X("run") /\ HeldByArray("got", run) = X("got")
  BY DEF HeldByArray
<1>2. \A w : {p[3] : p \in X(w)} = {run.array} \cup {run.insns[i].detail : i \in D}
  <2> TAKE w
  <2>1. \A p \in X(w) : p[3] = run.array \/ \E i \in D : p[3] = run.insns[i].detail
    OBVIOUS
  <2>2. <<w, 0, run.array>> \in X(w) /\ <<w, 0, run.array>>[3] = run.array
    OBVIOUS
  <2>3. \A i \in D : <<w, i, run.insns[i].detail>> \in X(w)
                     /\ <<w, i, run.insns[i].detail>>[3] = run.insns[i].detail
    OBVIOUS
  <2> HIDE DEF X
  <2> QED
    BY ONLY <2>1, <2>2, <2>3, ZenonT(30)
<1>3. \A p \in X("got") : <<"run", p[2], p[3]>> \in X("run") /\ p = <<"got", p[2], p[3]>>
  OBVIOUS
<1>4. \A p, q \in X("got") : p[3] = q[3] /\ p[3] # NULL => p = q
  <2> SUFFICES ASSUME NEW p \in X("got"), NEW q \in X("got"), p[3] = q[3], p[3] # NULL PROVE p = q
    OBVIOUS
  <2> DEFINE pp == <<"run", p[2], p[3]>>  qq == <<"run", q[2], q[3]>>
  <2>1. pp \in X("run") /\ qq \in X("run") /\ pp[3] = p[3] /\ qq[3] = q[3]
        /\ pp[2] = p[2] /\ qq[2] = q[2]
    BY <1>3
  <2> HIDE DEF pp, qq, X
  <2>2. pp = qq
    BY <1>1, <2>1 DEF Owns
  <2>3. p[2] = q[2]
    BY <2>1, <2>2
  <2> QED
    BY <1>3, <2>3
<1>5. \A p \in P, q \in X("got") : p[3] = q[3] => p[3] = NULL
  <2> SUFFICES ASSUME NEW p \in P, NEW q \in X("got"), p[3] = q[3], p[3] # NULL PROVE FALSE
    OBVIOUS
  <2> DEFINE qq == <<"run", q[2], q[3]>>
  <2>1. qq \in X("run") /\ qq[3] = q[3]
    BY <1>3
  <2> HIDE DEF qq, X
  <2> QED
    BY <1>1, <2>1 DEF Owns
<1> HIDE DEF X
<1>6. {p[3] : p \in P \cup X("got")} \ {NULL} = L
  <2> DEFINE third(Q) == {p[3] : p \in Q}
  <2>1. \A Q, T : third(Q \cup T) = third(Q) \cup third(T)
    OBVIOUS
  <2>2. third(X("run")) = third(X("got"))
    BY <1>2
  <2>3. third(P \cup X("run")) \ {NULL} = L
    BY <1>1 DEF Owns
  <2> HIDE DEF third
  <2>4. third(P \cup X("got")) \ {NULL} = L
    <3>1. third(P \cup X("got")) = third(P) \cup third(X("got"))
      BY ONLY <2>1
    <3>2. third(P \cup X("run")) = third(P) \cup third(X("run"))
      BY ONLY <2>1
    <3> QED
      BY ONLY <2>2, <2>3, <3>1, <3>2
  <2> QED
    BY <2>4 DEF third
<1> QED
  BY <1>1, <1>4, <1>5, <1>6 DEF Owns

(* The table of a handle is made.                                          *)
LEMMA IndexMade ==
  ASSUME CsTypeOK, handle # NULL, NEW S \in SUBSET Nat, IsFiniteSet(S),
         NEW R, Owns(HeldByHandle(handle) \cup R, S), \A p \in R : p[1] # "handle",
         NEW h, h = [handle EXCEPT !.index = Index(handle, S)]
  PROVE  /\ Owns(HeldByHandle(h) \cup R, S \cup {Index(handle, S)})
         /\ h \in CsHandle /\ h.detail = handle.detail /\ h.skipdata = handle.skipdata
         /\ h.skipdata_size = handle.skipdata_size /\ h.callback = handle.callback
         /\ Index(handle, S) \in Nat
<1>1. handle \in CsHandle
  BY DEF CsTypeOK
<1>2. Index(handle, S) \in Nat
  BY <1>1, FreshBlock DEF Index, CsHandle, Pointer
<1>3. /\ h \in CsHandle /\ h.detail = handle.detail /\ h.skipdata = handle.skipdata
      /\ h.skipdata_size = handle.skipdata_size /\ h.callback = handle.callback
      /\ h.id = handle.id /\ h.index = Index(handle, S)
  BY <1>1, <1>2 DEF CsHandle, Pointer
<1>4. h # NULL
  BY <1>3, NullAssumption
<1> DEFINE a == <<"handle", 0, handle.id>>
           b == <<"handle", 1, handle.index>>
           c == <<"handle", 1, Index(handle, S)>>
<1>5. HeldByHandle(handle) = {a, b} /\ HeldByHandle(h) = {a, c}
  BY <1>3, <1>4 DEF HeldByHandle
<1>6. a[1] = "handle" /\ b[1] = "handle" /\ a # b /\ a # c
  OBVIOUS
<1>7. CASE handle.index = NULL
  <2>1. b[3] = NULL /\ c = <<"handle", 1, Fresh(S)>>
    BY <1>7 DEF Index
  <2>2. Fresh(S) \notin S /\ Fresh(S) # NULL
    BY FreshBlock
  <2>3. Owns({a, b} \cup R, S)
    BY <1>5
  <2>4. NULL \notin S
    BY SkipAssumption
  <2> HIDE DEF a, b, c
  <2>5. ({a, b} \cup R) \ {b} = {a} \cup R
    BY <1>6
  <2>6. Owns({a} \cup R, S)
    <3>1. Owns(({a, b} \cup R) \ {b}, S \ {q[3] : q \in {b}})
      BY <2>3, OwnsLess
    <3>2. S \ {q[3] : q \in {b}} = S
      BY <2>1, <2>4
    <3> QED
      BY <2>5, <3>1, <3>2
  <2>7. Owns(({a} \cup R) \cup {<<"handle", 1, Fresh(S)>>}, S \cup {Fresh(S)})
    BY <2>2, <2>6, OwnsMore
  <2>8. ({a} \cup R) \cup {<<"handle", 1, Fresh(S)>>} = {a, c} \cup R
    BY <2>1
  <2> QED
    BY <1>2, <1>3, <1>5, <1>7, <2>7, <2>8 DEF Index
<1>8. CASE handle.index # NULL
  <2>1. Index(handle, S) = handle.index /\ c = b
    BY <1>8 DEF Index
  <2>2. Index(handle, S) \in S
    <3>1. handle.index \in Pointer /\ <<"handle", 1, handle.index>> \in HeldByHandle(handle) \cup R
      BY <1>1, <1>5 DEF CsHandle
    <3>2. handle.index \in S \cup {NULL}
      BY <3>1, OwnsBlock
    <3> QED
      BY <1>8, <2>1, <3>2
  <2>3. S \cup {Index(handle, S)} = S
    BY <2>2
  <2> QED
    BY <1>2, <1>3, <1>5, <2>1, <2>3
<1> QED
  BY <1>7, <1>8

-----------------------------------------------------------------------------
(* Who can be in the library, and what it keeps without details.           *)
Calls ==
  /\ run # NULL => handle # NULL /\ got = NULL /\ caller = "array"
                   /\ (run.pc = "expand" => run.f = run.cache_size)
  /\ got # NULL => caller = "array"
  /\ one # NULL => caller = "iter"
  /\ run # NULL /\ ~handle.detail => \A i \in DOMAIN run.insns : run.insns[i].detail = NULL

SessionInv == CsTypeOK /\ Calls /\ NothingLost

LEMMA LostMeans == NothingLost <=> Owns(Pointers, live)
BY DEF NothingLost, Owns

LEMMA SkippedFits ==
  ASSUME NEW h \in CsHandle, NEW rest \in Nat
  PROVE  Skipped(h, rest) \in 0 .. rest
<1>1. h.skipdata_size \in Nat /\ (h.callback # NULL => h.callback \in Nat)
  BY SkipAssumption DEF CsHandle
<1> QED
  BY <1>1 DEF Skipped

(* Where they agree the documentation says what the code does.             *)
LEMMA AsDocumented ==
  ASSUME NEW h \in CsHandle, NEW rest \in Nat
  PROVE  Documented(h, rest) \in Nat /\ (Agrees(h) => Documented(h, rest) = Skipped(h, rest))
<1>1. /\ h.skipdata_size \in Nat /\ (h.callback # NULL => h.callback \in Nat)
      /\ SkipSize[h.mode] \in Nat /\ h.skipdata \in BOOLEAN /\ NULL \notin Nat
  BY SkipAssumption DEF CsHandle
<1>2. CASE h.callback = NULL
  BY <1>1, <1>2 DEF Documented, Agrees, Skipped
<1>3. CASE h.callback # NULL
  <2>1. Documented(h, rest) = IF h.skipdata /\ h.callback <= rest THEN h.callback ELSE 0
    BY <1>3 DEF Documented
  <2>2. Agrees(h) /\ h.skipdata => h.callback = 0 \/ h.callback >= h.skipdata_size
    BY <1>3 DEF Agrees
  <2> QED
    BY <1>1, <1>3, <2>1, <2>2 DEF Skipped
<1> QED
  BY <1>2, <1>3

LEMMA SizesFit ==
  ASSUME CsTypeOK, NEW o \in Nat, o < size
  PROVE  /\ size \in Nat /\ code[o + 1] \in Nat /\ o + code[o + 1] <= size
         /\ code \in Seq(Nat)
<1>1. code \in Seq(Nat) /\ Fits(code)
  BY SizesAssumption DEF CsTypeOK
<1>2. size = Len(code) /\ size \in Nat /\ o + 1 \in DOMAIN code
  BY <1>1 DEF size
<1>3. code[o + 1] \in Nat
  BY <1>1, <1>2
<1>4. (o + 1) + code[o + 1] <= Len(code) + 1
  BY <1>1, <1>2, Zenon DEF Fits
<1> QED
  BY <1>1, <1>2, <1>3, <1>4

(* One more instruction in the array.                                      *)
LEMMA OneEntered ==
  ASSUME CsTypeOK, run # NULL, Looping, NEW e \in CsInsn, run.offset + e.bytes <= size, Entered(e)
  PROVE  /\ run' \in CsRun /\ run' # NULL
         /\ run'.insns = Append(run.insns, e) /\ Len(run'.insns) = Len(run.insns) + 1
         /\ run'.array = run.array /\ run'.count = run.count
         /\ run'.offset = run.offset + e.bytes
         /\ run'.cap = Len(run'.insns) - run'.f + run'.cache_size
         /\ run'.f <= run'.cache_size /\ (run'.pc = "loop" => run'.f < run'.cache_size)
         /\ run'.offset <= size
         /\ run'.pc = "expand" => run'.f = run'.cache_size
         /\ run'.pc = "end" <=> Enough(Len(run'.insns), run'.count)
         /\ HeldByArray("run", run')
              = HeldByArray("run", run) \cup {<<"run", Len(run.insns) + 1, e.detail>>}
<1>1. run \in CsRun /\ run.f < run.cache_size /\ run.cap = Len(run.insns) - run.f + run.cache_size
  BY DEF CsTypeOK, Looping
<1> DEFINE where == IF Enough(Len(run.insns) + 1, run.count) THEN "end"
                    ELSE IF Full(run.f + 1, run.cache_size) THEN "expand" ELSE "loop"
           r == [run EXCEPT !.insns = Append(@, e), !.offset = @ + e.bytes, !.f = @ + 1, !.pc = where]
<1>2. run' = r
  BY DEF Entered
<1>3. /\ r.insns = Append(run.insns, e) /\ r.offset = run.offset + e.bytes /\ r.f = run.f + 1
      /\ r.pc = where /\ r.array = run.array /\ r.count = run.count /\ r.cap = run.cap
      /\ r.cache_size = run.cache_size
      /\ r = [array |-> r.array, cap |-> r.cap, cache_size |-> r.cache_size, f |-> r.f,
              insns |-> r.insns, offset |-> r.offset, count |-> r.count, pc |-> r.pc]
  <2> HIDE DEF where
  <2>1. /\ r.insns = Append(run.insns, e) /\ r.offset = run.offset + e.bytes /\ r.f = run.f + 1
        /\ r.pc = where /\ r.array = run.array /\ r.count = run.count /\ r.cap = run.cap
        /\ r.cache_size = run.cache_size
    BY <1>1 DEF CsRun
  <2>2. r = [run EXCEPT !.insns = Append(@, e), !.offset = @ + e.bytes, !.f = @ + 1, !.pc = where]
    OBVIOUS
  <2> HIDE DEF r
  <2>3. r = [array |-> r.array, cap |-> r.cap, cache_size |-> r.cache_size, f |-> r.f,
              insns |-> r.insns, offset |-> r.offset, count |-> r.count, pc |-> r.pc]
    BY <1>1, <2>2 DEF CsRun
  <2> QED
    BY <2>1, <2>3
<1>4. /\ run.insns \in Seq(CsInsn) /\ Append(run.insns, e) \in Seq(CsInsn)
      /\ Len(run.insns) \in Nat /\ Len(Append(run.insns, e)) = Len(run.insns) + 1
      /\ run.f \in Nat /\ run.cache_size \in Nat /\ run.cap \in Int /\ run.offset \in Nat
      /\ e.bytes \in Nat
  BY <1>1 DEF CsRun, CsInsn
<1>5. where \in {"loop", "expand", "end"}
  OBVIOUS
<1> HIDE DEF r, where
<1>6. r \in CsRun
  <2>1. /\ r.array \in Nat /\ r.cap \in Int /\ r.cache_size \in Nat \ {0} /\ r.f \in Nat
        /\ r.insns \in Seq(CsInsn) /\ r.offset \in Nat /\ r.count \in Nat
        /\ r.pc \in {"loop", "expand", "end"}
    BY <1>1, <1>3, <1>4, <1>5, SMTT(30) DEF CsRun
  <2>2. r = [array |-> r.array, cap |-> r.cap, cache_size |-> r.cache_size, f |-> r.f,
              insns |-> r.insns, offset |-> r.offset, count |-> r.count, pc |-> r.pc]
    BY <1>3
  <2> QED
    BY ONLY <2>1, <2>2 DEF CsRun
<1>7. where = "end" <=> Enough(Len(run.insns) + 1, run.count)
  BY DEF where
<1>8. where = "loop" => run.f + 1 # run.cache_size
  BY DEF where, Full
<1>9. where = "expand" => run.f + 1 = run.cache_size
  BY DEF where, Full
<1>10. HeldByArray("run", r) = HeldByArray("run", run) \cup {<<"run", Len(run.insns) + 1, e.detail>>}
  <2>1. r # NULL
    BY <1>6, NullAssumption
  <2>2. /\ DOMAIN r.insns = DOMAIN run.insns \cup {Len(run.insns) + 1}
        /\ \A i \in DOMAIN run.insns : r.insns[i] = run.insns[i]
        /\ r.insns[Len(run.insns) + 1] = e
    BY <1>3, <1>4, SMTT(30)
  <2> QED
    BY <1>3, <2>1, <2>2 DEF HeldByArray
<1>11. /\ r.cap = Len(r.insns) - r.f + r.cache_size /\ r.f <= r.cache_size
       /\ r.pc = "loop" => r.f < r.cache_size
       /\ r.pc = "expand" => r.f = r.cache_size
  <2>1. /\ run.f \in Nat /\ run.cache_size \in Nat /\ run.f < run.cache_size
        /\ run.cap = Len(run.insns) - run.f + run.cache_size /\ Len(run.insns) \in Nat
        /\ Len(r.insns) = Len(run.insns) + 1 /\ r.f = run.f + 1 /\ r.cap = run.cap
        /\ r.cache_size = run.cache_size /\ r.pc = where
    BY <1>1, <1>3, <1>4
  <2>2. (Len(run.insns) + 1) - (run.f + 1) + run.cache_size = Len(run.insns) - run.f + run.cache_size
    <3>1. run.f \in Nat /\ run.cache_size \in Nat /\ Len(run.insns) \in Nat
      BY <2>1
    <3>2. \A f, c, l \in Nat : (l + 1) - (f + 1) + c = l - f + c
      OBVIOUS
    <3> QED
      BY ONLY <3>1, <3>2
  <2>3. r.cap = Len(r.insns) - r.f + r.cache_size
    BY ONLY <2>1, <2>2, Zenon
  <2>4. run.f + 1 <= run.cache_size /\ (run.f + 1 # run.cache_size => run.f + 1 < run.cache_size)
    BY ONLY <2>1
  <2>5. r.f <= r.cache_size /\ (r.pc = "loop" => r.f < r.cache_size)
    BY ONLY <2>1, <2>4, <1>8
  <2>6. r.pc = "expand" => r.f = r.cache_size
    BY ONLY <2>1, <1>9
  <2> QED
    BY ONLY <2>3, <2>5, <2>6
<1> QED
  BY <1>2, <1>3, <1>4, <1>6, <1>7, <1>10, <1>11, NullAssumption

(* The other changes of a run.                                             *)
LEMMA RunChanged ==
  ASSUME CsTypeOK, run # NULL, NEW r,
         \/ r = [run EXCEPT !.pc = "end"]
         \/ run.pc = "expand" /\ run.f = run.cache_size
            /\ r = [run EXCEPT !.cache_size = (run.cache_size * 8) \div 5,
                               !.cap = @ + (run.cache_size * 8) \div 5, !.f = 0, !.pc = "loop"]
  PROVE  /\ r \in CsRun /\ r # NULL
         /\ r.array = run.array /\ r.insns = run.insns /\ r.offset = run.offset /\ r.count = run.count
         /\ r.pc = "end" \/ (run.pc = "expand" /\ r.pc = "loop")
         /\ r.cap = Len(r.insns) - r.f + r.cache_size
         /\ r.f <= r.cache_size /\ (r.pc = "loop" => r.f < r.cache_size)
         /\ HeldByArray("run", r) = HeldByArray("run", run)
<1>1. /\ run \in CsRun /\ run.f <= run.cache_size
      /\ run.cap = Len(run.insns) - run.f + run.cache_size
  BY DEF CsTypeOK
<1>2. /\ run.array \in Nat /\ run.cap \in Int /\ run.cache_size \in Nat \ {0} /\ run.f \in Nat
      /\ run.insns \in Seq(CsInsn) /\ run.offset \in Nat /\ run.count \in Nat
      /\ Len(run.insns) \in Nat
  BY <1>1 DEF CsRun
<1>3. /\ r.array = run.array /\ r.insns = run.insns /\ r.offset = run.offset /\ r.count = run.count
      /\ \/ r.pc = "end" /\ r.f = run.f /\ r.cap = run.cap /\ r.cache_size = run.cache_size
         \/ /\ run.pc = "expand" /\ r.pc = "loop" /\ r.f = 0 /\ run.f = run.cache_size
            /\ r.cache_size = (run.cache_size * 8) \div 5 /\ r.cap = run.cap + r.cache_size
  <2>1. CASE r = [run EXCEPT !.pc = "end"]
    BY ONLY <1>1, <2>1 DEF CsRun
  <2>2. CASE run.pc = "expand" /\ run.f = run.cache_size
             /\ r = [run EXCEPT !.cache_size = (run.cache_size * 8) \div 5,
                                !.cap = @ + (run.cache_size * 8) \div 5, !.f = 0, !.pc = "loop"]
    <3> DEFINE cache == (run.cache_size * 8) \div 5
               cap   == run.cap + cache
    <3>1. r = [run EXCEPT !.cache_size = cache, !.cap = cap, !.f = 0, !.pc = "loop"]
      BY <2>2, Zenon
    <3> HIDE DEF cache, cap
    <3>2. /\ r.array = run.array /\ r.insns = run.insns /\ r.offset = run.offset
          /\ r.count = run.count /\ r.pc = "loop" /\ r.f = 0 /\ r.cache_size = cache /\ r.cap = cap
      BY ONLY <1>1, <3>1 DEF CsRun
    <3> QED
      BY <2>2, <3>2 DEF cache, cap
  <2> QED
    BY <2>1, <2>2
<1>4. r = [array |-> r.array, cap |-> r.cap, cache_size |-> r.cache_size, f |-> r.f,
            insns |-> r.insns, offset |-> r.offset, count |-> r.count, pc |-> r.pc]
  BY <1>1 DEF CsRun
<1>5. \A c \in Nat \ {0} : (c * 8) \div 5 \in Nat \ {0}
  OBVIOUS
<1>6. /\ r.cap \in Int /\ r.cache_size \in Nat \ {0} /\ r.f \in Nat /\ r.f <= r.cache_size
      /\ r.pc = "loop" => r.f < r.cache_size
  <2>1. CASE r.pc = "end" /\ r.f = run.f /\ r.cap = run.cap /\ r.cache_size = run.cache_size
    BY <1>1, <1>2, <2>1
  <2>2. CASE r.f = 0 /\ r.cache_size = (run.cache_size * 8) \div 5 /\ r.cap = run.cap + r.cache_size
    <3>1. r.cache_size \in Nat \ {0}
      BY <1>2, <1>5, <2>2
    <3> QED
      BY <1>2, <2>2, <3>1, SMTT(30)
  <2> QED
    BY <1>3, <2>1, <2>2
<1>7. r.cap = Len(r.insns) - r.f + r.cache_size
  BY <1>1, <1>2, <1>3, <1>6
<1>8. r \in CsRun
  BY <1>2, <1>3, <1>4, <1>6 DEF CsRun
<1>9. HeldByArray("run", r) = HeldByArray("run", run)
  BY <1>3, <1>8, NullAssumption DEF HeldByArray
<1> QED
  BY <1>3, <1>6, <1>7, <1>8, <1>9, NullAssumption

LEMMA HandleTypes ==
  /\ \A n \in Nat, mode \in Modes : Opened(n, mode) \in CsHandle
  /\ \A h \in CsHandle : \A g \in Options(h) :
       /\ g \in CsHandle /\ g.id = h.id /\ g.index = h.index
       /\ g.skipdata_size \in {h.skipdata_size} \cup {SkipSize[m] : m \in Modes}
<1>1. \A n \in Nat, mode \in Modes : Opened(n, mode) \in CsHandle
  BY DEF Opened, CsHandle, Pointer
<1>2. ASSUME NEW h \in CsHandle, NEW g \in Options(h)
      PROVE  /\ g \in CsHandle /\ g.id = h.id /\ g.index = h.index
             /\ g.skipdata_size \in {h.skipdata_size} \cup {SkipSize[m] : m \in Modes}
  <2>1. SkipSize[h.mode] \in Nat /\ h.mode \in Modes /\ h.skipdata_size \in Nat
    BY SkipAssumption DEF CsHandle
  <2>2. CASE \E b \in BOOLEAN : g = [h EXCEPT !.detail = b]
    BY <2>2 DEF CsHandle
  <2>3. CASE \E mode \in Modes : g = [h EXCEPT !.mode = mode]
    BY <2>3 DEF CsHandle
  <2>4. CASE \E cb \in Callbacks \cup {NULL} : g = [h EXCEPT !.callback = cb]
    BY <2>4 DEF CsHandle
  <2>5. CASE g = [h EXCEPT !.skipdata = FALSE]
    BY <2>5 DEF CsHandle
  <2>6. CASE g = [h EXCEPT !.skipdata = TRUE,
                           !.skipdata_size = IF @ = 0 THEN SkipSize[h.mode] ELSE @]
    <3>1. CASE h.skipdata_size = 0
      <4>1. g = [h EXCEPT !.skipdata = TRUE, !.skipdata_size = SkipSize[h.mode]]
        BY <2>6, <3>1 DEF CsHandle
      <4> QED
        BY <2>1, <4>1 DEF CsHandle
    <3>2. CASE h.skipdata_size # 0
      <4>1. g = [h EXCEPT !.skipdata = TRUE]
        BY <2>6, <3>2 DEF CsHandle
      <4> QED
        BY <2>1, <4>1 DEF CsHandle
    <3> QED
      BY <3>1, <3>2
  <2> QED
    BY <2>2, <2>3, <2>4, <2>5, <2>6 DEF Options
<1> QED
  BY <1>1, <1>2

-----------------------------------------------------------------------------
LEMMA CsStart == CsInit => SessionInv
BY FS_EmptySet DEF CsInit, SessionInv, CsTypeOK, Calls, NothingLost, Pointers,
   HeldByHandle, HeldByArray, HeldByOne, size

LEMMA OpenInv == SessionInv /\ cs_open => SessionInv'
<1> SUFFICES ASSUME SessionInv, cs_open PROVE SessionInv'
  OBVIOUS
<1> DEFINE F == Fresh(live)
<1>1. /\ CsTypeOK /\ Calls /\ Owns(Pointers, live) /\ handle = NULL /\ run = NULL
      /\ live' = live \cup {F} /\ UNCHANGED <<session, run, got, one, at, asked>>
  BY LostMeans DEF SessionInv, cs_open, Idle
<1>2. PICK mode \in Modes : handle' = Opened(F, mode)
  BY DEF cs_open
<1>3. F \in Nat /\ F \notin live /\ F # NULL /\ live \in SUBSET Nat /\ IsFiniteSet(live)
  BY <1>1, FreshBlock DEF CsTypeOK
<1>4. /\ handle' \in CsHandle /\ handle'.id = F /\ handle'.index = NULL
      /\ handle'.skipdata_size = 0 /\ handle' # NULL
  BY <1>2, <1>3, HandleTypes, NullAssumption DEF Opened
<1> HIDE DEF F
<1>5. CsTypeOK'
  BY <1>1, <1>3, <1>4, FS_AddElement DEF CsTypeOK, session, size
<1>6. Calls'
  BY <1>1 DEF Calls, session
<1>7. Owns(Pointers', live')
  <2>1. Pointers' = (Pointers \cup {<<"handle", 0, F>>}) \cup {<<"handle", 1, NULL>>}
    BY <1>1, <1>4 DEF Pointers, HeldByHandle, HeldByArray, HeldByOne
  <2>2. Owns(Pointers \cup {<<"handle", 0, F>>}, live \cup {F})
    BY <1>1, <1>3, OwnsMore
  <2> QED
    BY <1>1, <2>1, <2>2, OwnsNull
<1> QED
  BY <1>5, <1>6, <1>7 DEF SessionInv, NothingLost, Owns

LEMMA CloseInv == SessionInv /\ cs_close => SessionInv'
<1> SUFFICES ASSUME SessionInv, cs_close PROVE SessionInv'
  OBVIOUS
<1>1. /\ CsTypeOK /\ Calls /\ Owns(Pointers, live) /\ handle # NULL /\ run = NULL /\ handle' = NULL
      /\ live' = live \ {handle.id, handle.index} /\ UNCHANGED <<session, run, got, one, at, asked>>
  BY LostMeans DEF SessionInv, cs_close, Idle
<1>2. CsTypeOK'
  BY <1>1, FS_Difference DEF CsTypeOK, session, size
<1>3. Calls'
  BY <1>1 DEF Calls, session
<1>4. Owns(Pointers', live')
  <2>1. Pointers' = Pointers \ HeldByHandle(handle)
    BY <1>1 DEF Pointers, HeldByHandle, HeldByArray, HeldByOne
  <2>2. {q[3] : q \in HeldByHandle(handle)} = {handle.id, handle.index}
    BY <1>1 DEF HeldByHandle
  <2>3. HeldByHandle(handle) \in SUBSET Pointers
    BY DEF Pointers
  <2> QED
    BY <1>1, <2>1, <2>2, <2>3, OwnsLess
<1> QED
  BY <1>2, <1>3, <1>4 DEF SessionInv, NothingLost, Owns

LEMMA OptionInv == SessionInv /\ cs_option => SessionInv'
<1> SUFFICES ASSUME SessionInv, cs_option PROVE SessionInv'
  OBVIOUS
<1>1. /\ CsTypeOK /\ Calls /\ Owns(Pointers, live) /\ handle # NULL /\ run = NULL
      /\ handle' \in Options(handle) /\ UNCHANGED <<session, live, run, got, one, at, asked>>
  BY LostMeans DEF SessionInv, cs_option, Idle
<1>2. /\ handle' \in CsHandle /\ handle'.id = handle.id /\ handle'.index = handle.index
      /\ handle'.skipdata_size \in {handle.skipdata_size} \cup {SkipSize[m] : m \in Modes}
      /\ handle' # NULL
  <2>1. handle \in CsHandle
    BY <1>1 DEF CsTypeOK
  <2> QED
    BY <1>1, <2>1, HandleTypes, NullAssumption
<1>3. CsTypeOK'
  BY <1>1, <1>2 DEF CsTypeOK, session, size
<1>4. Calls'
  BY <1>1 DEF Calls, session
<1>5. Pointers' = Pointers
  BY <1>1, <1>2 DEF Pointers, HeldByHandle, HeldByArray, HeldByOne
<1> QED
  BY <1>1, <1>3, <1>4, <1>5 DEF SessionInv, NothingLost, Owns

LEMMA Asking ==
  ASSUME CsTypeOK, handle # NULL, NEW o \in 0 .. size, NEW count \in Nat
  PROVE  Ask(handle, o, count) \in [offset : 0 .. size, count : Nat, skip : [1 .. size -> Nat], agrees : BOOLEAN]
<1>1. handle \in CsHandle
  BY DEF CsTypeOK
<1>2. \A rest \in 1 .. size : Documented(handle, rest) \in Nat
  BY <1>1, AsDocumented
<1>3. Agrees(handle) \in BOOLEAN
  BY DEF Agrees
<1> QED
  BY <1>2, <1>3 DEF Ask

LEMMA BeginInv == SessionInv /\ Begin => SessionInv'
<1> SUFFICES ASSUME SessionInv, Begin PROVE SessionInv'
  OBVIOUS
<1> DEFINE F == Fresh(live)
<1>1. /\ CsTypeOK /\ Calls /\ Owns(Pointers, live) /\ handle # NULL /\ run = NULL /\ got = NULL
      /\ caller = "array"
      /\ live' = live \cup {F} /\ UNCHANGED <<session, handle, got, one, at>>
  BY LostMeans DEF SessionInv, Begin, Idle
<1>2. PICK count \in 0 .. size :
        LET cache == IF count \in 1 .. INSN_CACHE_SIZE THEN count ELSE INSN_CACHE_SIZE IN
        /\ run' = [array |-> F, cap |-> cache, cache_size |-> cache, f |-> 0,
                   insns |-> <<>>, offset |-> 0, count |-> count, pc |-> "loop"]
        /\ asked' = Ask(handle, 0, count)
  BY DEF Begin
<1>3. F \in Nat /\ F \notin live /\ F # NULL /\ live \in SUBSET Nat /\ IsFiniteSet(live)
  BY <1>1, FreshBlock DEF CsTypeOK
<1> HIDE DEF F
<1>4. size \in Nat /\ count \in Nat
  BY <1>1, <1>2, SizesAssumption DEF CsTypeOK, size
<1>5. /\ run' \in CsRun /\ run'.array = F /\ run'.insns = <<>> /\ run'.offset = 0
      /\ run'.cap = run'.cache_size /\ run'.f = 0 /\ run'.pc = "loop" /\ run' # NULL
      /\ run'.cache_size \in Nat \ {0}
  <2> DEFINE cache == IF count \in 1 .. INSN_CACHE_SIZE THEN count ELSE INSN_CACHE_SIZE
  <2>1. cache \in Nat \ {0}
    BY <1>4, CacheAssumption
  <2>2. run' = [array |-> F, cap |-> cache, cache_size |-> cache, f |-> 0,
                insns |-> <<>>, offset |-> 0, count |-> count, pc |-> "loop"]
    BY <1>2
  <2> HIDE DEF cache
  <2>3. run' \in CsRun
    BY <1>3, <1>4, <2>1, <2>2 DEF CsRun
  <2> QED
    BY <2>1, <2>2, <2>3, NullAssumption
<1>6. asked' \in [offset : 0 .. size, count : Nat, skip : [1 .. size -> Nat], agrees : BOOLEAN]
  <2>1. 0 \in 0 .. size /\ asked' = Ask(handle, 0, count)
    BY <1>2, <1>4
  <2> QED
    BY <1>1, <1>4, <2>1, Asking
<1>7. CsTypeOK'
  BY <1>1, <1>3, <1>4, <1>5, <1>6, FS_AddElement DEF CsTypeOK, session, size
<1>8. Calls'
  BY <1>1, <1>5 DEF Calls, session
<1>9. Owns(Pointers', live')
  <2>1. Pointers' = Pointers \cup {<<"run", 0, F>>}
    BY <1>1, <1>5 DEF Pointers, HeldByHandle, HeldByArray, HeldByOne
  <2> QED
    BY <1>1, <1>3, <2>1, OwnsMore
<1> QED
  BY <1>7, <1>8, <1>9 DEF SessionInv, NothingLost, Owns

(* The pointers but those of the handle.                                   *)
LEMMA OthersHold ==
  LET others == HeldByArray("run", run) \cup HeldByArray("got", got) \cup HeldByOne(one) IN
  Pointers = HeldByHandle(handle) \cup others /\ \A p \in others : p[1] # "handle"
BY DEF Pointers, HeldByArray, HeldByOne

LEMMA DecodeInv == SessionInv /\ Decode => SessionInv'
<1> SUFFICES ASSUME SessionInv, Decode PROVE SessionInv'
  OBVIOUS
<1>1. /\ CsTypeOK /\ Calls /\ Owns(Pointers, live) /\ handle # NULL /\ run # NULL /\ got = NULL
      /\ Looping /\ UNCHANGED <<session, got, one, at, asked>>
  BY LostMeans DEF SessionInv, Decode, Looping, Idle, Calls
<1>2. PICK detail :
        /\ detail = Detail(live)
        /\ Entered(Entry(run.offset, code[run.offset + 1], FALSE, detail))
        /\ handle' = [handle EXCEPT !.index = Index(handle, (live \cup {detail}) \ {NULL})]
        /\ live' = ((live \cup {detail}) \ {NULL})
                   \cup {Index(handle, (live \cup {detail}) \ {NULL})}
  BY DEF Decode
<1> DEFINE S == (live \cup {detail}) \ {NULL}
           e == Entry(run.offset, code[run.offset + 1], FALSE, detail)
           mark == <<"run", Len(run.insns) + 1, detail>>
<1>3. live \in SUBSET Nat /\ IsFiniteSet(live) /\ NULL \notin live /\ handle \in CsHandle
  BY <1>1, SkipAssumption DEF CsTypeOK
<1>4. /\ detail = NULL \/ (detail \in Nat /\ detail \notin live)
      /\ ~handle.detail => detail = NULL
  BY <1>2, <1>3, FreshBlock DEF Detail
<1>5. S \in SUBSET Nat /\ IsFiniteSet(S) /\ S = IF detail = NULL THEN live ELSE live \cup {detail}
  <2>1. CASE detail = NULL
    <3>1. S = live
      BY <1>3, <2>1
    <3> QED
      BY <1>3, <2>1, <3>1
  <2>2. CASE detail # NULL
    <3>1. S = live \cup {detail} /\ detail \in Nat
      BY <1>3, <1>4, <2>2
    <3> QED
      <4>1. IsFiniteSet(live \cup {detail})
        BY <1>3, FS_AddElement
      <4> HIDE DEF S
      <4> QED
        BY <1>3, <2>2, <3>1, <4>1
  <2> QED
    BY <2>1, <2>2
<1>6. e \in CsInsn /\ e.bytes = code[run.offset + 1] /\ e.detail = detail
      /\ run.offset + e.bytes <= size
  <2>1. run.offset \in Nat /\ run.offset < size
    BY <1>1 DEF CsTypeOK, CsRun, Looping
  <2> QED
    BY <1>1, <1>4, <2>1, SizesFit DEF Entry, CsInsn, Pointer
<1>7. Owns(Pointers \cup {mark}, S)
  <2> HIDE DEF S
  <2>1. CASE detail = NULL
    BY <1>1, <1>5, <2>1, OwnsNull
  <2>2. CASE detail # NULL
    BY <1>1, <1>4, <1>5, <2>2, OwnsMore
  <2> QED
    BY <2>1, <2>2
<1> HIDE DEF S, e
<1>8. /\ run' \in CsRun /\ run' # NULL
      /\ run'.insns = Append(run.insns, e)
      /\ run'.cap = Len(run'.insns) - run'.f + run'.cache_size
      /\ run'.f <= run'.cache_size /\ (run'.pc = "loop" => run'.f < run'.cache_size)
      /\ run'.offset <= size
      /\ run'.pc = "expand" => run'.f = run'.cache_size
      /\ HeldByArray("run", run') = HeldByArray("run", run) \cup {mark}
  BY <1>1, <1>2, <1>6, OneEntered DEF e
<1> DEFINE R == HeldByArray("run", run) \cup HeldByArray("got", got) \cup HeldByOne(one) \cup {mark}
<1>9. Pointers \cup {mark} = HeldByHandle(handle) \cup R /\ \A p \in R : p[1] # "handle"
  BY OthersHold
<1>10. handle' = [handle EXCEPT !.index = Index(handle, S)] /\ live' = S \cup {Index(handle, S)}
  BY <1>2 DEF S
<1> HIDE DEF mark
<1>11. /\ Owns(HeldByHandle(handle') \cup R, S \cup {Index(handle, S)})
       /\ handle' \in CsHandle /\ handle'.detail = handle.detail
       /\ handle'.skipdata_size = handle.skipdata_size
       /\ Index(handle, S) \in Nat
  <2> HIDE DEF R
  <2> QED
    BY <1>1, <1>5, <1>7, <1>9, <1>10, IndexMade
<1>12. Pointers' = HeldByHandle(handle') \cup R
  BY <1>1, <1>8 DEF Pointers
<1>13. CsTypeOK'
  BY <1>1, <1>5, <1>8, <1>10, <1>11, FS_AddElement DEF CsTypeOK, session, size
<1>14. Calls'
  <2>1. handle' # NULL
    BY <1>11, NullAssumption
  <2>2. run.insns \in Seq(CsInsn)
    BY <1>1 DEF CsTypeOK, CsRun
  <2>3. ~handle'.detail => \A i \in DOMAIN run'.insns : run'.insns[i].detail = NULL
    BY <1>1, <1>4, <1>6, <1>8, <1>11, <2>2 DEF Calls
  <2> QED
    BY <1>1, <1>8, <2>1, <2>3 DEF Calls, session
<1> QED
  BY <1>10, <1>11, <1>12, <1>13, <1>14 DEF SessionInv, NothingLost, Owns

LEMMA SkipDataInv == SessionInv /\ SkipData => SessionInv'
<1> SUFFICES ASSUME SessionInv, SkipData PROVE SessionInv'
  OBVIOUS
<1> DEFINE e == Entry(run.offset, Skipped(handle, size - run.offset), TRUE, NULL)
           mark == <<"run", Len(run.insns) + 1, NULL>>
<1>1. /\ CsTypeOK /\ Calls /\ Owns(Pointers, live) /\ handle # NULL /\ run # NULL /\ got = NULL
      /\ Looping /\ Entered(e) /\ UNCHANGED <<session, handle, live, got, one, at, asked>>
  BY LostMeans DEF SessionInv, SkipData, Looping, Idle, Calls
<1>2. e \in CsInsn /\ e.detail = NULL /\ run.offset + e.bytes <= size
  <2>1. run.offset \in Nat /\ run.offset < size /\ handle \in CsHandle
    BY <1>1 DEF CsTypeOK, CsRun, Looping
  <2>2. size \in Nat
    BY <1>1, <2>1, SizesFit
  <2>3. Skipped(handle, size - run.offset) \in 0 .. size - run.offset
    BY <2>1, <2>2, SkippedFits
  <2> QED
    BY <2>1, <2>2, <2>3 DEF Entry, CsInsn, Pointer
<1> HIDE DEF e
<1>3. /\ run' \in CsRun /\ run' # NULL
      /\ run'.insns = Append(run.insns, e)
      /\ run'.cap = Len(run'.insns) - run'.f + run'.cache_size
      /\ run'.f <= run'.cache_size /\ (run'.pc = "loop" => run'.f < run'.cache_size)
      /\ run'.offset <= size
      /\ run'.pc = "expand" => run'.f = run'.cache_size
      /\ HeldByArray("run", run') = HeldByArray("run", run) \cup {mark}
  BY <1>1, <1>2, OneEntered
<1>4. Owns(Pointers', live')
  <2>1. Owns(Pointers \cup {mark}, live)
    BY <1>1, OwnsNull
  <2>2. Pointers' = Pointers \cup {mark}
    BY <1>1, <1>3 DEF Pointers
  <2> QED
    BY <1>1, <2>1, <2>2
<1>5. CsTypeOK'
  BY <1>1, <1>3 DEF CsTypeOK, session, size
<1>6. Calls'
  <2>1. run.insns \in Seq(CsInsn)
    BY <1>1 DEF CsTypeOK, CsRun
  <2>2. ~handle.detail => \A i \in DOMAIN run'.insns : run'.insns[i].detail = NULL
    BY <1>1, <1>2, <1>3, <2>1 DEF Calls
  <2> QED
    BY <1>1, <1>3, <2>2 DEF Calls, session
<1> QED
  BY <1>4, <1>5, <1>6 DEF SessionInv, NothingLost, Owns

LEMMA ChangeInv == SessionInv /\ (GiveUp \/ EndOfCode \/ Expand) => SessionInv'
<1> SUFFICES ASSUME SessionInv, GiveUp \/ EndOfCode \/ Expand PROVE SessionInv'
  OBVIOUS
<1>1. /\ CsTypeOK /\ Calls /\ Owns(Pointers, live) /\ run # NULL
      /\ UNCHANGED <<session, handle, live, got, one, at, asked>>
  BY LostMeans DEF SessionInv, GiveUp, EndOfCode, Expand, Looping, Idle
<1>2. \/ run' = [run EXCEPT !.pc = "end"]
      \/ run.pc = "expand" /\ run.f = run.cache_size
         /\ run' = [run EXCEPT !.cache_size = (run.cache_size * 8) \div 5,
                               !.cap = @ + (run.cache_size * 8) \div 5, !.f = 0, !.pc = "loop"]
  BY <1>1 DEF GiveUp, EndOfCode, Expand, Calls
<1>3. /\ run' \in CsRun /\ run' # NULL
      /\ run'.array = run.array /\ run'.insns = run.insns /\ run'.offset = run.offset
      /\ run'.pc = "end" \/ (run.pc = "expand" /\ run'.pc = "loop")
      /\ run'.cap = Len(run'.insns) - run'.f + run'.cache_size
      /\ run'.f <= run'.cache_size /\ (run'.pc = "loop" => run'.f < run'.cache_size)
      /\ HeldByArray("run", run') = HeldByArray("run", run)
  BY <1>1, <1>2, RunChanged
<1>4. CsTypeOK'
  BY <1>1, <1>3 DEF CsTypeOK, session, size
<1>5. Calls'
  BY <1>1, <1>3 DEF Calls, session
<1>6. Pointers' = Pointers
  BY <1>1, <1>3 DEF Pointers
<1> QED
  BY <1>1, <1>4, <1>5, <1>6 DEF SessionInv, NothingLost, Owns

(* The blocks of an array.                                                 *)
LEMMA BlocksOf ==
  ASSUME NEW w, NEW r, r # NULL
  PROVE  {q[3] : q \in HeldByArray(w, r)} \ {NULL} = ({r.array} \ {NULL}) \cup DetailsOf(r.insns)
<1> DEFINE D == DOMAIN r.insns
           X == {<<w, 0, r.array>>} \cup {<<w, i, r.insns[i].detail>> : i \in D}
<1>1. HeldByArray(w, r) = X
  BY DEF HeldByArray
<1>2. \A p \in X : p[3] = r.array \/ \E i \in D : p[3] = r.insns[i].detail
  OBVIOUS
<1>3. <<w, 0, r.array>> \in X /\ <<w, 0, r.array>>[3] = r.array
  OBVIOUS
<1>4. \A i \in D : <<w, i, r.insns[i].detail>> \in X /\ <<w, i, r.insns[i].detail>>[3] = r.insns[i].detail
  OBVIOUS
<1> HIDE DEF X
<1>5. {q[3] : q \in X} = {r.array} \cup {r.insns[i].detail : i \in D}
  BY ONLY <1>2, <1>3, <1>4, ZenonT(30)
<1> QED
  BY <1>1, <1>5 DEF DetailsOf

LEMMA FreeingInv ==
  ASSUME SessionInv, UNCHANGED <<session, handle, one, at, asked>>, run' = NULL, got' = NULL,
         live' = live \ (({run.array} \cup DetailsOf(run.insns))), run # NULL
  PROVE  SessionInv'
<1>1. CsTypeOK /\ Calls /\ Owns(Pointers, live) /\ got = NULL /\ live \in SUBSET Nat
  BY LostMeans DEF SessionInv, Calls, CsTypeOK
<1>2. Owns(Pointers', live')
  <2>1. HeldByArray("run", run) \in SUBSET Pointers
    BY DEF Pointers
  <2>2. Pointers' = Pointers \ HeldByArray("run", run)
    BY <1>1 DEF Pointers, HeldByHandle, HeldByArray, HeldByOne
  <2>3. Owns(Pointers', live \ {q[3] : q \in HeldByArray("run", run)})
    BY <1>1, <2>1, <2>2, OwnsLess
  <2>4. live \ {q[3] : q \in HeldByArray("run", run)} = live'
    <3>1. NULL \notin live
      BY <1>1, SkipAssumption
    <3> DEFINE B == {q[3] : q \in HeldByArray("run", run)}
    <3>2. B \ {NULL} = ({run.array} \ {NULL}) \cup DetailsOf(run.insns)
      BY BlocksOf
    <3> HIDE DEF B
    <3>3. live \ B = live'
      BY <3>1, <3>2
    <3> QED
      BY <3>3 DEF B
  <2> QED
    BY <2>3, <2>4
<1>3. CsTypeOK'
  BY <1>1, FS_Difference DEF CsTypeOK, session, size
<1>4. Calls'
  BY <1>1 DEF Calls, session
<1> QED
  BY <1>2, <1>3, <1>4 DEF SessionInv, NothingLost, Owns

LEMMA OutOfMemoryInv == SessionInv /\ (OutOfMemory \/ NoneFound) => SessionInv'
<1> SUFFICES ASSUME SessionInv, OutOfMemory \/ NoneFound PROVE SessionInv'
  OBVIOUS
<1>1. /\ UNCHANGED <<session, handle, one, at, asked>> /\ run' = NULL /\ got' = NULL /\ run # NULL
      /\ run \in CsRun
  BY DEF SessionInv, CsTypeOK, OutOfMemory, NoneFound, Idle
<1>2. CASE OutOfMemory
  <2>1. live' = live \ Lost(run)
    BY <1>2 DEF OutOfMemory
  <2>2. ~handle.detail => DetailsOf(run.insns) = {}
    BY <1>1 DEF SessionInv, Calls, DetailsOf
  <2>3. Lost(run) = {run.array} \cup DetailsOf(run.insns)
    BY <2>2 DEF Lost
  <2> QED
    BY <1>1, <2>1, <2>3, FreeingInv
<1>3. CASE NoneFound
  <2>1. live' = live \ {run.array} /\ run.insns = <<>>
    BY <1>3 DEF NoneFound
  <2>2. DetailsOf(run.insns) = {}
    BY <2>1 DEF DetailsOf
  <2> QED
    BY <1>1, <2>1, <2>2, FreeingInv
<1> QED
  BY <1>2, <1>3

LEMMA FoundInv == SessionInv /\ Found => SessionInv'
<1> SUFFICES ASSUME SessionInv, Found PROVE SessionInv'
  OBVIOUS
<1>1. /\ CsTypeOK /\ Calls /\ Owns(Pointers, live) /\ run # NULL /\ got = NULL /\ run' = NULL
      /\ UNCHANGED <<session, handle, live, one, at, asked>> /\ run \in CsRun
      /\ got' = [array |-> run.array, cap |-> run.cap - (run.cache_size - run.f), insns |-> run.insns]
  BY LostMeans DEF SessionInv, Found, Idle, Calls, CsTypeOK
<1>2. /\ run.cap = Len(run.insns) - run.f + run.cache_size /\ run.f \in Nat
      /\ run.cache_size \in Nat /\ Len(run.insns) \in Nat /\ run.array \in Nat
      /\ run.insns \in Seq(CsInsn) /\ run.cap \in Int
  BY <1>1 DEF CsTypeOK, CsRun
<1>3. /\ got' \in CsArray /\ got' # NULL /\ got'.array = run.array /\ got'.insns = run.insns
      /\ got'.cap = Len(got'.insns)
  <2>1. run.cap - (run.cache_size - run.f) = Len(run.insns)
    BY <1>2
  <2>2. got' \in CsArray
    BY <1>1, <1>2, <2>1 DEF CsArray
  <2> QED
    BY <1>1, <2>1, <2>2, NullAssumption
<1>4. CsTypeOK'
  BY <1>1, <1>3 DEF CsTypeOK, session, size
<1>5. Calls'
  BY <1>1, <1>3 DEF Calls, session
<1>6. Owns(Pointers', live')
  <2> DEFINE P == HeldByHandle(handle) \cup HeldByOne(one)
  <2>1. Pointers = P \cup HeldByArray("run", run)
    BY <1>1 DEF Pointers, HeldByArray
  <2>2. HeldByArray("got", got') = HeldByArray("got", run)
    BY <1>1, <1>3 DEF HeldByArray
  <2>3. Pointers' = P \cup HeldByArray("got", run)
    BY <1>1, <2>2 DEF Pointers, HeldByArray
  <2>4. P \cap HeldByArray("got", run) = {} /\ P \cap HeldByArray("run", run) = {}
    BY DEF HeldByHandle, HeldByOne, HeldByArray
  <2> HIDE DEF P
  <2> QED
    BY <1>1, <2>1, <2>3, <2>4, OwnsMoved
<1> QED
  BY <1>4, <1>5, <1>6 DEF SessionInv, NothingLost, Owns

LEMMA FreeArrayInv == SessionInv /\ FreeArray => SessionInv'
<1> SUFFICES ASSUME SessionInv, FreeArray PROVE SessionInv'
  OBVIOUS
<1>1. /\ CsTypeOK /\ Calls /\ Owns(Pointers, live) /\ got # NULL /\ got' = NULL
      /\ live' = live \ ({got.array} \cup DetailsOf(got.insns)) /\ live \in SUBSET Nat
      /\ UNCHANGED <<session, handle, run, one, at, asked>>
  BY LostMeans DEF SessionInv, FreeArray, CsTypeOK
<1>2. Owns(Pointers', live')
  <2>1. HeldByArray("got", got) \in SUBSET Pointers
    BY DEF Pointers
  <2>2. Pointers' = Pointers \ HeldByArray("got", got)
    BY <1>1 DEF Pointers, HeldByHandle, HeldByArray, HeldByOne
  <2>3. Owns(Pointers', live \ {q[3] : q \in HeldByArray("got", got)})
    BY <1>1, <2>1, <2>2, OwnsLess
  <2>4. live \ {q[3] : q \in HeldByArray("got", got)} = live'
    <3>1. NULL \notin live
      BY <1>1, SkipAssumption
    <3> DEFINE B == {q[3] : q \in HeldByArray("got", got)}
    <3>2. B \ {NULL} = ({got.array} \ {NULL}) \cup DetailsOf(got.insns)
      BY <1>1, BlocksOf
    <3> HIDE DEF B
    <3>3. live \ B = live'
      BY <1>1, <3>1, <3>2
    <3> QED
      BY <3>3 DEF B
  <2> QED
    BY <2>3, <2>4
<1>3. CsTypeOK'
  BY <1>1, FS_Difference DEF CsTypeOK, session, size
<1>4. Calls'
  BY <1>1 DEF Calls, session
<1> QED
  BY <1>2, <1>3, <1>4 DEF SessionInv, NothingLost, Owns

LEMMA MallocInv == SessionInv /\ cs_malloc => SessionInv'
<1> SUFFICES ASSUME SessionInv, cs_malloc PROVE SessionInv'
  OBVIOUS
<1> DEFINE id == Fresh(live)
<1>1. /\ CsTypeOK /\ Calls /\ Owns(Pointers, live) /\ handle # NULL /\ caller = "iter" /\ one = NULL
      /\ at' = 0 /\ asked' = NULL /\ UNCHANGED <<session, handle, run, got>>
  BY LostMeans DEF SessionInv, cs_malloc
<1>2. PICK detail :
        /\ detail = Detail(live \cup {id})
        /\ one' = [id |-> id, detail |-> detail, last |-> NULL]
        /\ live' = (live \cup {id, detail}) \ {NULL}
  BY DEF cs_malloc
<1>3. /\ id \in Nat /\ id \notin live /\ id # NULL /\ live \in SUBSET Nat /\ IsFiniteSet(live)
      /\ NULL \notin live /\ live \cup {id} \in SUBSET Nat /\ IsFiniteSet(live \cup {id})
  <2>1. live \in SUBSET Nat /\ IsFiniteSet(live) /\ NULL \notin live
    BY <1>1, SkipAssumption DEF CsTypeOK
  <2>2. id \in Nat /\ id \notin live /\ id # NULL
    BY <2>1, FreshBlock
  <2> HIDE DEF id
  <2> QED
    BY <2>1, <2>2, FS_AddElement
<1> HIDE DEF id
<1>4. detail = NULL \/ (detail \in Nat /\ detail \notin live \cup {id})
  BY <1>2, <1>3, FreshBlock DEF Detail
<1>5. /\ one' \in CsOne /\ one' # NULL /\ one'.id = id /\ one'.detail = detail
  BY <1>2, <1>3, <1>4, NullAssumption DEF CsOne, Pointer
<1>6. Owns(Pointers \cup {<<"one", 0, id>>}, live \cup {id})
  BY <1>1, <1>3, OwnsMore
<1>7. Pointers' = (Pointers \cup {<<"one", 0, id>>}) \cup {<<"one", 1, detail>>}
  BY <1>1, <1>5 DEF Pointers, HeldByOne
<1>8. Owns(Pointers', live') /\ IsFiniteSet(live') /\ live' \in SUBSET Nat
  <2>1. CASE detail = NULL
    <3>1. live' = live \cup {id}
      BY <1>2, <1>3, <2>1
    <3> QED
      BY <1>3, <1>6, <1>7, <2>1, <3>1, OwnsNull
  <2>2. CASE detail # NULL
    <3>1. live' = (live \cup {id}) \cup {detail}
      BY <1>2, <1>3, <2>2
    <3>2. Owns((Pointers \cup {<<"one", 0, id>>}) \cup {<<"one", 1, detail>>}, (live \cup {id}) \cup {detail})
      BY <1>4, <1>6, <2>2, OwnsMore
    <3> QED
      BY <1>3, <1>4, <1>7, <2>2, <3>1, <3>2, FS_AddElement
  <2> QED
    BY <2>1, <2>2
<1>9. CsTypeOK'
  <2>1. size \in Nat
    BY <1>1, SizesAssumption DEF CsTypeOK, size
  <2> QED
    BY <1>1, <1>5, <1>8, <2>1 DEF CsTypeOK, session, size
<1>10. Calls'
  BY <1>1 DEF Calls, session
<1> QED
  BY <1>8, <1>9, <1>10 DEF SessionInv, NothingLost, Owns

LEMMA FreeOneInv == SessionInv /\ FreeOne => SessionInv'
<1> SUFFICES ASSUME SessionInv, FreeOne PROVE SessionInv'
  OBVIOUS
<1>1. /\ CsTypeOK /\ Calls /\ Owns(Pointers, live) /\ one # NULL /\ one' = NULL
      /\ live' = live \ {one.id, one.detail} /\ at' = 0 /\ asked' = NULL
      /\ UNCHANGED <<session, handle, run, got>>
  BY LostMeans DEF SessionInv, FreeOne
<1>2. Owns(Pointers', live')
  <2>1. Pointers' = Pointers \ HeldByOne(one)
    BY <1>1 DEF Pointers, HeldByHandle, HeldByArray, HeldByOne
  <2>2. {q[3] : q \in HeldByOne(one)} = {one.id, one.detail}
    BY <1>1 DEF HeldByOne
  <2>3. HeldByOne(one) \in SUBSET Pointers
    BY DEF Pointers
  <2> QED
    BY <1>1, <2>1, <2>2, <2>3, OwnsLess
<1>3. CsTypeOK'
  <2>1. size \in Nat
    BY <1>1, SizesAssumption DEF CsTypeOK, size
  <2> QED
    <3>1. live' \in SUBSET Nat /\ IsFiniteSet(live')
      BY <1>1, FS_Difference DEF CsTypeOK
    <3> QED
      BY <1>1, <2>1, <3>1 DEF CsTypeOK, session, size
<1>4. Calls'
  BY <1>1 DEF Calls, session
<1> QED
  BY <1>2, <1>3, <1>4 DEF SessionInv, NothingLost, Owns

LEMMA OneChanged ==
  ASSUME NEW o \in CsOne, NEW e \in [address : Nat, bytes : Nat, data : BOOLEAN] \cup {NULL},
         NEW n, n = [o EXCEPT !.last = e]
  PROVE  n \in CsOne /\ n # NULL /\ n.last = e /\ HeldByOne(n) = HeldByOne(o)
<1>1. n \in CsOne /\ n.last = e /\ n.id = o.id /\ n.detail = o.detail
  BY DEF CsOne
<1> QED
  BY <1>1, NullAssumption DEF HeldByOne

(* What cs_disasm_iter finds.                                              *)
Single(o, bytes, data) == [address |-> o, bytes |-> bytes, data |-> data]

LEMMA IterSteps ==
  ASSUME SessionInv, cs_disasm_iter
  PROVE  /\ handle # NULL /\ one # NULL /\ asked' = Ask(handle, at, 1)
         /\ UNCHANGED <<session, run, got>> /\ run = NULL
         /\ \/ /\ at < size /\ code[at + 1] # 0
               /\ one' = [one EXCEPT !.last = Single(at, code[at + 1], FALSE)]
               /\ at' = at + code[at + 1]
               /\ handle' = [handle EXCEPT !.index = Index(handle, live)]
               /\ live' = live \cup {Index(handle, live)}
            \/ /\ at < size /\ code[at + 1] = 0 /\ Skipped(handle, size - at) # 0
               /\ one' = [one EXCEPT !.last = Single(at, Skipped(handle, size - at), TRUE)]
               /\ at' = at + Skipped(handle, size - at)
               /\ UNCHANGED <<handle, live>>
            \/ /\ at < size => code[at + 1] = 0 /\ Skipped(handle, size - at) = 0
               /\ one' = [one EXCEPT !.last = NULL]
               /\ UNCHANGED <<handle, live, at>>
BY CacheAssumption DEF cs_disasm_iter, Moves, Single, SessionInv, Calls

LEMMA IterInv == SessionInv /\ cs_disasm_iter => SessionInv'
<1> SUFFICES ASSUME SessionInv, cs_disasm_iter PROVE SessionInv'
  OBVIOUS
<1>1. /\ CsTypeOK /\ Calls /\ Owns(Pointers, live) /\ one \in CsOne /\ handle \in CsHandle
      /\ handle # NULL /\ one # NULL /\ asked' = Ask(handle, at, 1) /\ run = NULL
      /\ UNCHANGED <<session, run, got>> /\ at \in Nat /\ size \in Nat /\ at <= size
  <2>1. CsTypeOK /\ Calls /\ Owns(Pointers, live)
    BY LostMeans DEF SessionInv
  <2>2. /\ handle # NULL /\ one # NULL /\ asked' = Ask(handle, at, 1)
        /\ UNCHANGED <<session, run, got>> /\ run = NULL
    BY IterSteps
  <2>3. size \in Nat
    BY <2>1, SizesAssumption DEF CsTypeOK, size
  <2> QED
    BY <2>1, <2>2, <2>3 DEF CsTypeOK
<1>2. asked' \in [offset : 0 .. size, count : Nat, skip : [1 .. size -> Nat], agrees : BOOLEAN]
  <2>1. at \in 0 .. size /\ 1 \in Nat
    BY <1>1
  <2> QED
    BY <1>1, <2>1, Asking
<1>3. CASE /\ at < size /\ code[at + 1] # 0
           /\ one' = [one EXCEPT !.last = Single(at, code[at + 1], FALSE)]
           /\ at' = at + code[at + 1]
           /\ handle' = [handle EXCEPT !.index = Index(handle, live)]
           /\ live' = live \cup {Index(handle, live)}
  <2> DEFINE e == Single(at, code[at + 1], FALSE)
             R == HeldByArray("run", run) \cup HeldByArray("got", got) \cup HeldByOne(one)
  <2>1. code[at + 1] \in Nat /\ at + code[at + 1] <= size
    BY <1>1, <1>3, SizesFit
  <2>2. e \in [address : Nat, bytes : Nat, data : BOOLEAN]
    BY <1>1, <2>1 DEF Single
  <2>3. one' \in CsOne /\ one' # NULL /\ HeldByOne(one') = HeldByOne(one)
    <3>1. one' = [one EXCEPT !.last = e]
      BY <1>3
    <3> HIDE DEF e
    <3> QED
      BY <1>1, <2>2, <3>1, OneChanged
  <2>4. live \in SUBSET Nat /\ IsFiniteSet(live)
    BY <1>1 DEF CsTypeOK
  <2>5. Owns(HeldByHandle(handle) \cup R, live) /\ \A p \in R : p[1] # "handle"
    BY <1>1, OthersHold
  <2> HIDE DEF e, R
  <2>6. /\ Owns(HeldByHandle(handle') \cup R, live')
        /\ handle' \in CsHandle /\ handle'.skipdata_size = handle.skipdata_size
        /\ Index(handle, live) \in Nat
    BY <1>1, <1>3, <2>4, <2>5, IndexMade
  <2>7. Owns(Pointers', live')
    BY <1>1, <2>3, <2>6 DEF Pointers, R
  <2>8. CsTypeOK'
    <3>1. at' \in 0 .. size
      BY <1>1, <1>3, <2>1
    <3>2. live' \in SUBSET Nat /\ IsFiniteSet(live')
      BY <1>3, <2>4, <2>6, FS_AddElement
    <3>3. UNCHANGED <<code, caller, fault, run, got, size>>
      BY <1>1 DEF session, size
    <3> QED
      BY <1>1, <1>2, <2>3, <2>6, <3>1, <3>2, <3>3 DEF CsTypeOK
  <2>9. Calls'
    BY <1>1, <2>3 DEF Calls, session
  <2> QED
    BY <2>7, <2>8, <2>9 DEF SessionInv, NothingLost, Owns
<1>4. CASE /\ at < size /\ code[at + 1] = 0 /\ Skipped(handle, size - at) # 0
           /\ one' = [one EXCEPT !.last = Single(at, Skipped(handle, size - at), TRUE)]
           /\ at' = at + Skipped(handle, size - at)
           /\ UNCHANGED <<handle, live>>
  <2> DEFINE e == Single(at, Skipped(handle, size - at), TRUE)
  <2>1. Skipped(handle, size - at) \in 0 .. size - at
    BY <1>1, <1>4, SkippedFits
  <2>2. e \in [address : Nat, bytes : Nat, data : BOOLEAN] /\ at' \in 0 .. size
    BY <1>1, <1>4, <2>1 DEF Single
  <2>3. one' \in CsOne /\ one' # NULL /\ HeldByOne(one') = HeldByOne(one)
    <3>1. one' = [one EXCEPT !.last = e]
      BY <1>4
    <3> HIDE DEF e
    <3> QED
      BY <1>1, <2>2, <3>1, OneChanged
  <2> HIDE DEF e
  <2>4. CsTypeOK' /\ Calls' /\ Pointers' = Pointers
    BY <1>1, <1>2, <1>4, <2>2, <2>3 DEF CsTypeOK, Calls, Pointers, session, size
  <2> QED
    BY <1>1, <1>4, <2>4 DEF SessionInv, NothingLost, Owns
<1>5. CASE one' = [one EXCEPT !.last = NULL] /\ UNCHANGED <<handle, live, at>>
  <2>1. one' \in CsOne /\ one' # NULL /\ HeldByOne(one') = HeldByOne(one)
    BY <1>1, <1>5, OneChanged
  <2>2. CsTypeOK' /\ Calls' /\ Pointers' = Pointers
    BY <1>1, <1>2, <1>5, <2>1 DEF CsTypeOK, Calls, Pointers, session, size
  <2> QED
    BY <1>1, <1>5, <2>2 DEF SessionInv, NothingLost, Owns
<1> QED
  BY IterSteps, <1>3, <1>4, <1>5

(* After a fault everything stays as it was.                               *)
LEMMA FaultInv ==
  SessionInv /\ (OpenFails \/ DecodeFails \/ SkipDataFails \/ IterFails) => SessionInv'
<1> SUFFICES ASSUME SessionInv, OpenFails \/ DecodeFails \/ SkipDataFails \/ IterFails PROVE SessionInv'
  OBVIOUS
<1>1. /\ UNCHANGED <<code, caller, handle, live, run, got, one, at, asked>>
      /\ fault' \in {"null_write", "overrun"}
  BY DEF OpenFails, DecodeFails, SkipDataFails, IterFails, Fails
<1>2. CsTypeOK'
  BY <1>1 DEF SessionInv, CsTypeOK, size
<1>3. Calls' /\ NothingLost'
  BY <1>1 DEF SessionInv, Calls, NothingLost, Pointers
<1> QED
  BY <1>2, <1>3 DEF SessionInv

LEMMA CsStutter == SessionInv /\ UNCHANGED cs_vars => SessionInv'
BY DEF cs_vars, session, SessionInv, CsTypeOK, Calls, NothingLost, Pointers, size

LEMMA SessionStep == SessionInv /\ [CsNext]_cs_vars => SessionInv'
BY OpenInv, CloseInv, OptionInv, BeginInv, DecodeInv, SkipDataInv, ChangeInv, OutOfMemoryInv,
   FoundInv, FreeArrayInv, MallocInv, IterInv, FreeOneInv, FaultInv, CsStutter
   DEF CsNext, cs_disasm, CallerCalls, CsStopped

-----------------------------------------------------------------------------
(* The instructions found so far are the first of those asked for.         *)
Search ==
  /\ run # NULL =>
       /\ asked = Ask(handle, 0, run.count)
       /\ Consecutive(asked, run.insns)
       /\ run.offset = After(asked, run.insns, Len(run.insns))
       /\ IF run.pc = "end" THEN Answers(asked, run.insns)
          ELSE run.count = 0 \/ Len(run.insns) < run.count
  /\ GivesDocumented

Agreed    == asked # NULL /\ asked.agrees
SearchInv == SessionInv /\ (Agreed => Search)
Searching == SessionInv /\ Agreed /\ Search

LEMMA Advances ==
  ASSUME CsTypeOK, NEW h \in CsHandle, NEW o \in Nat, NEW x, NEW c, Agrees(h)
  PROVE  /\ o = size => Advance(Ask(h, x, c), o) = 0
         /\ o < size /\ code[o + 1] # 0 => Advance(Ask(h, x, c), o) = code[o + 1]
         /\ o < size /\ code[o + 1] = 0 => Advance(Ask(h, x, c), o) = Skipped(h, size - o)
<1> DEFINE q == Ask(h, x, c)
<1>1. size \in Nat
  BY SizesAssumption DEF CsTypeOK, size
<1>2. o < size => q.skip[size - o] = Skipped(h, size - o)
  <2> SUFFICES ASSUME o < size PROVE q.skip[size - o] = Skipped(h, size - o)
    OBVIOUS
  <2>1. size - o \in 1 .. size /\ size - o \in Nat
    BY <1>1
  <2>2. q.skip[size - o] = Documented(h, size - o)
    BY <2>1 DEF Ask
  <2> QED
    BY <2>1, <2>2, AsDocumented
<1> HIDE DEF q
<1>3. o = size => Advance(q, o) = 0
  BY DEF Advance
<1>4. o < size /\ code[o + 1] # 0 => Advance(q, o) = code[o + 1]
  <2> SUFFICES ASSUME o < size, code[o + 1] # 0 PROVE Advance(q, o) = code[o + 1]
    OBVIOUS
  <2>1. o # size
    BY <1>1
  <2> QED
    BY <2>1 DEF Advance
<1>5. o < size /\ code[o + 1] = 0 => Advance(q, o) = Skipped(h, size - o)
  <2> SUFFICES ASSUME o < size, code[o + 1] = 0 PROVE Advance(q, o) = Skipped(h, size - o)
    OBVIOUS
  <2>1. o # size
    BY <1>1
  <2>2. Advance(q, o) = q.skip[size - o]
    BY <2>1 DEF Advance
  <2> QED
    BY <1>2, <2>2
<1> QED
  BY <1>3, <1>4, <1>5 DEF q

LEMMA Appending ==
  ASSUME NEW q, NEW insns \in Seq(CsInsn), NEW e \in CsInsn, Consecutive(q, insns),
         NEW o, o = After(q, insns, Len(insns)), o < size, Advance(q, o) # 0,
         e.address = o, e.bytes = Advance(q, o), e.data <=> code[o + 1] = 0
  PROVE  /\ Consecutive(q, Append(insns, e))
         /\ After(q, Append(insns, e), Len(Append(insns, e))) = o + e.bytes
<1> DEFINE more == Append(insns, e)
<1>1. /\ Len(insns) \in Nat /\ Len(more) = Len(insns) + 1
      /\ DOMAIN more = 1 .. Len(insns) + 1 /\ DOMAIN insns = 1 .. Len(insns)
      /\ \A i \in 1 .. Len(insns) : more[i] = insns[i]
      /\ more[Len(insns) + 1] = e
  OBVIOUS
<1> HIDE DEF more
<1>2. \A i \in 0 .. Len(insns) : After(q, more, i) = After(q, insns, i)
  BY <1>1 DEF After
<1>3. After(q, more, Len(more)) = o + e.bytes
  BY <1>1 DEF After
<1>4. Consecutive(q, more)
  <2> SUFFICES ASSUME NEW i \in 1 .. Len(insns) + 1
               PROVE  LET p == After(q, more, i - 1) IN
                      /\ p < size /\ Advance(q, p) # 0
                      /\ more[i].address = p /\ more[i].bytes = Advance(q, p)
                      /\ more[i].data <=> code[p + 1] = 0
    BY <1>1 DEF Consecutive
  <2>1. i - 1 \in 0 .. Len(insns) /\ After(q, more, i - 1) = After(q, insns, i - 1)
    BY <1>1, <1>2
  <2>2. CASE i \in 1 .. Len(insns)
    BY <1>1, <2>1, <2>2 DEF Consecutive
  <2>3. CASE i = Len(insns) + 1
    BY <1>1, <2>1, <2>3
  <2> QED
    BY <1>1, <2>2, <2>3
<1> QED
  BY <1>3, <1>4 DEF more

(* The handle changes in nothing that is asked for.                        *)
LEMMA SameQuestion ==
  ASSUME NEW h, NEW g, g.skipdata = h.skipdata, g.skipdata_size = h.skipdata_size,
         g.callback = h.callback, g.mode = h.mode, NEW o, NEW count
  PROVE  Ask(g, o, count) = Ask(h, o, count)
<1>1. (\A rest : Documented(g, rest) = Documented(h, rest)) /\ Agrees(g) = Agrees(h)
  BY DEF Documented, Agrees
<1> QED
  BY <1>1 DEF Ask

LEMMA SearchStart == CsInit => ~Agreed
BY DEF CsInit, Agreed

(* What is to be shown of a step, in terms of the code as it is.           *)
LEMMA Carried ==
  ASSUME code' = code,
         run' # NULL =>
           /\ asked' = Ask(handle', 0, run'.count)
           /\ Consecutive(asked', run'.insns)
           /\ run'.offset = After(asked', run'.insns, Len(run'.insns))
           /\ IF run'.pc = "end" THEN Answers(asked', run'.insns)
              ELSE run'.count = 0 \/ Len(run'.insns) < run'.count,
         got' # NULL => Answers(asked', got'.insns),
         one' # NULL /\ asked' # NULL =>
           Answers(asked', IF one'.last = NULL THEN <<>> ELSE <<one'.last>>)
  PROVE  Search'
<1>1. size' = size
  BY DEF size
<1>2. (run' # NULL => asked' = Ask(handle', 0, run'.count)) =>
        (run # NULL => asked = Ask(handle, 0, run.count))'
  BY <1>1 DEF Ask
<1>3. (run # NULL =>
         /\ Consecutive(asked, run.insns)
         /\ run.offset = After(asked, run.insns, Len(run.insns))
         /\ IF run.pc = "end" THEN Answers(asked, run.insns)
            ELSE run.count = 0 \/ Len(run.insns) < run.count)'
  BY <1>1 DEF Answers, Consecutive, Advance, After
<1>4. (got # NULL => Answers(asked, got.insns))'
  BY <1>1 DEF Answers, Consecutive, Advance, After
<1>5. (one # NULL /\ asked # NULL => Answers(asked, IF one.last = NULL THEN <<>> ELSE <<one.last>>))'
  BY <1>1, ZenonT(30) DEF Answers, Consecutive, Advance, After
<1> QED
  BY <1>2, <1>3, <1>4, <1>5 DEF Search, GivesDocumented

LEMMA SearchBegins == SessionInv /\ Begin => Search'
<1> SUFFICES ASSUME SessionInv, Begin PROVE Search'
  OBVIOUS
<1>1. /\ CsTypeOK /\ Calls /\ handle # NULL /\ got' = NULL /\ one' = one /\ handle' = handle
      /\ caller = "array" /\ code' = code /\ size \in Nat
  BY SizesAssumption DEF SessionInv, CsTypeOK, Begin, session, size
<1>2. one' = NULL
  BY <1>1 DEF Calls
<1>3. PICK count \in 0 .. size :
        /\ run'.insns = <<>> /\ run'.offset = 0 /\ run'.count = count /\ run'.pc = "loop"
        /\ asked' = Ask(handle, 0, count)
  BY DEF Begin
<1>4. Ask(handle, 0, count).offset = 0
  BY DEF Ask
<1>5. asked' = Ask(handle, 0, count)'
  BY <1>1, <1>3 DEF Ask, Documented, Agrees, size
<1> QED
  BY <1>1, <1>2, <1>3, <1>4
  DEF Search, GivesDocumented, Answers, Consecutive, After, Advance, Ask, Documented, Agrees, size

(* One more instruction was found, where one was looked for.               *)
LEMMA SearchEnters ==
  ASSUME Searching, Looping, NEW e \in CsInsn, Entered(e), run.offset + e.bytes <= size,
         e.address = run.offset, e.bytes = Advance(asked, run.offset), e.bytes # 0,
         e.data <=> code[run.offset + 1] = 0,
         UNCHANGED <<session, got, one, asked>>,
         Ask(handle', 0, run.count) = Ask(handle, 0, run.count)
  PROVE  Search'
<1>1. /\ CsTypeOK /\ Calls /\ run # NULL /\ run \in CsRun /\ code' = code
      /\ got' = NULL /\ one' = NULL /\ run.offset < size /\ run.pc = "loop"
  BY DEF Searching, SessionInv, CsTypeOK, Calls, Looping, Idle, session
<1>2. /\ run'.insns = Append(run.insns, e) /\ Len(run'.insns) = Len(run.insns) + 1
      /\ run'.count = run.count /\ run'.offset = run.offset + e.bytes
      /\ run'.pc = "end" <=> Enough(Len(run'.insns), run'.count)
  BY <1>1, OneEntered
<1>3. /\ asked = Ask(handle, 0, run.count) /\ Consecutive(asked, run.insns)
      /\ run.offset = After(asked, run.insns, Len(run.insns))
      /\ run.count = 0 \/ Len(run.insns) < run.count
  BY <1>1 DEF Searching, Search
<1>4. run.insns \in Seq(CsInsn) /\ run.count \in Nat /\ Len(run.insns) \in Nat
  BY <1>1 DEF CsRun
<1>5. /\ Consecutive(asked, run'.insns)
      /\ After(asked, run'.insns, Len(run'.insns)) = run.offset + e.bytes
  BY <1>1, <1>2, <1>3, <1>4, Appending
<1>6. asked.count = run.count
  BY <1>3 DEF Ask
<1>7. IF run'.pc = "end" THEN Answers(asked, run'.insns)
      ELSE run'.count = 0 \/ Len(run'.insns) < run'.count
  <2>1. CASE run'.pc = "end"
    BY <1>2, <1>4, <1>5, <1>6, <2>1 DEF Answers, Enough
  <2>2. CASE run'.pc # "end"
    <3>1. ~Enough(Len(run'.insns), run'.count)
      BY <1>2, <2>2
    <3> QED
      BY <1>2, <1>3, <1>4, <2>2, <3>1 DEF Enough
  <2> QED
    BY <2>1, <2>2
<1> QED
  BY <1>1, <1>2, <1>3, <1>5, <1>7, Carried

LEMMA SearchDecodes == Searching /\ Decode => Search'
<1> SUFFICES ASSUME Searching, Decode PROVE Search'
  OBVIOUS
<1>1. /\ CsTypeOK /\ Calls /\ run # NULL /\ run \in CsRun /\ handle # NULL /\ handle \in CsHandle
      /\ Looping /\ code[run.offset + 1] # 0 /\ UNCHANGED <<session, got, one, asked>>
      /\ asked = Ask(handle, 0, run.count) /\ run.offset \in Nat /\ run.offset < size
      /\ Agrees(handle)
  <2>1. Looping /\ run # NULL /\ CsTypeOK /\ Calls /\ Search /\ Decodes /\ Agreed
        /\ UNCHANGED <<session, got, one, asked>>
    BY DEF Searching, SessionInv, Decode, Looping, Idle
  <2> QED
    BY <2>1 DEF CsTypeOK, Calls, CsRun, Search, Looping, Decodes, Agreed, Ask
<1>2. PICK detail :
        LET S == (live \cup {detail}) \ {NULL} IN
        /\ detail = Detail(live)
        /\ Entered(Entry(run.offset, code[run.offset + 1], FALSE, detail))
        /\ handle' = [handle EXCEPT !.index = Index(handle, S)]
  BY DEF Decode
<1> DEFINE e == Entry(run.offset, code[run.offset + 1], FALSE, detail)
<1>3. detail \in Pointer
  BY <1>1, <1>2, FreshBlock DEF Detail, CsTypeOK, Pointer
<1>4. /\ code[run.offset + 1] \in Nat /\ run.offset + code[run.offset + 1] <= size
  BY <1>1, SizesFit
<1>5. /\ e \in CsInsn /\ e.address = run.offset /\ e.bytes = code[run.offset + 1] /\ e.data = FALSE
  BY <1>1, <1>3, <1>4 DEF Entry, CsInsn
<1>6. Advance(asked, run.offset) = code[run.offset + 1]
  BY <1>1, Advances
<1>7. /\ handle'.skipdata = handle.skipdata /\ handle'.skipdata_size = handle.skipdata_size
      /\ handle'.callback = handle.callback /\ handle'.mode = handle.mode
  BY <1>1, <1>2 DEF CsHandle
<1>8. Ask(handle', 0, run.count) = Ask(handle, 0, run.count)
  BY <1>7, SameQuestion
<1>9. Entered(e)
  BY <1>2
<1> HIDE DEF e
<1> QED
  BY <1>1, <1>4, <1>5, <1>6, <1>8, <1>9, SearchEnters

LEMMA SearchSkips == Searching /\ SkipData => Search'
<1> SUFFICES ASSUME Searching, SkipData PROVE Search'
  OBVIOUS
<1> DEFINE n == Skipped(handle, size - run.offset)
           e == Entry(run.offset, n, TRUE, NULL)
<1>1. /\ CsTypeOK /\ Calls /\ run # NULL /\ run \in CsRun /\ handle # NULL /\ handle \in CsHandle
      /\ Looping /\ code[run.offset + 1] = 0 /\ UNCHANGED <<session, handle, got, one, asked>>
      /\ asked = Ask(handle, 0, run.count) /\ run.offset \in Nat /\ run.offset < size
      /\ n # 0 /\ Entered(e) /\ Agrees(handle)
  <2>1. Looping /\ run # NULL /\ CsTypeOK /\ Calls /\ Search /\ ~Decodes /\ Agreed /\ Entered(e)
        /\ UNCHANGED <<session, handle, got, one, asked>>
    BY DEF Searching, SessionInv, SkipData, Looping, Idle
  <2>2. n # 0
    BY CacheAssumption DEF SkipData
  <2> HIDE DEF e, n
  <2> QED
    BY <2>1, <2>2 DEF CsTypeOK, Calls, CsRun, Search, Looping, Decodes, Agreed, Ask
<1>2. size \in Nat
  BY <1>1, SizesFit
<1>3. n \in 0 .. size - run.offset
  BY <1>1, <1>2, SkippedFits
<1>4. n \in Nat /\ run.offset + n <= size
  BY <1>1, <1>2, <1>3
<1>5. Advance(asked, run.offset) = n
  BY <1>1, Advances
<1>6. e \in CsInsn /\ e.address = run.offset /\ e.bytes = n /\ e.data = TRUE
  BY <1>1, <1>4 DEF Entry, CsInsn, Pointer
<1> HIDE DEF e, n
<1> QED
  BY <1>1, <1>4, <1>5, <1>6, SearchEnters

(* The loop ends where nothing more is found.                              *)
LEMMA SearchEnds == Searching /\ (GiveUp \/ EndOfCode) => Search'
<1> SUFFICES ASSUME Searching, GiveUp \/ EndOfCode PROVE Search'
  OBVIOUS
<1>1. /\ CsTypeOK /\ Calls /\ Search /\ run # NULL /\ run.pc = "loop"
      /\ UNCHANGED <<session, handle, live, got, one, at, asked>>
      /\ run' = [run EXCEPT !.pc = "end"]
      /\ \/ run.offset < size /\ code[run.offset + 1] = 0 /\ Skipped(handle, size - run.offset) = 0
         \/ run.offset = size
  BY DEF Searching, SessionInv, GiveUp, EndOfCode, Looping, Idle, Decodes
<1>2. /\ run \in CsRun /\ handle \in CsHandle /\ got' = NULL /\ one' = NULL /\ run.offset \in Nat
      /\ run.offset <= size /\ code' = code
  BY <1>1 DEF CsTypeOK, Calls, CsRun, session
<1>3. /\ asked = Ask(handle, 0, run.count) /\ Consecutive(asked, run.insns)
      /\ run.offset = After(asked, run.insns, Len(run.insns))
      /\ run.count = 0 \/ Len(run.insns) < run.count
      /\ Agrees(handle)
  BY <1>1 DEF Search, Searching, Agreed, Ask
<1>4. Advance(asked, run.offset) = 0
  <2>1. CASE run.offset = size
    BY <1>1, <1>2, <1>3, <2>1, Advances
  <2>2. CASE /\ run.offset < size /\ code[run.offset + 1] = 0
             /\ Skipped(handle, size - run.offset) = 0
    BY <1>1, <1>2, <1>3, <2>2, Advances
  <2> QED
    BY <1>1, <2>1, <2>2
<1>5. asked.count = run.count
  BY <1>3 DEF Ask
<1>6. Answers(asked, run.insns)
  BY <1>3, <1>4, <1>5 DEF Answers
<1>7. /\ run'.insns = run.insns /\ run'.count = run.count /\ run'.offset = run.offset
      /\ run'.pc = "end"
  BY <1>1, <1>2 DEF CsRun
<1> QED
  BY <1>1, <1>2, <1>3, <1>6, <1>7, Carried

LEMMA SearchExpands == Searching /\ Expand => Search'
<1> SUFFICES ASSUME Searching, Expand PROVE Search'
  OBVIOUS
<1>1. /\ CsTypeOK /\ Calls /\ Search /\ run # NULL /\ run.pc = "expand"
      /\ UNCHANGED <<session, handle, live, got, one, at, asked>>
  BY DEF Searching, SessionInv, Expand, Idle
<1>2. got' = NULL /\ one' = NULL /\ code' = code /\ run \in CsRun
  BY <1>1 DEF CsTypeOK, Calls, session
<1>3. /\ run'.insns = run.insns /\ run'.count = run.count /\ run'.offset = run.offset
      /\ run'.pc = "loop"
  BY <1>2 DEF Expand, CsRun
<1>4. /\ asked = Ask(handle, 0, run.count) /\ Consecutive(asked, run.insns)
      /\ run.offset = After(asked, run.insns, Len(run.insns))
      /\ run.count = 0 \/ Len(run.insns) < run.count
  BY <1>1 DEF Search
<1> QED
  BY <1>1, <1>2, <1>3, <1>4, Carried

LEMMA SearchReturns == Searching /\ (OutOfMemory \/ NoneFound \/ Found) => Search'
<1> SUFFICES ASSUME Searching, OutOfMemory \/ NoneFound \/ Found PROVE Search'
  OBVIOUS
<1>1. /\ CsTypeOK /\ Calls /\ Search /\ run # NULL /\ run' = NULL /\ asked' = asked
      /\ code' = code /\ one' = NULL
      /\ got' = NULL \/ (run.pc = "end" /\ got' # NULL /\ got'.insns = run.insns)
  BY NullAssumption DEF Searching, SessionInv, Calls, OutOfMemory, NoneFound, Found, Idle, session
<1>2. got' # NULL => Answers(asked, run.insns)
  BY <1>1 DEF Search
<1> QED
  BY <1>1, <1>2, Carried

(* What the caller does between two calls.                                 *)
LEMMA SearchRests ==
  Searching /\ (cs_open \/ cs_close \/ cs_option \/ FreeArray) => Search'
<1> SUFFICES ASSUME Searching, cs_open \/ cs_close \/ cs_option \/ FreeArray PROVE Search'
  OBVIOUS
<1>1. CsTypeOK /\ Calls /\ Search
  BY DEF Searching, SessionInv
<1>2. CASE cs_open \/ cs_close \/ cs_option
  <2>1. run' = NULL /\ code' = code /\ got' = got /\ one' = one /\ asked' = asked
    BY <1>2 DEF cs_open, cs_close, cs_option, Idle, session
  <2> QED
    BY <1>1, <2>1, Carried DEF Search, GivesDocumented
<1>3. CASE FreeArray
  <2>1. /\ run = NULL /\ run' = NULL /\ code' = code /\ got' = NULL /\ one' = one /\ asked' = asked
    BY <1>1, <1>3 DEF FreeArray, Calls, session
  <2> QED
    BY <1>1, <2>1, Carried DEF Search, GivesDocumented
<1> QED
  BY <1>2, <1>3

(* The next instruction: cs_disasm_iter.                                   *)
LEMMA SearchNext == SessionInv /\ cs_disasm_iter /\ Agreed' => Search'
<1> SUFFICES ASSUME SessionInv, cs_disasm_iter, Agreed' PROVE Search'
  OBVIOUS
<1> DEFINE q == Ask(handle, at, 1)
           insns == IF one'.last = NULL THEN <<>> ELSE <<one'.last>>
<1>1. /\ CsTypeOK /\ Calls /\ handle \in CsHandle /\ one \in CsOne /\ at \in Nat /\ at <= size
      /\ run' = NULL /\ got' = NULL /\ code' = code /\ asked' = q
  <2>1. /\ handle # NULL /\ one # NULL /\ asked' = q /\ run' = NULL /\ got' = got
        /\ code' = code /\ one # NULL
    BY IterSteps DEF session
  <2>2. CsTypeOK /\ Calls /\ at \in 0 .. size
    BY DEF SessionInv, CsTypeOK
  <2>3. size \in Nat
    BY <2>2, SizesAssumption DEF CsTypeOK, size
  <2> HIDE DEF q
  <2>4. at \in Nat /\ at <= size
    BY <2>2, <2>3
  <2>5. got' = NULL
    BY <2>1, <2>2 DEF Calls
  <2> QED
    BY <2>1, <2>2, <2>4, <2>5 DEF CsTypeOK
<1>2. /\ \/ /\ at < size /\ code[at + 1] # 0
            /\ one' = [one EXCEPT !.last = Single(at, code[at + 1], FALSE)]
         \/ /\ at < size /\ code[at + 1] = 0 /\ Skipped(handle, size - at) # 0
            /\ one' = [one EXCEPT !.last = Single(at, Skipped(handle, size - at), TRUE)]
         \/ /\ at < size => code[at + 1] = 0 /\ Skipped(handle, size - at) = 0
            /\ one' = [one EXCEPT !.last = NULL]
  BY IterSteps
<1>3. q.count = 1 /\ q.offset = at /\ Agrees(handle)
  BY <1>1 DEF Ask, Agreed
<1>4. size \in Nat
  BY <1>1, SizesAssumption DEF CsTypeOK, size
<1>5. /\ at = size => Advance(q, at) = 0
      /\ at < size /\ code[at + 1] # 0 => Advance(q, at) = code[at + 1]
      /\ at < size /\ code[at + 1] = 0 => Advance(q, at) = Skipped(handle, size - at)
  BY <1>1, <1>3, Advances
<1>6. ASSUME NEW bytes \in Nat, NEW data \in BOOLEAN, at < size, Advance(q, at) = bytes, bytes # 0,
             one' = [one EXCEPT !.last = Single(at, bytes, data)], data <=> code[at + 1] = 0
      PROVE  Answers(q, insns)
  <2> DEFINE e == Single(at, bytes, data)
  <2>1. e.address = at /\ e.bytes = bytes /\ e.data = data /\ e # NULL
    <3>1. e \in [address : Nat, bytes : Nat, data : BOOLEAN]
      BY <1>1 DEF Single
    <3> QED
      BY <3>1, NullAssumption DEF Single
  <2>2. one'.last = e
    BY <1>1, <1>6 DEF CsOne
  <2> HIDE DEF e
  <2>3. insns = <<e>> /\ Len(insns) = 1 /\ DOMAIN insns = {1} /\ insns[1] = e
    BY <2>1, <2>2
  <2> HIDE DEF insns, q
  <2>4. Consecutive(q, insns)
    BY <1>3, <1>6, <2>1, <2>3 DEF Consecutive, After
  <2> QED
    BY <1>3, <2>3, <2>4 DEF Answers
<1>7. Answers(q, insns)
  <2>1. CASE /\ at < size /\ code[at + 1] # 0
             /\ one' = [one EXCEPT !.last = Single(at, code[at + 1], FALSE)]
    <3>1. code[at + 1] \in Nat
      BY <1>1, <2>1, SizesFit
    <3> HIDE DEF q, insns
    <3> QED
      BY <1>5, <1>6, <2>1, <3>1
  <2>2. CASE /\ at < size /\ code[at + 1] = 0 /\ Skipped(handle, size - at) # 0
             /\ one' = [one EXCEPT !.last = Single(at, Skipped(handle, size - at), TRUE)]
    <3>1. size - at \in Nat
      BY <1>1, <1>4, <2>2
    <3>2. Skipped(handle, size - at) \in Nat
      BY <1>1, <3>1, SkippedFits
    <3> HIDE DEF q, insns
    <3> QED
      BY <1>5, <1>6, <2>2, <3>2
  <2>3. CASE /\ at < size => code[at + 1] = 0 /\ Skipped(handle, size - at) = 0
             /\ one' = [one EXCEPT !.last = NULL]
    <3>1. insns = <<>>
      BY <1>1, <2>3 DEF CsOne
    <3> HIDE DEF insns, q
    <3>2. Advance(q, at) = 0
      BY <1>1, <1>4, <1>5, <2>3
    <3> QED
      BY <1>3, <3>1, <3>2 DEF Answers, Consecutive, After
  <2> QED
    BY <1>2, <2>1, <2>2, <2>3
<1> HIDE DEF q, insns
<1> QED
  <2>1. one' # NULL /\ asked' # NULL =>
          Answers(asked', IF one'.last = NULL THEN <<>> ELSE <<one'.last>>)
    BY <1>1, <1>7 DEF insns
  <2> QED
    BY <1>1, <2>1, Carried

LEMMA SearchStutter == Searching /\ UNCHANGED <<code, caller, handle, live, run, got, one, at, asked>> => Search'
BY Carried DEF Searching, Search, GivesDocumented

(* A step that leaves the question as it is.                               *)
LEMMA SearchGoesOn ==
  ASSUME SearchInv, asked' = asked, Agreed',
         \/ cs_disasm \/ cs_open \/ cs_close \/ cs_option \/ FreeArray \/ OpenFails \/ IterFails
         \/ UNCHANGED cs_vars
  PROVE  Search'
<1>1. Searching
  BY DEF SearchInv, Searching, Agreed
<1>2. CASE DecodeFails \/ SkipDataFails \/ OpenFails \/ IterFails \/ UNCHANGED cs_vars
  <2>1. UNCHANGED <<code, caller, handle, live, run, got, one, at, asked>>
    BY <1>2 DEF DecodeFails, SkipDataFails, OpenFails, IterFails, Fails, cs_vars, session
  <2> QED
    BY <1>1, <2>1, SearchStutter
<1> QED
  BY <1>1, <1>2, SearchDecodes, SearchSkips, SearchEnds, SearchExpands, SearchReturns, SearchRests
  DEF cs_disasm

LEMMA SearchStep == SearchInv /\ [CsNext]_cs_vars => SearchInv'
<1> SUFFICES ASSUME SearchInv, [CsNext]_cs_vars PROVE SearchInv'
  OBVIOUS
<1>1. SessionInv /\ SessionInv'
  BY SessionStep DEF SearchInv
<1>2. ASSUME Agreed' PROVE Search'
  <2>1. CASE Begin
    BY <1>1, <2>1, SearchBegins
  <2>2. CASE cs_disasm_iter
    BY <1>1, <1>2, <2>2, SearchNext
  <2>3. CASE cs_malloc \/ FreeOne
    BY <1>2, <2>3 DEF Agreed, cs_malloc, FreeOne
  <2>4. CASE \/ cs_disasm \/ cs_open \/ cs_close \/ cs_option \/ FreeArray \/ OpenFails \/ IterFails
             \/ UNCHANGED cs_vars
    <3>1. asked' = asked
      BY <2>4 DEF cs_disasm, Decode, SkipData, GiveUp, EndOfCode, OutOfMemory, Expand, NoneFound, Found,
                  DecodeFails, SkipDataFails, cs_open, cs_close, cs_option, FreeArray, OpenFails,
                  IterFails, Fails, cs_vars
    <3> QED
      BY <1>2, <2>4, <3>1, SearchGoesOn
  <2> QED
    BY <2>1, <2>2, <2>3, <2>4 DEF CsNext, CallerCalls, CsStopped
<1> QED
  BY <1>1, <1>2 DEF SearchInv

-----------------------------------------------------------------------------
(* The structures of the library and what the caller holds have their      *)
(* types; the array cs_disasm fills is never written past its end, and has *)
(* as many slots as instructions when it is returned.  (The bytes of one   *)
(* instruction can be: that is the fault "overrun".)                       *)
THEOREM CsTypeCorrect == CsSpec => []CsTypeOK
<1>1. SessionInv => CsTypeOK
  BY DEF SessionInv
<1> QED
  BY <1>1, CsStart, SessionStep, PTL DEF CsSpec

(* No block is lost, freed twice or used after it was freed: whatever      *)
(* realloc fails and in whatever order the calls come, each block that is  *)
(* allocated is held by exactly one pointer of the library or the caller,  *)
(* and each pointer that is not NULL holds one that is allocated, until    *)
(* the program writes through NULL or past an array, if it does.           *)
THEOREM NothingIsLost == CsSpec => []NothingLost
<1>1. SessionInv => NothingLost
  BY DEF SessionInv
<1> QED
  BY <1>1, CsStart, SessionStep, PTL DEF CsSpec

(* Where the setting of skipdata is one on which code and documentation    *)
(* agree, the array cs_disasm returns and the instruction cs_disasm_iter   *)
(* fills are the ones the documentation promises, for code of any length,  *)
(* any number asked for and any size of the cache.                         *)
THEOREM InstructionsFound == CsSpec => []FindsInstructions
<1>1. CsInit => SearchInv
  BY CsStart, SearchStart DEF SearchInv
<1>2. SearchInv => FindsInstructions
  BY DEF SearchInv, Search, Agreed, FindsInstructions
<1> QED
  BY <1>1, <1>2, SearchStep, PTL DEF CsSpec
=============================================================================
