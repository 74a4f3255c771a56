----------------------------- MODULE MCExamples -----------------------------
(***************************************************************************)
(* The programs under example/ on small inputs, each behaviour with one of *)
(* them while the others rest.                                             *)
(***************************************************************************)
EXTENDS CfgGraph, DisasmForward, CsDisasm

VARIABLE example    \* which one

(* Programs of up to four instructions with jumps back, into the middle of *)
(* an instruction, to the next one, and out of the text.                   *)
Insn(t, s, r) == [type |-> t, size |-> s, rel_offset |-> r]
MCInstructions ==
  {Insn("plain", 1, UNSUPPORTED), Insn("plain", 2, UNSUPPORTED), Insn("return", 1, UNSUPPORTED)}
  \cup {Insn("jmp", 2, r) : r \in {-4, 0, 1, UNSUPPORTED}}
  \cup {Insn("jcc", 2, r) : r \in {-3, 0, 2}}
MCPrograms == UNION {[1 .. n -> MCInstructions] : n \in 0 .. 4}

(* Buffers of three bytes that decode to anything, and of four with calls  *)
(* and jumps that form loops.                                              *)
Decoded(t, s, d) == [type |-> t, size |-> s, dest |-> d]
Anything  == {Decoded(t, 1, UNRESOLVED) : t \in {"insn_other", "insn_invalid", "insn_return"}}
        \cup {Decoded("insn_other", 2, UNRESOLVED)}
        \cup {Decoded("insn_jmp", 1, d) : d \in {-1, 0, 2, UNRESOLVED}}
        \cup {Decoded("insn_call", 1, d) : d \in {0, 1}} \cup {Decoded("insn_jcc", 2, d) : d \in {0, 2}}
Loops == {Decoded("insn_other", 1, UNRESOLVED), Decoded("insn_return", 1, UNRESOLVED),
         Decoded("insn_jmp", 1, 0), Decoded("insn_call", 1, 3), Decoded("insn_jcc", 2, 1)}
MCInsns   == Anything \cup Loops
MCBuffers == UNION {[1 .. n -> Anything] : n \in 0 .. 3} \cup [1 .. 4 -> Loops]

(* Codes of up to two bytes, some of three, and two for which the array    *)
(* grows twice.                                                            *)
MCSizes == {c \in UNION {[1 .. n -> 0 .. 2] : n \in 0 .. 2} : Fits(c)}
           \cup {<<0, 0, 0>>, <<1, 0, 0>>, <<0, 0, 1>>, <<2, 0, 1>>,
                 <<1, 1, 1, 1, 1, 1>>, <<1, 0, 2, 0, 1, 1, 1>>}
MCSkip  == [m \in 1 .. 2 |-> m]

(* Nothing for the other examples, in a run about sessions alone.          *)
MCNothing == {<<>>}

-----------------------------------------------------------------------------
Graph0   == Init /\ insts = <<>>
Forward0 == ForwardInit /\ buf = <<>> /\ buf_rva = 0
Session0 == CsInit /\ code = <<>> /\ caller = "iter"

MCInit ==
  \/ example = "graph" /\ Forward0 /\ Session0 /\ Init
  \/ example = "forward" /\ Graph0 /\ Session0 /\ ForwardInit
  \/ example = "session" /\ Graph0 /\ Forward0 /\ CsInit

MCNext ==
  /\ example' = example
  /\ \/ example = "graph" /\ Next /\ UNCHANGED <<forward_vars, cs_vars>>
     \/ example = "forward" /\ ForwardNext /\ UNCHANGED <<vars, cs_vars>>
     \/ example = "session" /\ CsNext /\ UNCHANGED <<vars, forward_vars>>

(* The thread is in a function of the library.                             *)
Busy == CASE example = "graph"   -> pc # "done"
          [] example = "forward" -> Running
          [] example = "session" -> ~Idle /\ fault = "none"

mc_vars == <<example, vars, forward_vars, cs_vars>>

(* One thread, which the system does not stop for ever; the caller need    *)
(* not call.                                                               *)
MCSpec == MCInit /\ [][MCNext]_mc_vars /\ WF_mc_vars(Busy /\ MCNext)

(* The variables have the types of their declarations, and no array is     *)
(* indexed outside its bounds.                                             *)
TypesOK == TypeOK /\ ForwardTypeOK /\ CsTypeOK

(* Every call returns, whatever the program, loops and broken instructions *)
(* included.                                                               *)
Termination == Busy ~> ~Busy
=============================================================================
