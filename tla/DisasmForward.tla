---------------------------- MODULE DisasmForward ----------------------------
(***************************************************************************)
(* x86_disasm_forward of example/libdisasm/libdisasm/x86_disasm.c: it      *)
(* disassembles a buffer along the flow of execution and calls itself for  *)
(* the target of every jump and call.  It does not look for loops: that is *)
(* the duty of the resolver, here the one of test/quikdis.c.  What the     *)
(* bytes at an offset decode to is given: instructions may overlap.        *)
(***************************************************************************)
EXTENDS Integers, Sequences, FiniteSets

CONSTANTS
  Insns,        \* records with the fields type, size and dest
  Buffers,      \* what the bytes at each offset decode to
  Bases,        \* the addresses a buffer is loaded at
  UNRESOLVED    \* -1: the destination is in a register or on the stack

ASSUME InsnsAssumption ==
  \A x \in Insns :
    /\ x.type \in {"insn_invalid", "insn_other", "insn_jmp", "insn_jcc", "insn_call", "insn_return"}
    /\ x.size \in Nat \ {0}
    /\ x.dest = UNRESOLVED \/ x.dest \in Int

ASSUME BuffersAssumption == Buffers \subseteq Seq(Insns)

ASSUME BasesAssumption == Bases \subseteq Nat

VARIABLES
  buf, buf_rva, entry,
  rva_list,       \* the addresses in the resolver's list
  frames,         \* the activations of x86_disasm_forward, the innermost last
  shown,          \* the offsets of the instructions func was called for
  total           \* what the outermost activation returned

forward_vars == <<buf, buf_rva, entry, rva_list, frames, shown, total>>

buf_len == Len(buf)
Offsets == 0 .. buf_len - 1

NewActivation(offset) ==
  [offset |-> offset, bytes |-> 0, count |-> 0, cont |-> TRUE, at |-> "loop",
   insn |-> [type |-> "insn_invalid", size |-> 0, dest |-> UNRESOLVED], addr |-> 0]

(* The entry point of a segment may be its end; the head of the list of    *)
(* addresses is an address too.                                            *)
ForwardInit ==
  /\ buf \in Buffers /\ buf_rva \in Bases /\ entry \in 0 .. buf_len
  /\ rva_list = {0} /\ frames = <<NewActivation(entry)>> /\ shown = <<>> /\ total = 0

-----------------------------------------------------------------------------
(* A failure makes the instruction invalid and its size 0.                 *)
Invalid == [type |-> "insn_invalid", size |-> 0, dest |-> UNRESOLVED]

x86_disasm(offset) ==
  IF offset >= buf_len \/ buf[offset + 1].type = "insn_invalid"
     \/ offset + buf[offset + 1].size > buf_len
  THEN Invalid ELSE buf[offset + 1]

follow_insn_dest(insn) == insn.type \in {"insn_jmp", "insn_jcc", "insn_call"}

(* Mutant of insn_doesnt_return: a call ends the flow as well.             *)
insn_doesnt_return_call(insn) == insn.type \in {"insn_jmp", "insn_return", "insn_call"}
insn_doesnt_return(insn) == insn.type \in {"insn_jmp", "insn_return"}

Running == frames # <<>>
Depth   == Len(frames)
Frame   == frames[Depth]

(* The innermost activation goes on as fr.                                 *)
Now(fr) == frames' = [frames EXCEPT ![Depth] = fr]

(* Mutant of Bytes: a byte that does not decode is tried again.            *)
BytesStay(insn) == insn.size
(* How far the next instruction is.                                        *)
Bytes(insn) == IF insn.size = 0 THEN 1 ELSE insn.size

(* One round of the loop: the callback gets an instruction that decodes.   *)
Disassemble ==
  /\ Running /\ Frame.at = "loop" /\ Frame.cont /\ Frame.bytes < buf_len
  /\ LET offset == Frame.offset + Frame.bytes
         insn   == x86_disasm(offset)
     IN  /\ shown' = IF insn.size = 0 THEN shown ELSE Append(shown, offset)
         /\ Now([Frame EXCEPT !.bytes = @ + Bytes(insn),
                              !.count = IF insn.size = 0 THEN @ ELSE @ + 1,
                              !.insn = insn, !.addr = buf_rva + offset,
                              !.at = IF follow_insn_dest(insn) THEN "dest" ELSE "next"])
  /\ UNCHANGED <<buf, buf_rva, entry, rva_list, total>>

(* Mutant of Known: the jump is followed however often it was seen, as the *)
(* library's own resolver does.                                            *)
KnownNever(fr) == FALSE
(* rva_list_add finds the address of the jump in the list.                 *)
Known(fr) == fr.addr \in rva_list

(* quikdis_resolver: a jump that was seen before is not followed again.    *)
Resolves(fr) == ~Known(fr) /\ fr.insn.dest # UNRESOLVED

Follow ==
  /\ Running /\ Frame.at = "dest" /\ Resolves(Frame) /\ Frame.insn.dest \in Offsets
  /\ rva_list' = rva_list \cup {Frame.addr}
  /\ frames' = Append([frames EXCEPT ![Depth].at = "call"], NewActivation(Frame.insn.dest))
  /\ UNCHANGED <<buf, buf_rva, entry, shown, total>>

(* The destination is unknown, seen before or outside the buffer.          *)
Ignore ==
  /\ Running /\ Frame.at = "dest"
  /\ ~(Resolves(Frame) /\ Frame.insn.dest \in Offsets)
  /\ rva_list' = rva_list \cup {Frame.addr}
  /\ frames' = [frames EXCEPT ![Depth].at = "next"]
  /\ UNCHANGED <<buf, buf_rva, entry, shown, total>>

Continue ==
  /\ Running /\ Frame.at = "next"
  /\ Now([Frame EXCEPT !.cont = ~insn_doesnt_return(Frame.insn), !.at = "loop"])
  /\ UNCHANGED <<buf, buf_rva, entry, rva_list, shown, total>>

Ended(fr) == fr.at = "loop" /\ ~(fr.cont /\ fr.bytes < buf_len)

(* The activation that made the call adds the count to its own.            *)
ReturnCount ==
  /\ Depth > 1 /\ Ended(Frame)
  /\ frames' = [SubSeq(frames, 1, Depth - 1)
                  EXCEPT ![Depth - 1].count = @ + Frame.count, ![Depth - 1].at = "next"]
  /\ UNCHANGED <<buf, buf_rva, entry, rva_list, shown, total>>

ReturnTotal ==
  /\ Depth = 1 /\ Ended(Frame)
  /\ frames' = <<>> /\ total' = Frame.count
  /\ UNCHANGED <<buf, buf_rva, entry, rva_list, shown>>

ForwardStopped == ~Running /\ UNCHANGED forward_vars

ForwardNext == Disassemble \/ Follow \/ Ignore \/ Continue \/ ReturnCount \/ ReturnTotal
               \/ ForwardStopped

ForwardSpec == ForwardInit /\ [][ForwardNext]_forward_vars /\ WF_forward_vars(ForwardNext)

-----------------------------------------------------------------------------
Activations ==
  [offset : Nat, bytes : Nat, count : Nat, cont : BOOLEAN,
   at : {"loop", "dest", "call", "next"}, insn : Insns \cup {Invalid}, addr : Nat]

ForwardTypeOK ==
  /\ buf \in Buffers /\ buf_rva \in Bases /\ entry \in 0 .. buf_len
  /\ rva_list \in SUBSET Nat /\ frames \in Seq(Activations)
  /\ shown \in Seq(Offsets) /\ total \in Nat

(* The recursion is as deep as there are bytes that can hold a jump, and   *)
(* no deeper, whatever loops the program has: each activation below the    *)
(* innermost waits at a jump of its own.                                   *)
StackBounded == Depth <= buf_len + 1

(* Where execution goes from an offset: a byte that does not decode is     *)
(* passed over.  The head of the resolver's list is address 0, so that a   *)
(* jump at this address is taken for one already seen.                     *)
FlowsTo(o) ==
  LET insn == x86_disasm(o) IN
    (IF insn.type \in {"insn_jmp", "insn_return"} THEN {} ELSE {o + Bytes(insn)})
    \cup (IF follow_insn_dest(insn) /\ insn.dest # UNRESOLVED /\ buf_rva + o # 0
          THEN {insn.dest} ELSE {})

OnTheFlow(o) ==
  \A S \in SUBSET Offsets :
    entry \in S /\ (\A x \in S : FlowsTo(x) \cap Offsets \subseteq S) => o \in S

(* When it returns, the callback has seen every instruction that execution *)
(* can reach from the entry point and no other, although a jump that was   *)
(* seen before is never followed again; each instruction it saw lies in    *)
(* the buffer, and the number returned is that of the calls.               *)
FollowsFlow ==
  ~Running =>
    /\ {shown[i] : i \in DOMAIN shown}
         = {o \in Offsets : /\ buf[o + 1].type # "insn_invalid"
                            /\ o + buf[o + 1].size <= buf_len
                            /\ entry < buf_len /\ OnTheFlow(o)}
    /\ total = Len(shown)
=============================================================================
