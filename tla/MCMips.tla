------------------------------- MODULE MCMips -------------------------------
(* The instance of Mips for TLC: bytes of one bit, words of four, and four *)
(* kinds of programs.                                                      *)
EXTENDS Mips

I(op, rs, rt, rd, extra) == [op |-> op, rs |-> rs, rt |-> rt, rd |-> rd, extra |-> extra]

Zeroes == [k \in 0 .. Segment - 1 |-> 0]
Pattern == [k \in 0 .. Segment - 1 |-> IF k % 4 \in {0, 3} THEN 1 ELSE 0]

(* Immediates are sign-extended halves of a word.                          *)
Immediates == {0, 1, 14, 15}

(* The operations with one result.                                         *)
AluText ==
    { I(op, 1, 2, 1, 0) : op \in {"ADD", "ADDU", "SUB", "SUBU", "AND", "OR", "XOR", "NOR",
                                  "SLT", "SLTU", "SLLV", "SRAV", "SRLV"} }
    \cup { I("SUBU", 0, 1, 2, 0), I("RES", 0, 0, 0, 0) }
    \cup { I(op, 0, 1, 2, n) : op \in {"SLL", "SRA", "SRL"}, n \in 1 .. 2 }
    \cup { I(op, 1, 2, 0, x) : op \in {"ADDI", "ADDIU", "SLTI", "SLTIU"}, x \in Immediates }
    \cup { I(op, 1, 2, 0, x) : op \in {"ANDI", "ORI", "XORI", "LUI"}, x \in {2, 15} }

Operands == {I("ADDIU", 1, 1, 0, 1), I("ADDIU", 2, 2, 0, 15)}
MultText == Operands \cup {I(op, 1, 2, 0, 0) : op \in {"MULT", "MULTU", "DIV", "DIVU"}}

(* Loads into the delay slot, stores, branches, calls and system calls.    *)
SlotText ==
    { I("LW", 0, 1, 0, 0), I("LB", 0, 3, 0, 3), I("LBU", 0, 0, 0, 0), I("LH", 0, 2, 0, 2),
      I("LHU", 0, 2, 0, 2), I("LWL", 0, 1, 0, 0), I("LWR", 0, 1, 0, 0),
      I("ADDU", 1, 2, 0, 0), I("ADDU", 1, 2, 2, 0),
      I("SB", 0, 1, 0, 1), I("SH", 0, 3, 0, 0), I("SW", 0, 2, 0, 0), I("SWL", 0, 3, 0, 0),
      I("SWR", 0, 2, 0, 0), I("MTHI", 1, 0, 0, 0), I("DIVU", 1, 2, 0, 0),
      I("MFLO", 0, 0, 2, 0),
      I("SYSCALL", 0, 0, 0, 0) }

JumpText ==
    { I(op, 1, 2, 0, 1) : op \in Branches }
    \cup { I("J", 0, 0, 0, 2), I("JAL", 0, 0, 0, 1), I("JR", 3, 0, 0, 0),
           I("JALR", 1, 0, 3, 0), I("ADDIU", 1, 1, 0, 15), I("LW", 0, 1, 0, 0),
           I("SYSCALL", 0, 0, 0, 0), I("MTLO", 1, 0, 0, 0), I("MFHI", 0, 0, 2, 0),
           I("LW", 1, 2, 0, 3), I("SW", 0, 1, 0, 15), I("LWL", 0, 1, 0, 1) }

Kinds == {"alu", "mult", "slots", "jumps"}
Texts == [alu |-> AluText, mult |-> MultText, slots |-> SlotText, jumps |-> JumpText]
Memories == [k \in Kinds |-> IF k \in {"alu", "mult"} THEN Zeroes ELSE Pattern]
Several == [k \in Kinds |-> k \in {"slots", "jumps"}]
Steps == [k \in Kinds |-> IF k \in {"alu", "mult"} THEN 0 ELSE 4]
==============================================================================
