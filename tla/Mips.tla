-------------------------------- MODULE Mips --------------------------------
(***************************************************************************)
(* The simulated MIPS processor (machine/mipssim.cc): one instruction at a *)
(* time on registers that the kernel saves and restores when it switches   *)
(* threads, with the delay slots of loads and branches, the traps, and the *)
(* arithmetic.                                                             *)
(*                                                                         *)
(* A word has four bytes of ByteBits bits, so that every word can be tried.*)
(* An instruction is what Decode makes of it, and any of Text may be the   *)
(* one at PC.  Translation is the bounds and alignment test of one segment *)
(* per thread; UserMemory models it.                                       *)
(***************************************************************************)
EXTENDS Integers, FiniteSetsExt

CONSTANTS
    Thread,         \* the threads that run user programs
    First,          \* the one that has the CPU first
    ByteBits,       \* bits in a byte: 8 in the code
    GP,             \* general purpose registers 0 .. GP - 1: 32 in the code
    Segment,        \* bytes of memory of each thread
    Program,        \* names of kinds of programs; for each kind:
    Text,           \* the instructions programs are made of
    Memory0,        \* what a segment holds at first
    Switches,       \* TRUE iff several threads run one
    MaxSteps        \* bound on the instructions executed, 0 for none

ASSUME MipsAssumption ==
    /\ First \in Thread
    /\ {ByteBits, Segment} \subseteq Nat \ {0} /\ GP \in Nat \ (0 .. 2)
    /\ MaxSteps \in [Program -> Nat] /\ Switches \in [Program -> BOOLEAN]

VARIABLES
    program,        \* the kind of program that is run
    running,        \* the thread whose code Machine::Run executes
    registers,      \* the registers of the machine
    userRegisters,  \* Thread::userRegisters
    mem,            \* the segment of each thread
    kernel,         \* the threads that are inside a system call
    instr,          \* the instruction the last step executed, if it did one
    halted,         \* why the simulation ended, "no" if it goes on
    steps,          \* instructions executed
    alone           \* ghost: each program on a machine of its own without delayed loads

vars == <<program, running, registers, userRegisters, mem, kernel, instr, halted, steps, alone>>

----------------------------------------------------------------------------
(* Words, unsigned, and the integers they stand for.                       *)
W == 4 * ByteBits
Range32 == 2 ^ W
ToWord(n) == n % Range32
SIGN_BIT(x) == x >= Range32 \div 2
Signed(x) == IF SIGN_BIT(x) THEN x - Range32 ELSE x
Half(x) == x % 2 ^ (2 * ByteBits)
Byte(x) == x % 2 ^ ByteBits

(* A word as the set of its bits.                                          *)
Bits(x) == {k \in 0 .. W - 1 : (x \div 2 ^ k) % 2 = 1}
Pow2(k) == 2 ^ k
Value(S) == MapThenSumSet(Pow2, S)

NoInstr == [op |-> "none"]
v0 == 2
R31 == GP - 1

----------------------------------------------------------------------------
(* The operations on registers: a and b are those named rs and rt, x is    *)
(* extra.  Where C leaves a signed overflow undefined the build wraps.     *)
Arithmetic(op, a, b, x) ==
    CASE op \in {"ADD", "ADDU"} -> ToWord(a + b)
      [] op \in {"ADDI", "ADDIU"} -> ToWord(a + x)
      [] op \in {"SUB", "SUBU"} -> ToWord(a - b)

Overflow(op, a, b, x) ==
    \/ /\ op = "ADD"
       /\ SIGN_BIT(a) = SIGN_BIT(b) /\ SIGN_BIT(a) # SIGN_BIT(ToWord(a + b))
    \/ /\ op = "ADDI"
       /\ SIGN_BIT(a) = SIGN_BIT(x) /\ SIGN_BIT(x) # SIGN_BIT(ToWord(a + x))
    \/ /\ op = "SUB"
       /\ SIGN_BIT(a) # SIGN_BIT(b) /\ SIGN_BIT(a) # SIGN_BIT(ToWord(a - b))

(* OP_OR takes rs twice.                                                   *)
Logical(op, a, b, x) ==
    CASE op = "AND" -> Value(Bits(a) \cap Bits(b))
      [] op = "ANDI" -> Value(Bits(a) \cap Bits(Half(x)))
      [] op = "NOR" -> Value((0 .. W - 1) \ (Bits(a) \cup Bits(b)))
      [] op = "OR" -> Value(Bits(a) \cup Bits(a))
      [] op = "ORI" -> Value(Bits(a) \cup Bits(Half(x)))
      [] op = "XOR" -> Value((Bits(a) \cup Bits(b)) \ (Bits(a) \cap Bits(b)))
      [] op = "XORI" -> Value((Bits(a) \cup Bits(Half(x))) \ (Bits(a) \cap Bits(Half(x))))

(* OP_SRL and OP_SRLV shift an int, so they copy the sign as OP_SRA does.  *)
Shifted(op, a, b, x) ==
    CASE op = "SLL" -> ToWord(b * 2 ^ x)
      [] op = "SLLV" -> ToWord(b * 2 ^ (a % W))
      [] op \in {"SRA", "SRL"} -> ToWord(Signed(b) \div 2 ^ x)
      [] op \in {"SRAV", "SRLV"} -> ToWord(Signed(b) \div 2 ^ (a % W))
      [] op = "LUI" -> ToWord(x * 2 ^ (2 * ByteBits))

Compared(op, a, b, x) ==
    IF \/ op = "SLT" /\ Signed(a) < Signed(b)
       \/ op = "SLTI" /\ Signed(a) < Signed(x)
       \/ op = "SLTIU" /\ a < x
       \/ op = "SLTU" /\ a < b
    THEN 1 ELSE 0

(* Mult: the bits of a from the lowest, b shifted to the left in bHi:bLo.  *)
RECURSIVE MultLoop(_, _, _, _, _, _)
MultLoop(a, bHi, bLo, hi, lo, i) ==
    LET sum == ToWord(lo + bLo)
        lo1 == IF a % 2 = 1 THEN sum ELSE lo
        hi1 == IF a % 2 = 1 THEN ToWord(hi + (IF sum < bLo THEN 1 ELSE 0) + bHi) ELSE hi
    IN  IF i = W THEN <<hi, lo>>
        ELSE IF a = 1 THEN <<hi1, lo1>>
        ELSE MultLoop(a \div 2, ToWord(2 * bHi + (IF SIGN_BIT(bLo) THEN 1 ELSE 0)),
                      ToWord(2 * bLo), hi1, lo1, i + 1)

Negated(hi, lo) ==
    LET lo1 == ToWord(0 - lo)
    IN  <<ToWord((Range32 - 1 - hi) + (IF lo1 = 0 THEN 1 ELSE 0)), lo1>>

(* Mutant of Mult: the carry out of the negated low word is forgotten.     *)
MultNoCarry(a, b, signedArith) ==
    LET negative == signedArith /\ SIGN_BIT(a) # SIGN_BIT(b)
        Abs(x) == IF signedArith /\ SIGN_BIT(x) THEN Signed(ToWord(0 - Signed(x))) ELSE Signed(x)
        p == MultLoop(Abs(a), 0, ToWord(Abs(b)), 0, 0, 0)
    IN  IF a = 0 \/ b = 0 THEN <<0, 0>>
        ELSE IF negative THEN <<Range32 - 1 - p[1], ToWord(0 - p[2])>> ELSE p

Mult(a, b, signedArith) ==
    LET negative == signedArith /\ SIGN_BIT(a) # SIGN_BIT(b)
        Abs(x) == IF signedArith /\ SIGN_BIT(x) THEN Signed(ToWord(0 - Signed(x))) ELSE Signed(x)
        p == MultLoop(Abs(a), 0, ToWord(Abs(b)), 0, 0, 0)
    IN  IF a = 0 \/ b = 0 THEN <<0, 0>>
        ELSE IF negative THEN Negated(p[1], p[2]) ELSE p

(* Division in C truncates towards zero.                                   *)
Quotient(n, d) ==
    IF (n < 0) = (d < 0) THEN (IF n < 0 THEN 0 - n ELSE n) \div (IF d < 0 THEN 0 - d ELSE d)
    ELSE 0 - ((IF n < 0 THEN 0 - n ELSE n) \div (IF d < 0 THEN 0 - d ELSE d))
Remainder(n, d) == n - d * Quotient(n, d)

(* The host cannot divide the least int by -1: the simulator is killed.    *)
DivideDies(op, a, b) ==
    op = "DIV" /\ Signed(b) = -1 /\ Signed(a) = 0 - Range32 \div 2

HiLo(op, a, b, s) ==
    CASE op \in {"MULT", "MULTU"} -> Mult(a, b, op = "MULT")
      [] op \in {"DIV", "DIVU"} /\ b = 0 -> <<0, 0>>
      [] op = "DIV" /\ b # 0 -> <<ToWord(Remainder(Signed(a), Signed(b))),
                                  ToWord(Quotient(Signed(a), Signed(b)))>>
      [] op = "DIVU" /\ b # 0 -> <<a % b, a \div b>>
      [] op = "MTHI" -> <<a, s.Lo>>
      [] op = "MTLO" -> <<s.Hi, a>>

AddOps == {"ADD", "ADDU", "ADDI", "ADDIU", "SUB", "SUBU"}
LogicOps == {"AND", "ANDI", "NOR", "OR", "ORI", "XOR", "XORI"}
ShiftOps == {"SLL", "SLLV", "SRA", "SRAV", "SRL", "SRLV", "LUI"}
CompareOps == {"SLT", "SLTI", "SLTIU", "SLTU"}
MoveOps == {"MFHI", "MFLO"}
OneRegister == AddOps \cup LogicOps \cup ShiftOps \cup CompareOps \cup MoveOps
HiLoOps == {"MULT", "MULTU", "DIV", "DIVU", "MTHI", "MTLO"}
Immediate == {"ADDI", "ADDIU", "ANDI", "ORI", "XORI", "LUI", "SLTI", "SLTIU"}

Dest(i) == IF i.op \in Immediate THEN i.rt ELSE i.rd

Result(i, s) ==
    LET a == s.gp[i.rs]
        b == s.gp[i.rt]
    IN  CASE i.op \in AddOps -> Arithmetic(i.op, a, b, i.extra)
          [] i.op \in LogicOps -> Logical(i.op, a, b, i.extra)
          [] i.op \in ShiftOps -> Shifted(i.op, a, b, i.extra)
          [] i.op \in CompareOps -> Compared(i.op, a, b, i.extra)
          [] i.op = "MFHI" -> s.Hi
          [] i.op = "MFLO" -> s.Lo

----------------------------------------------------------------------------
(* Branches and jumps replace pcAfter, the address two instructions ahead. *)
IndexToAddr(x) == ToWord(4 * x)

Branches == {"BEQ", "BNE", "BGTZ", "BLEZ", "BGEZ", "BGEZAL", "BLTZ", "BLTZAL"}
Jumps == {"J", "JAL", "JR", "JALR"}
Links == {"BGEZAL", "BLTZAL", "JAL", "JALR"}
LinkReg(i) == IF i.op = "JALR" THEN i.rd ELSE R31

Taken(op, a, b) ==
    \/ op = "BEQ" /\ a = b
    \/ op = "BNE" /\ a # b
    \/ op = "BGTZ" /\ Signed(a) > 0
    \/ op = "BLEZ" /\ Signed(a) <= 0
    \/ op \in {"BGEZ", "BGEZAL"} /\ ~SIGN_BIT(a)
    \/ op \in {"BLTZ", "BLTZAL"} /\ SIGN_BIT(a)

(* J keeps the top bits of pcAfter, four in the code, here one.            *)
Target(i, a, s) ==
    LET after == ToWord(s.NextPC + 4)
        region == Range32 \div 2
    IN  CASE i.op \in Branches -> ToWord(s.NextPC + IndexToAddr(i.extra))
          [] i.op \in {"J", "JAL"} -> (after - (after % region)) + (IndexToAddr(i.extra) % region)
          [] i.op \in {"JR", "JALR"} -> a

----------------------------------------------------------------------------
(* Memory, least significant byte first.                                   *)
Accessible(addr, size) == addr % size = 0 /\ addr + size <= Segment

ReadMem(m, addr, size) ==
    LET Part(k) == m[addr + k] * 2 ^ (ByteBits * k)
    IN  MapThenSumSet(Part, 0 .. size - 1)

WriteMem(m, addr, size, v) ==
    [k \in DOMAIN m |-> IF k \in addr .. addr + size - 1
                        THEN Byte(v \div 2 ^ (ByteBits * (k - addr))) ELSE m[k]]

Size(op) ==
    CASE op \in {"LB", "LBU", "SB"} -> 1
      [] op \in {"LH", "LHU", "SH"} -> 2
      [] op \in {"LW", "LWL", "LWR", "SW", "SWL", "SWR"} -> 4

Unaligned == {"LWL", "LWR", "SWL", "SWR"}
Loads == {"LB", "LBU", "LH", "LHU", "LW", "LWL", "LWR"}
Stores == {"SB", "SH", "SW", "SWL", "SWR"}

Extend(v, size) ==
    IF v >= 2 ^ (ByteBits * size - 1) THEN v + Range32 - 2 ^ (ByteBits * size) ELSE v

TopByte(v) == v \div 2 ^ (3 * ByteBits)
LowBytes(v) == v % 2 ^ (3 * ByteBits)

(* Mutant of Loaded: OP_LWR ignores the load that is still on its way.     *)
LoadedNoBypass(i, value, s) ==
    LET old == s.gp[i.rt]
    IN  CASE i.op \in {"LB", "LH"} -> Extend(value, Size(i.op))
          [] i.op \in {"LBU", "LHU", "LW", "LWL"} -> value
          [] i.op = "LWR" -> (old - Byte(old)) + TopByte(value)

(* The ASSERT on the address leaves one case of OP_LWL and of OP_LWR.      *)
Loaded(i, value, s) ==
    LET old == IF s.LoadReg = i.rt THEN s.LoadValue ELSE s.gp[i.rt]
    IN  CASE i.op \in {"LB", "LH"} -> Extend(value, Size(i.op))
          [] i.op \in {"LBU", "LHU", "LW", "LWL"} -> value
          [] i.op = "LWR" -> (old - Byte(old)) + TopByte(value)

Stored(op, old, v) ==
    IF op = "SWR" THEN LowBytes(old) + Byte(v) * 2 ^ (3 * ByteBits) ELSE v

----------------------------------------------------------------------------
(* What OneInstruction computes from registers s and memory m: nothing but *)
(* the trap if it traps.                                                   *)
Unchanged(s, m, trap) ==
    [gp |-> s.gp, Hi |-> s.Hi, Lo |-> s.Lo, pcAfter |-> ToWord(s.NextPC + 4),
     loadReg |-> 0, loadValue |-> 0, mem |-> m, trap |-> trap]

Outcome(i, s, m) ==
    LET a == s.gp[i.rs]
        b == s.gp[i.rt]
        p == Unchanged(s, m, "none")
        addr == ToWord(a + i.extra)
        linked == IF i.op \in Links
                  THEN [s.gp EXCEPT ![LinkReg(i)] = ToWord(s.NextPC + 4)] ELSE s.gp
    IN  CASE i.op \in OneRegister ->
                IF Overflow(i.op, a, b, i.extra) THEN Unchanged(s, m, "Overflow")
                ELSE [p EXCEPT !.gp[Dest(i)] = Result(i, s)]
          [] i.op \in HiLoOps ->
                IF DivideDies(i.op, a, b) THEN Unchanged(s, m, "killed")
                ELSE LET hl == HiLo(i.op, a, b, s)
                     IN  [p EXCEPT !.Hi = hl[1], !.Lo = hl[2]]
          [] i.op \in Branches \cup Jumps ->
                [p EXCEPT !.gp = linked,
                          !.pcAfter = IF i.op \in Jumps \/ Taken(i.op, linked[i.rs], b)
                                      THEN Target(i, linked[i.rs], s) ELSE @]
          [] i.op \in Loads \cup Stores ->
                IF i.op \in Unaligned /\ addr % 4 # 0 THEN Unchanged(s, m, "ASSERT")
                ELSE IF ~Accessible(addr, Size(i.op)) THEN Unchanged(s, m, "AddressError")
                ELSE LET old == ReadMem(m, addr, Size(i.op))
                     IN  IF i.op \in Loads
                         THEN [p EXCEPT !.loadReg = i.rt, !.loadValue = Loaded(i, old, s)]
                         ELSE [p EXCEPT !.mem = WriteMem(m, addr, Size(i.op),
                                                         Stored(i.op, old, b))]
          [] i.op = "SYSCALL" -> Unchanged(s, m, "Syscall")
          [] i.op \in {"RES", "UNIMP"} -> Unchanged(s, m, "IllegalInstr")

----------------------------------------------------------------------------
(* The load of the instruction before arrives and the next one is recorded.*)
DelayedLoad(gp, s, nextReg, nextValue) ==
    [s EXCEPT !.gp = [gp EXCEPT ![s.LoadReg] = s.LoadValue, ![0] = 0],
              !.LoadReg = nextReg, !.LoadValue = nextValue]

(* The end of OneInstruction.                                              *)
Completed(s, o) ==
    [DelayedLoad(o.gp, s, o.loadReg, o.loadValue) EXCEPT
        !.Hi = o.Hi, !.Lo = o.Lo, !.PC = s.NextPC, !.NextPC = o.pcAfter]

(* RaiseException up to the handler: what is in progress is finished.      *)
Settled(s) == DelayedLoad(s.gp, s, 0, 0)

(* The end of ExceptionHandler: the result, and the PC behind the syscall. *)
SyscallDone(s, rv) ==
    [s EXCEPT !.gp[v0] = rv, !.PC = s.NextPC, !.NextPC = ToWord(s.NextPC + 4)]

(* AddrSpace::InitRegisters; the stack pointer is one of the registers.    *)
InitRegisters ==
    [gp |-> [r \in 0 .. GP - 1 |-> 0], Hi |-> 0, Lo |-> 0, PC |-> 0, NextPC |-> 4,
     LoadReg |-> 0, LoadValue |-> 0]

(* Compiled code leaves the register of a load alone in the instruction    *)
(* after the load, but for the second half of an unaligned load.           *)
KeepsSlot(i) ==
    LET l == registers.LoadReg
        used == {i.rs, i.rd} \cup (IF i.op \in {"LWL", "LWR"} THEN {} ELSE {i.rt})
    IN  l # 0 => l \notin used /\ (i.op \in Links => l # LinkReg(i))

(* OneInstruction.  A trap that is not a system call ends in Halt, a failed*)
(* ASSERT and a division the host refuses end the simulator.               *)
OneInstruction(i) ==
    LET o == IF registers.PC % 4 = 0 THEN Outcome(i, registers, mem[running])
             ELSE Unchanged(registers, mem[running], "AddressError")
        one == alone[running]
        ref == Outcome(i, one.regs, one.mem)
        traps == o.trap # "none"
    IN  /\ halted = "no" /\ running \notin kernel /\ (MaxSteps[program] = 0 \/ steps < MaxSteps[program])
        /\ KeepsSlot(i)
        /\ registers' = IF traps THEN Settled(registers) ELSE Completed(registers, o)
        /\ mem' = [mem EXCEPT ![running] = o.mem]
        /\ kernel' = IF o.trap = "Syscall" THEN kernel \cup {running} ELSE kernel
        /\ halted' = IF o.trap \in {"none", "Syscall"} THEN "no" ELSE o.trap
        /\ alone' = IF traps THEN alone
                    ELSE [alone EXCEPT ![running] =
                            [regs |-> Settled(Completed(one.regs, ref)), mem |-> ref.mem]]
        /\ instr' = i
        /\ steps' = IF MaxSteps[program] = 0 THEN 0 ELSE steps + 1
        /\ UNCHANGED <<program, running, userRegisters>>

SyscallReturn(rv) ==
    /\ halted = "no" /\ running \in kernel
    /\ registers' = SyscallDone(registers, rv)
    /\ kernel' = kernel \ {running}
    /\ alone' = [alone EXCEPT ![running].regs = SyscallDone(@, rv)]
    /\ instr' = NoInstr
    /\ UNCHANGED <<program, running, userRegisters, mem, halted, steps>>

(* Interrupt::CheckIfDue finishes the load in progress before it calls a   *)
(* handler, between any two instructions.  In a system call none is left.  *)
Interrupt ==
    /\ halted = "no" /\ Switches[program]
    /\ registers' = Settled(registers)
    /\ instr' = NoInstr
    /\ UNCHANGED <<program, running, userRegisters, mem, kernel, halted, steps, alone>>

(* Thread::SaveUserState.                                                  *)
Saved(t) == [userRegisters EXCEPT ![t] = Settled(registers)]

(* Scheduler::Run inside a system call, or after an interrupt.             *)
Switch(next) ==
    /\ halted = "no" /\ Switches[program] /\ next # running
    /\ userRegisters' = Saved(running)
    /\ registers' = userRegisters[next]
    /\ running' = next
    /\ instr' = NoInstr
    /\ UNCHANGED <<program, mem, kernel, halted, steps, alone>>

Init ==
    /\ program \in Program
    /\ running = First
    /\ registers = InitRegisters
    /\ userRegisters = [t \in Thread |-> InitRegisters]
    /\ mem = [t \in Thread |-> Memory0[program]]
    /\ kernel = {} /\ instr = NoInstr /\ halted = "no" /\ steps = 0
    /\ alone = [t \in Thread |-> [regs |-> InitRegisters, mem |-> Memory0[program]]]

Next ==
    \/ \E i \in Text[program] : OneInstruction(i)
    \/ \E rv \in {0, 1} : SyscallReturn(rv)
    \/ Interrupt
    \/ \E t \in Thread : Switch(t)

Spec == Init /\ [][Next]_vars

----------------------------------------------------------------------------
(* "We need to be able to start/stop a user program between any two        *)
(* instructions": whatever the interrupts, switches, system calls and      *)
(* delayed loads, the registers and the memory of a program are those it   *)
(* would have on a machine of its own where a load takes effect at once and*)
(* register 0 is zero (DelayedLoad, SaveUserState, RestoreUserState,       *)
(* RaiseException, CheckIfDue).                                            *)
AsIfAlone ==
    \A t \in Thread :
        LET s == IF t = running THEN registers ELSE userRegisters[t]
        IN  Settled(s) = alone[t].regs /\ mem[t] = alone[t].mem

(* What the processor manual says of an instruction, in integers.  Absent  *)
(* where the result is left undefined.                                     *)
Fits(n) == n \in (0 - Range32 \div 2) .. (Range32 \div 2 - 1)

Exact(i, a, b) ==
    CASE i.op = "ADD" -> Signed(a) + Signed(b)
      [] i.op = "ADDI" -> Signed(a) + Signed(i.extra)
      [] i.op = "SUB" -> Signed(a) - Signed(b)

Digit(x, k) == (x \div 2 ^ k) % 2

(* Bit k of the bitwise operations on words a and c.                       *)
LogicDigit(op, a, c, k) ==
    LET m == Digit(a, k)
        n == Digit(c, k)
    IN  CASE op \in {"AND", "ANDI"} -> m * n
          [] op = "ORI" -> m + n - m * n
          [] op \in {"XOR", "XORI"} -> (m + n) % 2
          [] op = "NOR" -> (1 - m) * (1 - n)

(* The order of words by their highest different bit; that of the integers *)
(* they stand for puts the words with the sign bit first.                  *)
Below(S, T) == \E k \in T \ S : \A j \in k + 1 .. W - 1 : j \in S <=> j \in T
SignFlipped(S) == IF W - 1 \in S THEN S \ {W - 1} ELSE S \cup {W - 1}

ManualShift(op, b, n) ==
    Value({k \in 0 .. W - 1 :
             IF op \in {"SRA", "SRAV"} THEN (IF k + n < W THEN k + n ELSE W - 1) \in Bits(b)
             ELSE k - n \in Bits(b)})

ManualLess(op, a, c) ==
    IF op \in {"SLT", "SLTI"} THEN Below(SignFlipped(Bits(a)), SignFlipped(Bits(c)))
    ELSE Below(Bits(a), Bits(c))

Manual(i, a, b, s) ==
    LET x == i.extra
        LogicBit(k) == 2 ^ k * LogicDigit(i.op, a, IF i.op \in Immediate THEN Half(x) ELSE b, k)
    IN  CASE i.op \in {"ADD", "ADDI", "SUB"} -> ToWord(Exact(i, a, b))
          [] i.op = "ADDU" -> ToWord(a + b)
          [] i.op = "ADDIU" -> ToWord(a + x)
          [] i.op = "SUBU" -> ToWord(a - b)
          [] i.op \in LogicOps -> MapThenSumSet(LogicBit, 0 .. W - 1)
          [] i.op = "LUI" -> ManualShift(i.op, x, 2 * ByteBits)
          [] i.op \in {"SLL", "SRA"} -> ManualShift(i.op, b, x)
          [] i.op \in {"SLLV", "SRAV"} -> ManualShift(i.op, b, a % W)
          [] i.op \in CompareOps ->
                IF ManualLess(i.op, a, IF i.op \in Immediate THEN x ELSE b) THEN 1 ELSE 0
          [] i.op = "MFHI" -> s.Hi
          [] i.op = "MFLO" -> s.Lo

(* The instructions compute what the manual the code refers to says: ADD,  *)
(* ADDI and SUB trap exactly when the sum does not fit, Mult gives the     *)
(* double-length product, DIV and DIVU a quotient that truncates and the   *)
(* remainder, shifts, logic and comparisons work on bits (OneInstruction,  *)
(* Mult).  OP_OR, OP_SRL and OP_SRLV do not, see above.                    *)
ComputesAsManual ==
    [][ LET i == instr'
            s == registers
        IN  i # NoInstr =>
            LET a == s.gp[i.rs]
                b == s.gp[i.rt]
                hilo == registers'.Hi * Range32 + registers'.Lo
                product == IF i.op = "MULT" THEN Signed(a) * Signed(b) ELSE a * b
            IN  /\ i.op \in {"ADD", "ADDI", "SUB"} =>
                        (halted' = "Overflow" <=> ~Fits(Exact(i, a, b)))
                /\ i.op \in OneRegister \ {"OR", "SRL", "SRLV"} /\ halted' = "no"
                        /\ Dest(i) \notin {0, s.LoadReg} =>
                        registers'.gp[Dest(i)] = Manual(i, a, b, s)
                /\ i.op \in {"MULT", "MULTU"} => hilo = product % Range32 ^ 2
                /\ i.op = "DIV" /\ b # 0 /\ halted' = "no" =>
                        LET q == Signed(registers'.Lo)
                            r == Signed(registers'.Hi)
                        IN  /\ q * Signed(b) + r = Signed(a)
                            /\ r = 0 \/ (r < 0 <=> Signed(a) < 0)
                            /\ r * r < Signed(b) * Signed(b)
                /\ i.op = "DIVU" /\ b # 0 =>
                        /\ registers'.Lo * b + registers'.Hi = a
                        /\ registers'.Hi < b ]_vars
==============================================================================
