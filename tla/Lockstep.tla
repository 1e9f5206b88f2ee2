------------------------------ MODULE Lockstep ------------------------------
(***************************************************************************)
(* The two processors in lockstep: what the reference does in a step of a  *)
(* vector (Oracle), the native interpreter does as well, from the same     *)
(* registers, memory, ports and requests.                                  *)
(***************************************************************************)
EXTENDS Inspection

VARIABLE asm

Native == INSTANCE Interpreter

LockInit ==
  /\ Init
  /\ asm = Native!Booted(Loaded(vector), vector.irq, vector.nmi)

RunBoth == RunReference /\ Native!cpu8088_step

LockNext ==
  \/ RunBoth
  \/ (TakeInterrupt \/ EmulateOnce \/ Diverge \/ CompareEnd \/ Finished) /\ UNCHANGED asm

lockVars == <<allVars, asm>>
LockSpec == LockInit /\ [][LockNext]_lockVars

----------------------------------------------------------------------------
\* Nothing tells the machines apart.
AlikeExcept(flags) ==
  /\ asm.regs = cpu.regs
  /\ asm.flags \ flags = cpu.flags \ flags
  /\ SameMap(asm.mem, cpu.mem, 0)
  /\ asm.halted = cpu.halted
  /\ asm.shadow = cpu.shadow
  /\ asm.irq = pending_irq /\ asm.nmi = pending_nmi
  /\ asm.ports = cpu.ports /\ asm.ppi = cpu.ppi /\ asm.phase = cpu.phase
  /\ asm.io = cpu.io
Alike == AlikeExcept({})

\* The instruction that is next, unless an interrupt is.
Executing == ~pending_nmi /\ ~Interruptible /\ ~cpu.halted
NextInstruction == Fetched(cpu)
Is(opcodes) == Executing /\ NextInstruction.opcode \in opcodes
ModrmByte == CodeAt(NextInstruction.s, 0)
Extended(opcodes, extensions) == Is(opcodes) /\ (ModrmByte \div 8) % 8 \in extensions
OperandValue ==
  LET m == DecodeModrm(NextInstruction.s, NextInstruction.wide, NextInstruction.override)
  IN  Read(m.s, m.operand)

(***************************************************************************)
(* Where the two are known to part.  The reference has no LEA, POP r/m,    *)
(* CBW, DAS, XLAT and INC or DEC of group 5.                               *)
(***************************************************************************)
NotInReference ==
  Is({\h8D, \h8F, \h98, \h2F, \hD7}) \/ Extended({\hFF}, {0, 1})
DirectOffset == Is(\hA0 .. \hA3)
WordComplement == Extended({\hF7}, {2}) /\ ModrmByte < \hC0
OrderedWithCarry == Is({\h7E, \h7F}) /\ CF \in cpu.flags
LargeDivisor == Extended({\hF6}, {6}) /\ OperandValue > 128
RotateAfterCompare == Extended(\hD0 .. \hD3, 0 .. 3) /\ asm.operation = Native!M!CMP
CarryKept == asm.preserve /\ (Extended({\hF6, \hF7}, {0, 4, 5}) \/ Is({\h27}))
StackAtZero == Interruptible /\ cpu.regs.SP = 0

\* The BIOS's stub vectors: the interpreter goes to the routine itself.
TakenVector ==
  IF pending_nmi THEN {2}
  ELSE IF Interruptible THEN pending_irq
  ELSE IF Is({\hCD}) THEN {CodeAt(NextInstruction.s, 0)} ELSE {}
StubReplaced ==
  /\ TakenVector \cap 8 .. \h1F # {}
  /\ cpu'.regs.CS = \hF000 /\ cpu'.regs.IP = \hE000

Parted ==
  \/ NotInReference \/ DirectOffset \/ WordComplement \/ OrderedWithCarry
  \/ LargeDivisor \/ RotateAfterCompare \/ CarryKept \/ StackAtZero \/ StubReplaced

\* After a byte product ZF, which is undefined, tells AX from AL.
Undefined == IF Extended({\hF6}, {4, 5}) THEN {ZF} ELSE {}

Agreed ==
  /\ asm'.status = trace'[1].status
  /\ asm'.status # "invalid" => \E flags \in {Undefined} : AlikeExcept(flags)'

\* The native interpreter does what the reference processor does: from alike
\* machines a step, be it an instruction with all its prefixes and rounds, the
\* entry of an interrupt or a step of a halted machine, leads to alike
\* machines, with the same status and the same I/O in the same order, but for
\* the differences named above (cpu8088_step and Reference8088.step).
InterpreterAgrees ==
  [][stage = "reference" /\ Alike => Agreed \/ Parted]_lockVars

\* A0 to A3 load and store at the offset that follows the opcode (README.md:
\* "direct-offset A0-A3").
DirectOffsets ==
  [][stage = "reference" /\ Alike /\ DirectOffset => Agreed]_lockVars
=============================================================================
