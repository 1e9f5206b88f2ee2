---------------------------- MODULE Interpreter ----------------------------
(***************************************************************************)
(* cpu8088_step, the processor in 6502 code: an operator for each label    *)
(* that step.s dispatches to, with the operand addressing of modrm.s, the  *)
(* stack of stack.s and the interrupt entry of interrupts.s.  Sums, flags, *)
(* shifts, products and quotients are those of Alu and MulDiv.             *)
(*                                                                         *)
(* Memory is flat, which PagedMemory shows, and answers always; the ports  *)
(* are those of Cpu8088.  Cycles, the fields that only the fault screen    *)
(* reads and a repetition of MUL or IMUL, which are no string              *)
(* instructions, are left out.                                             *)
(***************************************************************************)
EXTENDS Cpu8088

M == INSTANCE MulDiv

VARIABLE asm   \* cpu8088_state and what is beside it in the BSS

\* What an instruction leaves for the next: operation is alu_operation,
\* preserve alu_preserve_cf, saved alu_saved_cf.
Booted(machine, irq, nmi) ==
  machine @@ [operation |-> M!ADD, preserve |-> FALSE, saved |-> FALSE,
              irq |-> irq, nmi |-> nmi, status |-> "ok"]

Ok(s)      == [s EXCEPT !.status = "ok"]
Invalid(s) == [s EXCEPT !.status = "invalid"]

----------------------------------------------------------------------------
(***************************************************************************)
(* cpu8088_decode_ea: s stands behind the ModR/M byte.  A place is where   *)
(* an operand is; next is the machine behind the displacement.             *)
(***************************************************************************)
InRegister(index) == [memory |-> FALSE, index |-> index]
InMemory(segment, offset) == [memory |-> TRUE, segment |-> segment, offset |-> offset % W]

Added == << <<"BX", "SI">>, <<"BX", "DI">>, <<"BP", "SI">>, <<"BP", "DI">>,
            <<"SI">>, <<"DI">>, <<"BP">>, <<"BX">> >>

DecodeEa(s, modrm, override) ==
  LET mod == modrm \div 64
      rm  == modrm % 8
      direct == mod = 0 /\ rm = 6
      registers == {Added[rm + 1][i] : i \in DOMAIN Added[rm + 1]}
      sum == (IF "BX" \in registers THEN s.regs.BX ELSE 0)
               + (IF "BP" \in registers THEN s.regs.BP ELSE 0)
               + (IF "SI" \in registers THEN s.regs.SI ELSE 0)
               + (IF "DI" \in registers THEN s.regs.DI ELSE 0)
      segment == IF override # {} THEN CHOOSE o \in override : TRUE
                 ELSE IF "BP" \in registers /\ ~direct THEN "SS" ELSE "DS"
      at == CASE direct -> CodeWord(s, 0)
              [] mod = 1 -> sum + Displacement8(s, 0)
              [] mod = 2 -> sum + CodeWord(s, 0)
              [] OTHER -> sum
  IN  IF mod = 3
        THEN [place |-> InRegister(rm), next |-> s]
        ELSE [place |-> InMemory(s.regs[segment], at),
              next |-> Consumed(s, IF direct \/ mod = 2 THEN 2 ELSE mod)]

\* @register_offset, @read_ea_to_left and their like; @alu_store_result.
Loaded(s, place, wide) ==
  IF place.memory THEN ReadMemory(s.mem, place.segment, place.offset, wide)
                  ELSE GetRegister(s.regs, place.index, wide)
Stored(s, place, wide, n) ==
  IF place.memory THEN [s EXCEPT !.mem = WriteMemory(@, place.segment, place.offset, wide, n)]
                  ELSE [s EXCEPT !.regs = SetRegister(@, place.index, wide, n)]

\* cpu8088_push_u16 and cpu8088_pop_u16.
PushU16(s, n) ==
  LET sp == (s.regs.SP - 2) % W
  IN  [s EXCEPT !.regs.SP = sp, !.mem = WriteMemory(@, s.regs.SS, sp, TRUE, n)]
OnStack(s, k) == ReadMemory(s.mem, s.regs.SS, (s.regs.SP + 2 * k) % W, TRUE)
Dropped(s, n) == [s EXCEPT !.regs.SP = (@ + n) % W]

\* The high bits of a pushed FLAGS are ones; popped, they are dropped.
PushedFlags(s) == Number(s.flags \cup 12 .. 15)
PoppedFlags(n) == (BitSet(n) \ 12 .. 15) \cup {RESERVED}

----------------------------------------------------------------------------
(***************************************************************************)
(* cpu8088_interrupt: the vectors of the BIOS's stub are replaced.         *)
(***************************************************************************)
GenxtVectorOffsets ==
  <<\hFEA5, \hE987, \hFF23, \hFF23, \hFF23, \hFF23, \hEF57, \hFF23,
    \hF065, \hF84D, \hF841, \hEC59, \hE739, \hF859, \hE82E, \hEFD2,
    \hFF23, \hE6F2, \hFE6E, \hFF53, \hFF53, \hF0A4, \hEFC7, 0>>
Stub(ip, cs, vector) == cs = \hF000 /\ ip = \hE000 /\ vector \in 8 .. 31

\* (Variant: the return address is pushed before its segment.)
InterruptFrameSwapped(s, vector) ==
  LET framed == PushU16(PushU16(PushU16(s, PushedFlags(s)), s.regs.IP), s.regs.CS)
      ip == ReadMemory(framed.mem, 0, 4 * vector, TRUE)
      cs == ReadMemory(framed.mem, 0, 4 * vector + 2, TRUE)
  IN  [framed EXCEPT !.flags = @ \ {TF, IntF},
         !.regs.IP = IF Stub(ip, cs, vector) THEN GenxtVectorOffsets[vector - 7] ELSE ip,
         !.regs.CS = cs]

Interrupt(s, vector) ==
  LET framed == PushU16(PushU16(PushU16(s, PushedFlags(s)), s.regs.CS), s.regs.IP)
      ip == ReadMemory(framed.mem, 0, 4 * vector, TRUE)
      cs == ReadMemory(framed.mem, 0, 4 * vector + 2, TRUE)
  IN  [framed EXCEPT !.flags = @ \ {TF, IntF},
         !.regs.IP = IF Stub(ip, cs, vector) THEN GenxtVectorOffsets[vector - 7] ELSE ip,
         !.regs.CS = cs]

\* cpu8088_iret
Iret(s) ==
  [Dropped(s, 6) EXCEPT !.regs.IP = OnStack(s, 0), !.regs.CS = OnStack(s, 1),
                        !.flags = PoppedFlags(OnStack(s, 2))]

----------------------------------------------------------------------------
(***************************************************************************)
(* An instruction behind its prefixes and opcode.  The override of its     *)
(* operand is a set with at most one segment.                              *)
(***************************************************************************)
Fetched(s) ==
  LET n == PrefixCount(s)
      segment == LastPrefix(s, n, DOMAIN SegmentPrefix)
  IN  [s |-> Consumed(s, n + 1), opcode |-> CodeAt(s, n), wide |-> CodeAt(s, n) % 2 = 1,
       override |-> IF segment = 0 THEN {} ELSE {SegmentPrefix[segment]},
       repeat |-> LastPrefix(s, n, RepeatPrefixes)]

\* The ModR/M byte, and what it says.
Modrm(d) == CodeAt(d.s, 0)
Field(d) == (Modrm(d) \div 8) % 8
Operand(d) == DecodeEa(Consumed(d.s, 1), Modrm(d), d.override)
Segment(d, default) == IF d.override = {} THEN default ELSE CHOOSE o \in d.override : TRUE

\* An immediate at s, and the machine behind it.
Immediate(s, wide)    == IF wide THEN CodeWord(s, 0) ELSE CodeAt(s, 0)
PastImmediate(s, wide) == Consumed(s, IF wide THEN 2 ELSE 1)

\* @alu_flags: the six flags of a record of Alu; the others stay.
FlagSet(f) ==
  When(f.CF, CF) \cup When(f.PF, PF) \cup When(f.AF, AF)
    \cup When(f.ZF, ZF) \cup When(f.SF, SF) \cup When(f.OF, OF)
Flagged(s, f) == [s EXCEPT !.flags = (@ \ Arithmetic6) \cup FlagSet(f)]
Carry(s) == CF \in s.flags
FlagRecord(s) ==
  [CF |-> Carry(s), PF |-> PF \in s.flags, AF |-> AF \in s.flags,
   ZF |-> ZF \in s.flags, SF |-> SF \in s.flags, OF |-> OF \in s.flags]

\* @alu_preserve_carry
Preserving(s, f) == IF s.preserve THEN [f EXCEPT !.CF = s.saved] ELSE f

----------------------------------------------------------------------------
(***************************************************************************)
(* @alu_execute to @alu_accumulator_done.  Results of CMP are not stored.  *)
(***************************************************************************)
AluResult(s, op, left, right, wide) ==
  LET x == M!AluExecute(op, M!Pair(left), M!Pair(right), wide, Carry(s))
      f == M!AluFlags(op, M!Pair(left), M!Pair(right), x.value, wide, x.carry)
  IN  [n |-> M!Word(x.value), s |-> [Flagged(s, Preserving(s, f)) EXCEPT !.operation = op]]

AluExecute(s, op, place, right, wide) ==
  LET r == AluResult([s EXCEPT !.preserve = FALSE], op, Loaded(s, place, wide), right, wide)
  IN  IF op = M!CMP THEN r.s ELSE Stored(r.s, place, wide, r.n)

Operation(d) == (d.opcode \div 8) % 8
Accumulator == InRegister(0)

AluAccumulatorImmediate(d) ==
  AluExecute(PastImmediate(d.s, d.wide), Operation(d), Accumulator,
             Immediate(d.s, d.wide), d.wide)

\* Bit 1 of the opcode says that the register is the destination.
AluModrm(d) ==
  LET m == Operand(d)
      register == InRegister(Field(d))
      toRegister == 1 \in BitSet(d.opcode)
      destination == IF toRegister THEN register ELSE m.place
      source == IF toRegister THEN m.place ELSE register
  IN  AluExecute(m.next, Operation(d), destination, Loaded(m.next, source, d.wide), d.wide)

\* @alu_rm_imm_sign_extend for 83h.
AluRmImmediate(d) ==
  LET m == Operand(d)
      word == d.opcode = \h81
      n == Immediate(m.next, word)
      right == IF d.opcode = \h83 /\ n >= 128 THEN n + \hFF00 ELSE n
  IN  AluExecute(PastImmediate(m.next, word), Field(d), m.place, right, d.wide)

TestModrm(d) ==
  LET m == Operand(d)
  IN  AluResult([m.next EXCEPT !.preserve = FALSE], M!AND, Loaded(m.next, m.place, d.wide),
                Loaded(m.next, InRegister(Field(d)), d.wide), d.wide).s
TestAccumulator(d) ==
  AluResult([PastImmediate(d.s, d.wide) EXCEPT !.preserve = FALSE], M!AND,
            Loaded(d.s, Accumulator, d.wide), Immediate(d.s, d.wide), d.wide).s

\* @inc_dec_operation, @group4_operation, @group5_inc_dec_operation.
OneMoreOrLess(s, place, up, wide) ==
  LET kept == [s EXCEPT !.preserve = TRUE, !.saved = Carry(s)]
      r == AluResult(kept, IF up THEN M!ADD ELSE M!SUB, Loaded(s, place, wide), 1, wide)
  IN  Stored(r.s, place, wide, r.n)

IncDecReg16(d) == OneMoreOrLess(d.s, InRegister(d.opcode % 8), d.opcode < \h48, TRUE)
Group4(d) ==
  LET m == Operand(d)
  IN  IF Field(d) > 1 THEN Invalid(d.s)
      ELSE Ok(OneMoreOrLess(m.next, m.place, Field(d) = 0, FALSE))

\* Calls and jumps within the segment, INC and DEC.
Group5(d) ==
  LET m == Operand(d)
      target == Loaded(m.next, m.place, TRUE)
      called == IF Field(d) = 2 THEN PushU16(m.next, m.next.regs.IP) ELSE m.next
  IN  CASE Field(d) \in {0, 1} -> Ok(OneMoreOrLess(m.next, m.place, Field(d) = 0, TRUE))
        [] Field(d) \in {2, 4} -> Ok(Jump(called, target))
        [] OTHER -> Invalid(d.s)

\* The flags of a rotate are those of the last place only; a shift goes on
\* as a logical operation.
Shifted(s, extension, old, x, wide) ==
  IF extension < 4
    THEN Flagged(s, [FlagRecord(s) EXCEPT !.CF = x.carry, !.OF = x.overflow])
    ELSE [Flagged(s, [M!AluFlags(M!AND, old, old, x.value, wide, x.carry)
                        EXCEPT !.OF = x.overflow])
            EXCEPT !.operation = M!AND, !.preserve = FALSE]

\* A rotate that finds the operation of a CMP is not stored.
ShiftStored(s, place, wide, n) ==
  IF s.operation = M!CMP THEN s ELSE Stored(s, place, wide, n)

ShiftWith(d, m, old, count) ==
  LET x == M!Shift(Field(d), old, d.wide, count, Carry(m.next))
  IN  ShiftStored(Shifted(m.next, Field(d), old, x, d.wide), m.place, d.wide, M!Word(x.value))

ShiftOne(d) ==
  LET m == Operand(d)
      count == IF d.opcode < \hD2 THEN 1 ELSE Low(m.next.regs.CX)
  IN  IF count = 0 THEN m.next
      ELSE ShiftWith(d, m, M!Pair(Loaded(m.next, m.place, d.wide)), count)

\* @daa, @das
Decimal(d, adjusted) ==
  LET s == d.s
      f == FlagRecord(s)
      al == Low(s.regs.AX)
      n == M!Pair(adjusted)
      told == [M!AluFlags(M!AND, n, n, n, FALSE, M!HighAdjusted(al, f))
                 EXCEPT !.AF = M!LowAdjusted(al, f)]
      saved == [s EXCEPT !.saved = Carry(s)]
  IN  [Stored(Flagged(saved, Preserving(saved, told)), Accumulator, FALSE, adjusted)
         EXCEPT !.operation = M!AND]

Aam(d) ==
  LET n == CodeAt(d.s, 0)
      s == Consumed(d.s, 1)
      al == Low(s.regs.AX)
  IN  IF n = 0 THEN Invalid(s)
      ELSE Ok([Flagged(s, M!ByteResultFlags(FlagRecord(s), al % n))
                 EXCEPT !.regs.AX = 256 * (al \div n) + (al % n)])
Aad(d) ==
  LET s == Consumed(d.s, 1)
      al == (High(s.regs.AX) * CodeAt(d.s, 0) + Low(s.regs.AX)) % 256
  IN  [Flagged(s, M!ByteResultFlags(FlagRecord(s), al)) EXCEPT !.regs.AX = al]

----------------------------------------------------------------------------
(***************************************************************************)
(* @group3_execute.  NOT of a word in memory complements the two bytes and *)
(* stores them a byte further on, where reading them left the address.     *)
(***************************************************************************)
Group3Not(s, place, wide) ==
  LET n == Size(wide) - 1 - Loaded(s, place, wide)
  IN  IF place.memory /\ wide
        THEN Stored(s, InMemory(place.segment, place.offset + 1), wide, n)
        ELSE Stored(s, place, wide, n)

Group3Multiply(s, n, wide, signed) ==
  LET x == CASE wide /\ signed   -> M!MulS16(s.regs.AX, n)
             [] wide /\ ~signed  -> M!MulU16(s.regs.AX, n)
             [] ~wide /\ signed  -> M!MulS8(Low(s.regs.AX), n)
             [] ~wide /\ ~signed -> M!MulU8(Low(s.regs.AX), n)
      v == M!Pair(x.ax)
      f == [M!AluFlags(M!AND, v, v, v, wide, x.carry) EXCEPT !.OF = x.carry]
  IN  [Flagged(s, Preserving(s, f)) EXCEPT !.regs.AX = x.ax, !.operation = M!AND,
                                           !.regs.DX = IF wide THEN x.dx ELSE @]

Group3Divide(s, n, wide, signed) ==
  LET x == CASE wide /\ signed   -> M!DivS16(s.regs.DX, s.regs.AX, n)
             [] wide /\ ~signed  -> M!DivU16(s.regs.DX, s.regs.AX, n)
             [] ~wide /\ signed  -> M!DivS8(s.regs.AX, n)
             [] ~wide /\ ~signed -> M!DivU8(s.regs.AX, n)
  IN  IF x.error THEN Interrupt(s, 0)
      ELSE IF wide THEN [s EXCEPT !.regs.AX = x.q, !.regs.DX = x.r]
      ELSE [s EXCEPT !.regs.AX = 256 * x.r + x.q]

Group3(d) ==
  LET m == Operand(d)
      s == m.next
      n == Loaded(s, m.place, d.wide)
  IN  CASE Field(d) = 0 -> Ok(AluResult(PastImmediate(s, d.wide), M!AND, n,
                                        Immediate(s, d.wide), d.wide).s)
        [] Field(d) = 2 -> Ok(Group3Not(s, m.place, d.wide))
        [] Field(d) \in {4, 5} -> Ok(Group3Multiply(s, n, d.wide, Field(d) = 5))
        [] Field(d) \in {6, 7} -> Ok(Group3Divide(s, n, d.wide, Field(d) = 7))
        [] OTHER -> Invalid(d.s)

Cbw(d) == [d.s EXCEPT !.regs.AX = Low(@) + IF Low(@) >= 128 THEN \hFF00 ELSE 0]
Cwd(d) == [d.s EXCEPT !.regs.DX = IF SignBit(d.s.regs.AX, TRUE) THEN W - 1 ELSE 0]

----------------------------------------------------------------------------
(***************************************************************************)
(* Moves.  @mov_moffs keeps the low byte of the offset in cpu8088_offset   *)
(* while it fetches the high byte, and the fetch puts IP there.            *)
(***************************************************************************)
MoffsOffset(s) == 256 * CodeAt(s, 1) + Low(s.regs.IP + 1)
MovMoffs(d) ==
  LET s == Consumed(d.s, 2)
      there == InMemory(s.regs[Segment(d, "DS")], MoffsOffset(d.s))
  IN  IF 1 \in BitSet(d.opcode) THEN Stored(s, there, d.wide, Loaded(s, Accumulator, d.wide))
                                ELSE Stored(s, Accumulator, d.wide, Loaded(s, there, d.wide))

MovModrm(d) ==
  LET m == Operand(d)
      register == InRegister(Field(d))
  IN  IF 1 \in BitSet(d.opcode)
        THEN Stored(m.next, register, d.wide, Loaded(m.next, m.place, d.wide))
        ELSE Stored(m.next, m.place, d.wide, Loaded(m.next, register, d.wide))

MovImmediate(d, wide) ==
  Stored(PastImmediate(d.s, wide), InRegister(d.opcode % 8), wide, Immediate(d.s, wide))

MovRmImm(d) ==
  LET m == Operand(d)
  IN  IF Field(d) # 0 THEN Invalid(d.s)
      ELSE Ok(Stored(PastImmediate(m.next, d.wide), m.place, d.wide,
                     Immediate(m.next, d.wide)))

\* @mov_segment_shadow, @segment_pop
SegmentLoaded(s, name, n) ==
  [s EXCEPT !.regs[name] = n, !.shadow = IF name = "SS" THEN 1 ELSE @]

MovSegment(d) ==
  LET m == Operand(d)
      name == Segments[Field(d) + 1]
  IN  IF Field(d) > 3 \/ (Field(d) = 1 /\ d.opcode = \h8E) THEN Invalid(d.s)
      ELSE Ok(IF d.opcode = \h8E
                THEN SegmentLoaded(m.next, name, Loaded(m.next, m.place, TRUE))
                ELSE Stored(m.next, m.place, TRUE, m.next.regs[name]))

LoadFarPointer(d) ==
  LET m == Operand(d)
      segment == IF d.opcode = \hC4 THEN "ES" ELSE "DS"
      second == InMemory(m.place.segment, m.place.offset + 2)
  IN  IF ~m.place.memory THEN Invalid(m.next)
      ELSE Ok([Stored(m.next, InRegister(Field(d)), TRUE, Loaded(m.next, m.place, TRUE))
                 EXCEPT !.regs[segment] = Loaded(m.next, second, TRUE)])

XchgModrm(d) ==
  LET m == Operand(d)
      register == InRegister(Field(d))
      left == Loaded(m.next, m.place, d.wide)
  IN  Stored(Stored(m.next, m.place, d.wide, Loaded(m.next, register, d.wide)),
             register, d.wide, left)
XchgAccumulator(d) ==
  LET register == InRegister(d.opcode % 8)
  IN  Stored(Stored(d.s, Accumulator, TRUE, Loaded(d.s, register, TRUE)),
             register, TRUE, d.s.regs.AX)

\* The physical address is loaded, not the offset.
LeaModrm(d) ==
  LET m == Operand(d)
  IN  Stored(m.next, InRegister(Field(d)), TRUE, Physical(m.place.segment, m.place.offset) % W)

\* The register form, no instruction of the 8088, takes the word of the state
\* at source_offset, where an earlier instruction has left the offset of one of
\* its registers or its extension.
SourceOffsets == 0 .. 8 \cup {10, 12, 14, 16, 18, 20, 22}
StateOrder == WordRegisters \o Segments
StateWord(s, offset) ==
  LET r(i) == s.regs[StateOrder[i]]
      i == offset \div 2 + 1
  IN  IF offset % 2 = 0 THEN r(i) ELSE High(r(i)) + 256 * Low(r(i + 1))
IsLeaRegister(d) == d.opcode = \h8D /\ Modrm(d) >= \hC0
LeaRegister(d, offset) ==
  Ok(Stored(Consumed(d.s, 1), InRegister(Field(d)), TRUE, StateWord(d.s, offset)))

Xlat(d) ==
  LET at == InMemory(d.s.regs[Segment(d, "DS")], d.s.regs.BX + Low(d.s.regs.AX))
  IN  Stored(d.s, Accumulator, FALSE, Loaded(d.s, at, FALSE))

----------------------------------------------------------------------------
\* The stack.  POP to a register takes the register of the wrong field.
PushPopReg16(d) ==
  LET register == InRegister(d.opcode % 8)
  IN  IF d.opcode < \h58 THEN PushU16(d.s, Loaded(d.s, register, TRUE))
      ELSE Stored(Dropped(d.s, 2), register, TRUE, OnStack(d.s, 0))

SegmentStack(d) ==
  LET name == Segments[((d.opcode \div 8) % 4) + 1]
  IN  IF d.wide THEN SegmentLoaded(Dropped(d.s, 2), name, OnStack(d.s, 0))
                ELSE PushU16(d.s, d.s.regs[name])

PopRm16(d) ==
  LET popped == Dropped(d.s, 2)
      m == DecodeEa(Consumed(popped, 1), Modrm(d), d.override)
      place == IF m.place.memory THEN m.place ELSE InRegister(Field(d))
  IN  Stored(m.next, place, TRUE, OnStack(d.s, 0))

Pushf(d) == PushU16(d.s, PushedFlags(d.s))
Popf(d)  == [Dropped(d.s, 2) EXCEPT !.flags = PoppedFlags(OnStack(d.s, 0))]
Sahf(d)  ==
  [d.s EXCEPT !.flags = (@ \ Status) \cup (BitSet(High(d.s.regs.AX)) \cap Status) \cup {RESERVED}]
Lahf(d)  == Stored(d.s, InRegister(4), FALSE, Low(Number(d.s.flags)))

----------------------------------------------------------------------------
\* Control transfer.
Relative(d, wide) ==
  LET next == PastImmediate(d.s, wide)
  IN  Jump(next, next.regs.IP + IF wide THEN CodeWord(d.s, 0) ELSE Displacement8(d.s, 0))
JumpIf(d, taken) == IF taken THEN Relative(d, FALSE) ELSE Consumed(d.s, 1)
JccRel8(d) == JumpIf(d, M!ConditionTrue(d.opcode % 16, FlagRecord(d.s)))

\* @jcxz_test, and the counting of the other three.
LoopRel8(d) ==
  LET counted == [d EXCEPT !.s.regs.CX = (@ - 1) % W]
      more == counted.s.regs.CX # 0
      zero == ZF \in d.s.flags
  IN  CASE d.opcode = \hE3 -> JumpIf(d, d.s.regs.CX = 0)
        [] d.opcode = \hE2 -> JumpIf(counted, more)
        [] d.opcode = \hE1 -> JumpIf(counted, more /\ zero)
        [] d.opcode = \hE0 -> JumpIf(counted, more /\ ~zero)

CallRel16(d) ==
  LET next == Relative(d, TRUE)
  IN  [PushU16(d.s, (d.s.regs.IP + 2) % W) EXCEPT !.regs.IP = next.regs.IP]

\* @fetch_far_target, @install_far_target
FarTarget(s, d) == [s EXCEPT !.regs.IP = CodeWord(d.s, 0), !.regs.CS = CodeWord(d.s, 2)]
CallFar(d) ==
  LET next == Consumed(d.s, 4)
  IN  FarTarget(PushU16(PushU16(next, next.regs.CS), next.regs.IP), d)

StackAdjust(d) == IF d.wide THEN 0 ELSE CodeWord(d.s, 0)
RetNear(d) == [Dropped(d.s, 2 + StackAdjust(d)) EXCEPT !.regs.IP = OnStack(d.s, 0)]
RetFar(d)  ==
  [Dropped(d.s, 4 + StackAdjust(d)) EXCEPT !.regs.IP = OnStack(d.s, 0),
                                           !.regs.CS = OnStack(d.s, 1)]

SoftwareInterrupt(d) ==
  CASE d.opcode = \hCC -> Interrupt(d.s, 3)
    [] d.opcode = \hCD -> Interrupt(Consumed(d.s, 1), CodeAt(d.s, 0))
    [] d.opcode = \hCE -> IF OF \in d.s.flags THEN Interrupt(d.s, 4) ELSE d.s

\* @clc to @std; STI sets the interrupt shadow.
FlagOf == (\hF8 :> CF) @@ (\hF9 :> CF) @@ (\hFA :> IntF) @@ (\hFB :> IntF)
            @@ (\hFC :> DF) @@ (\hFD :> DF)
FlagInstruction(d) ==
  [d.s EXCEPT !.flags = (@ \ {FlagOf[d.opcode]}) \cup When(d.wide, FlagOf[d.opcode]),
              !.shadow = IF d.opcode = \hFB THEN 1 ELSE @]
Cmc(d) == [d.s EXCEPT !.flags = (@ \ {CF}) \cup When(~Carry(d.s), CF)]

----------------------------------------------------------------------------
(***************************************************************************)
(* @string_loop: the rounds of a repetition are all made in one step.      *)
(***************************************************************************)
StringKind(d) == d.opcode - (d.opcode % 2)

StringMoved(d, s, source, target) ==
  LET left == IF StringKind(d) \in {\hAA, \hAE} THEN Accumulator ELSE source
      n == Loaded(s, left, d.wide)
  IN  CASE StringKind(d) \in {\hA4, \hAA} -> Stored(s, target, d.wide, n)
        [] StringKind(d) = \hAC -> Stored(s, Accumulator, d.wide, n)
        [] StringKind(d) \in {\hA6, \hAE} ->
             AluResult([s EXCEPT !.preserve = FALSE], M!CMP, n, Loaded(s, target, d.wide), d.wide).s

StringRound(d, s) ==
  LET by == (IF d.wide THEN 2 ELSE 1) * IF DF \in s.flags THEN -1 ELSE 1
      si == IF StringKind(d) \in {\hA4, \hA6, \hAC} THEN by ELSE 0
      di == IF StringKind(d) \in {\hA4, \hA6, \hAA, \hAE} THEN by ELSE 0
  IN  [StringMoved(d, s, InMemory(s.regs[Segment(d, "DS")], s.regs.SI),
                   InMemory(s.regs.ES, s.regs.DI))
         EXCEPT !.regs.SI = (@ + si) % W, !.regs.DI = (@ + di) % W,
                !.regs.CX = IF d.repeat = 0 THEN @ ELSE (@ - 1) % W]

\* @string_repeat and @string_compare_repeat.
GoesOn(d, s) ==
  /\ s.regs.CX # 0
  /\ StringKind(d) \in {\hA6, \hAE} => (ZF \in s.flags) = (d.repeat = \hF3)
Round(d, s) == LET t == StringRound(d, s) IN [s |-> t, over |-> ~GoesOn(d, t)]

StringInstruction(d) ==
  LET after[k \in 0 .. d.s.regs.CX] ==
        IF k = 0 THEN [s |-> d.s, over |-> FALSE]
        ELSE LET p == after[k - 1] IN IF p.over THEN p ELSE Round(d, p.s)
  IN  IF d.repeat = 0 THEN StringRound(d, d.s) ELSE after[d.s.regs.CX].s

----------------------------------------------------------------------------
\* Ports: a word is two bytes, at the port and the one after it.
ByDx(d) == d.opcode >= \hEC
Port(d, k) == IF ByDx(d) THEN (d.s.regs.DX + k) % W ELSE CodeAt(d.s, 0) + k
PortNamed(d) == IF ByDx(d) THEN d.s ELSE Consumed(d.s, 1)

PortIn(s, port, index) ==
  Stored(PortRead(s, port), InRegister(index), FALSE, PortValue(s, port))
IoReadAccumulator(d) ==
  LET low == PortIn(PortNamed(d), Port(d, 0), 0)
  IN  IF d.wide THEN PortIn(low, Port(d, 1), 4) ELSE low
IoWriteAccumulator(d) ==
  LET low == PortWritten(PortNamed(d), Port(d, 0), Low(d.s.regs.AX))
  IN  IF d.wide THEN PortWritten(low, Port(d, 1), High(d.s.regs.AX)) ELSE low

----------------------------------------------------------------------------
(***************************************************************************)
(* The dispatch, by ranges and masks of the opcode.  The groups that may   *)
(* be invalid say so themselves.                                           *)
(***************************************************************************)
MaskedAs(opcode, mask, value) == BitSet(opcode) \cap BitSet(mask) = BitSet(value)

Plain(d) ==
  LET op == d.opcode
  IN  CASE MaskedAs(op, \hC6, \h04) -> AluAccumulatorImmediate(d)
        [] op \in \h40 .. \h4F -> IncDecReg16(d)
        [] op \in \h50 .. \h5F -> PushPopReg16(d)
        [] op \in \h70 .. \h7F -> JccRel8(d)
        [] MaskedAs(op, \hE6, \h06) -> SegmentStack(d)
        [] op = \h27 -> Decimal(d, M!DecimalAdd(Low(d.s.regs.AX), FlagRecord(d.s)))
        [] op = \h2F -> Decimal(d, M!DecimalSubtract(Low(d.s.regs.AX), FlagRecord(d.s)))
        [] op \in \h80 .. \h83 -> AluRmImmediate(d)
        [] op \in {\h84, \h85} -> TestModrm(d)
        [] MaskedAs(op, \hC4, 0) -> AluModrm(d)
        [] op \in {\h86, \h87} -> XchgModrm(d)
        [] op \in \h88 .. \h8B -> MovModrm(d)
        [] op = \h8D -> LeaModrm(d)
        [] op = \h8F -> PopRm16(d)
        [] op \in \h90 .. \h97 -> XchgAccumulator(d)
        [] op = \h98 -> Cbw(d)
        [] op = \h99 -> Cwd(d)
        [] op = \h9A -> CallFar(d)
        [] op = \h9B -> d.s
        [] op = \h9C -> Pushf(d)
        [] op = \h9D -> Popf(d)
        [] op = \h9E -> Sahf(d)
        [] op = \h9F -> Lahf(d)
        [] op \in \hA0 .. \hA3 -> MovMoffs(d)
        [] op \in {\hA8, \hA9} -> TestAccumulator(d)
        [] op \in \hA4 .. \hAF \ {\hA8, \hA9} -> StringInstruction(d)
        [] op \in \hB0 .. \hB7 -> MovImmediate(d, FALSE)
        [] op \in \hB8 .. \hBF -> MovImmediate(d, TRUE)
        [] op \in {\hC2, \hC3} -> RetNear(d)
        [] op \in {\hCA, \hCB} -> RetFar(d)
        [] op \in \hCC .. \hCE -> SoftwareInterrupt(d)
        [] op = \hCF -> Iret(d.s)
        [] op \in \hD0 .. \hD3 -> ShiftOne(d)
        [] op = \hD5 -> Aad(d)
        [] op = \hD7 -> Xlat(d)
        [] op \in \hE0 .. \hE3 -> LoopRel8(d)
        [] op \in {\hE4, \hE5, \hEC, \hED} -> IoReadAccumulator(d)
        [] op \in {\hE6, \hE7, \hEE, \hEF} -> IoWriteAccumulator(d)
        [] op = \hE8 -> CallRel16(d)
        [] op = \hE9 -> Relative(d, TRUE)
        [] op = \hEA -> FarTarget(d.s, d)
        [] op = \hEB -> Relative(d, FALSE)
        [] op = \hF5 -> Cmc(d)
        [] op \in \hF8 .. \hFD -> FlagInstruction(d)

Unknown ==
  {\h37, \h3F} \cup \h60 .. \h6F
    \cup {\hC0, \hC1, \hC8, \hC9, \hD6, \hF1, \hF2, \hF3} \cup \hD8 .. \hDF

Dispatched(d) ==
  LET op == d.opcode
  IN  CASE op \in {\h8C, \h8E} -> MovSegment(d)
        [] op \in {\hC4, \hC5} -> LoadFarPointer(d)
        [] op \in {\hC6, \hC7} -> MovRmImm(d)
        [] op = \hD4 -> Aam(d)
        [] op \in {\hF6, \hF7} -> Group3(d)
        [] op = \hFE -> Group4(d)
        [] op = \hFF -> Group5(d)
        [] op = \hF4 -> [d.s EXCEPT !.halted = TRUE, !.status = "halted"]
        [] op \in Unknown -> Invalid(d.s)
        [] OTHER -> Ok(Plain(d))

----------------------------------------------------------------------------
(***************************************************************************)
(* cpu8088_step, after cpu8088_service_pending_interrupt: an NMI comes     *)
(* first; the shadow holds a request back, and so do IF and SP = 0.        *)
(***************************************************************************)
Begun == [asm EXCEPT !.io = <<>>, !.return = {}]
Served(s, vector) == Ok([Interrupt(s, vector) EXCEPT !.halted = FALSE])

ServesNmi == asm.nmi
ServesIrq ==
  ~asm.nmi /\ asm.shadow = 0 /\ asm.irq # {} /\ asm.regs.SP # 0 /\ IntF \in asm.flags
Waited == [Begun EXCEPT !.shadow = IF asm.shadow > 0 THEN @ - 1 ELSE 0]

ServiceNmi ==
  /\ ServesNmi
  /\ asm' = Served([Begun EXCEPT !.nmi = FALSE], 2)
ServiceIrq ==
  /\ ServesIrq
  /\ \E vector \in asm.irq : asm' = Served([Begun EXCEPT !.irq = {}], vector)
StayHalted ==
  /\ ~ServesNmi /\ ~ServesIrq
  /\ asm.halted
  /\ asm' = [Waited EXCEPT !.status = "halted"]
Executes(d) ==
  IF IsLeaRegister(d) THEN \E offset \in SourceOffsets : asm' = LeaRegister(d, offset)
                      ELSE asm' = Dispatched(d)
Instruction ==
  /\ ~ServesNmi /\ ~ServesIrq
  /\ ~asm.halted
  /\ Executes(Fetched(Waited))

cpu8088_step == ServiceNmi \/ ServiceIrq \/ StayHalted \/ Instruction
=============================================================================
