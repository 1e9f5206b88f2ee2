----------------------------- MODULE Reference -----------------------------
(***************************************************************************)
(* tools/ref8088/runner.py: the deterministic processor the vectors run    *)
(* on, one action per handler of Reference8088.step.  The numbers are      *)
(* Python's: a sum is computed whole and then masked.  Cycles are left     *)
(* out.                                                                    *)
(***************************************************************************)
EXTENDS Cpu8088

VARIABLES
  cpu,           \* registers, flags, memory, halted, interrupt_shadow, ports
  pending_irq,   \* the vector, in a set, if there is one
  pending_nmi,
  trace          \* what the last step returned, in a sequence

vars == <<cpu, pending_irq, pending_nmi, trace>>

----------------------------------------------------------------------------
(***************************************************************************)
(* decode_modrm: s stands at the ModR/M byte.  The operand, the register   *)
(* field, and the machine past the displacement.                           *)
(***************************************************************************)
Bases == << <<"BX", "SI">>, <<"BX", "DI">>, <<"BP", "SI">>, <<"BP", "DI">>,
            <<"SI">>, <<"DI">>, <<"BP">>, <<"BX">> >>

\* (Variant: direct addresses count as based on BP.)
DecodeModrmDirectInStack(s, wide, override) ==
  LET modrm == CodeAt(s, 0)
      mod == modrm \div 64
      rm  == modrm % 8
      regs == s.regs
      names == Bases[rm + 1]
      direct == mod = 0 /\ rm = 6
      base == regs[names[1]] + IF Len(names) = 2 THEN regs[names[2]] ELSE 0
      disp == CASE direct \/ mod = 2 -> CodeWord(s, 1)
                [] mod = 1 -> Displacement8(s, 1)
                [] OTHER -> 0
      segment == IF override # "" THEN override
                 ELSE IF rm \in {2, 3, 6} THEN "SS" ELSE "DS"
  IN  [operand |-> IF mod = 3 THEN [kind |-> "register", index |-> rm, wide |-> wide]
                   ELSE [kind |-> "memory", segment |-> regs[segment], wide |-> wide,
                         offset |-> ((IF direct THEN 0 ELSE base) + disp) % W],
       reg |-> (modrm \div 8) % 8,
       s |-> Consumed(s, IF direct \/ mod = 2 THEN 3 ELSE IF mod = 1 THEN 2 ELSE 1)]

DecodeModrm(s, wide, override) ==
  LET modrm == CodeAt(s, 0)
      mod == modrm \div 64
      rm  == modrm % 8
      regs == s.regs
      names == Bases[rm + 1]
      direct == mod = 0 /\ rm = 6
      base == regs[names[1]] + IF Len(names) = 2 THEN regs[names[2]] ELSE 0
      disp == CASE direct \/ mod = 2 -> CodeWord(s, 1)
                [] mod = 1 -> Displacement8(s, 1)
                [] OTHER -> 0
      segment == IF override # "" THEN override
                 ELSE IF rm \in {2, 3, 6} /\ ~direct THEN "SS" ELSE "DS"
  IN  [operand |-> IF mod = 3 THEN [kind |-> "register", index |-> rm, wide |-> wide]
                   ELSE [kind |-> "memory", segment |-> regs[segment], wide |-> wide,
                         offset |-> ((IF direct THEN 0 ELSE base) + disp) % W],
       reg |-> (modrm \div 8) % 8,
       s |-> Consumed(s, IF direct \/ mod = 2 THEN 3 ELSE IF mod = 1 THEN 2 ELSE 1)]

RegisterOperand(index, wide) == [kind |-> "register", index |-> index, wide |-> wide]

Read(s, o) ==
  IF o.kind = "register" THEN GetRegister(s.regs, o.index, o.wide)
                         ELSE ReadMemory(s.mem, o.segment, o.offset, o.wide)
Write(s, o, n) ==
  IF o.kind = "register"
    THEN [s EXCEPT !.regs = SetRegister(@, o.index, o.wide, n)]
    ELSE [s EXCEPT !.mem = WriteMemory(@, o.segment, o.offset, o.wide, n)]

SetFlags(s, touched, set) ==
  [s EXCEPT !.flags = (@ \ touched) \cup set \cup {RESERVED}]

EvenParity(n) == Cardinality(BitSet(Low(n))) % 2 = 0

\* update_result_flags
ResultFlags(n, wide) ==
  When(EvenParity(n), PF) \cup When(n % Size(wide) = 0, ZF)
    \cup When(SignBit(n % Size(wide), wide), SF)

\* alu: the result and the six flags.
Operations == <<"add", "or", "adc", "sbb", "and", "sub", "xor", "cmp">>
Logic(operation, left, right) ==
  CASE operation = "and" -> Number(BitSet(left) \cap BitSet(right))
    [] operation = "or"  -> Number(BitSet(left) \cup BitSet(right))
    [] operation = "xor" -> Number((BitSet(left) \cup BitSet(right))
                                     \ (BitSet(left) \cap BitSet(right)))

Alu(s, operation, left, right, wide) ==
  LET sign(n) == SignBit(n, wide)
      carry   == IF CF \in s.flags THEN 1 ELSE 0
      sum  == left + right + IF operation = "adc" THEN carry ELSE 0
      owed == right + IF operation = "sbb" THEN carry ELSE 0
      lows == (left % 16) + (right % 16) + (sum - left - right)
      res  == CASE operation \in {"add", "adc"} -> sum % Size(wide)
                [] operation \in {"sub", "sbb", "cmp"} -> (left - owed) % Size(wide)
                [] OTHER -> Logic(operation, left, right)
      set  == CASE operation \in {"add", "adc"} ->
                     When(sum >= Size(wide), CF) \cup When(lows > 15, AF)
                       \cup When(sign(left) = sign(right) /\ sign(res) # sign(left), OF)
                [] operation \in {"sub", "sbb", "cmp"} ->
                     When(left < owed, CF)
                       \cup When(left % 16 < (right % 16) + owed - right, AF)
                       \cup When(sign(left) # sign(right) /\ sign(res) # sign(left), OF)
                [] OTHER -> {}
  IN  [n |-> res, s |-> SetFlags(s, Arithmetic6, set \cup ResultFlags(res, wide))]

Push(s, n) ==
  LET sp == (s.regs.SP - 2) % W
  IN  [s EXCEPT !.regs.SP = sp, !.mem = WriteMemory(@, s.regs.SS, sp, TRUE, n)]
Top(s)     == ReadMemory(s.mem, s.regs.SS, s.regs.SP, TRUE)
Popped(s)  == [s EXCEPT !.regs.SP = (@ + 2) % W]

FlagsWord(s) == Number(s.flags \cup 12 .. 15)
FlagsFrom(n) == (BitSet(n) \ 12 .. 15) \cup {RESERVED}

\* (Variant: the flags are cleared before they are pushed.)
InterruptClearsFirst(s, vector) ==
  LET cleared == SetFlags(s, {IntF, TF}, {})
      framed == Push(Push(Push(cleared, FlagsWord(cleared)), s.regs.CS), s.regs.IP)
  IN  [framed EXCEPT !.return = {s.regs.IP},
                     !.regs.IP = ReadMemory(framed.mem, 0, 4 * vector, TRUE),
                     !.regs.CS = ReadMemory(framed.mem, 0, 4 * vector + 2, TRUE)]

Interrupt(s, vector) ==
  LET framed == Push(Push(Push(s, FlagsWord(s)), s.regs.CS), s.regs.IP)
  IN  [SetFlags(framed, {IntF, TF}, {}) EXCEPT
         !.return = {s.regs.IP},
         !.regs.IP = ReadMemory(framed.mem, 0, 4 * vector, TRUE),
         !.regs.CS = ReadMemory(framed.mem, 0, 4 * vector + 2, TRUE)]

Condition(flags, code) ==
  LET has(f) == f \in flags
      less   == has(SF) # has(OF)
      plain  == <<has(OF), has(CF), has(ZF), has(CF) \/ has(ZF), has(SF), has(PF),
                  less, has(ZF) \/ less>>
  IN  plain[(code \div 2) + 1] # (code % 2 = 1)

----------------------------------------------------------------------------
(***************************************************************************)
(* The opcodes the configuration lists, by the handler that is named.  The *)
(* last four handlers are named there and written nowhere.                 *)
(***************************************************************************)
AluRows == UNION {{8 * k + i : i \in 0 .. 3} : k \in 0 .. 7}
HandlerRows ==
  [alu_modrm |-> AluRows,
   alu_acc_imm |-> UNION {{8 * k + 4, 8 * k + 5} : k \in 0 .. 7},
   segment_stack |-> UNION {{8 * k + 6, 8 * k + 7} : k \in 0 .. 3}, daa |-> {\h27},
   inc_dec_reg16 |-> \h40 .. \h4F, push_reg16 |-> \h50 .. \h57,
   pop_reg16 |-> \h58 .. \h5F, jcc_rel8 |-> \h70 .. \h7F, alu_rm_imm |-> \h80 .. \h83,
   test_modrm |-> {\h84, \h85}, xchg_modrm |-> {\h86, \h87},
   mov_modrm |-> \h88 .. \h8B, mov_segment |-> {\h8C, \h8E},
   xchg_accumulator |-> \h90 .. \h97, cwd |-> {\h99}, call_far |-> {\h9A},
   wait |-> {\h9B}, pushf |-> {\h9C}, popf |-> {\h9D}, sahf |-> {\h9E},
   lahf |-> {\h9F}, mov_moffs |-> \hA0 .. \hA3, movs |-> {\hA4, \hA5},
   cmps |-> {\hA6, \hA7}, test_acc_imm |-> {\hA8, \hA9}, stos |-> {\hAA, \hAB},
   lods |-> {\hAC, \hAD}, scas |-> {\hAE, \hAF}, mov_r8_imm8 |-> \hB0 .. \hB7,
   mov_r16_imm16 |-> \hB8 .. \hBF, ret_near |-> {\hC2, \hC3},
   load_far_pointer |-> {\hC4, \hC5}, mov_rm_imm |-> {\hC6, \hC7},
   ret_far |-> {\hCA, \hCB}, int3 |-> {\hCC}, int_imm8 |-> {\hCD}, into |-> {\hCE},
   iret |-> {\hCF}, shift |-> \hD0 .. \hD3, aam |-> {\hD4}, aad |-> {\hD5},
   loop_rel8 |-> \hE0 .. \hE3, in_imm |-> {\hE4, \hE5}, out_imm |-> {\hE6, \hE7},
   call_rel16 |-> {\hE8}, jmp_rel16 |-> {\hE9}, jmp_far |-> {\hEA},
   jmp_rel8 |-> {\hEB}, in_dx |-> {\hEC, \hED}, out_dx |-> {\hEE, \hEF},
   hlt |-> {\hF4}, complement_cf |-> {\hF5}, group3 |-> {\hF6, \hF7},
   clear_set |-> \hF8 .. \hFD, group4 |-> {\hFE}, group5 |-> {\hFF},
   lea_modrm |-> {\h8D}, pop_rm16 |-> {\h8F}, cbw |-> {\h98}]

NoHandler == "none"
HandlerOf == [opcode \in Byte |->
  LET rows == {h \in DOMAIN HandlerRows : opcode \in HandlerRows[h]}
  IN  IF rows = {} THEN NoHandler ELSE CHOOSE h \in rows : TRUE]

(***************************************************************************)
(* An instruction in hand: the machine past its opcode, and what the       *)
(* prefixes and the opcode said.  A handler gives what becomes of it.      *)
(***************************************************************************)
Fetched(s) ==
  LET n == PrefixCount(s)
      segment == LastPrefix(s, n, DOMAIN SegmentPrefix)
      opcode == CodeAt(s, n)
  IN  [s |-> Consumed(s, n + 1), opcode |-> opcode, handler |-> HandlerOf[opcode],
       override |-> IF segment = 0 THEN "" ELSE SegmentPrefix[segment],
       repeat |-> LastPrefix(s, n, RepeatPrefixes),
       wide |-> opcode % 2 = 1]

Done(s, status) == [s |-> s, status |-> status]
Ok(s)      == Done(s, "ok")
Invalid(s) == Done(s, "invalid")

Immediate(s, wide) ==
  [n |-> IF wide THEN CodeWord(s, 0) ELSE CodeAt(s, 0), s |-> Consumed(s, IF wide THEN 2 ELSE 1)]

----------------------------------------------------------------------------
\* Moves.
Accumulator(wide) == RegisterOperand(0, wide)

XchgAccumulator(d) ==
  LET name == WordRegisters[(d.opcode % 8) + 1]
  IN  Ok([d.s EXCEPT !.regs = [@ EXCEPT !["AX"] = d.s.regs[name], ![name] = d.s.regs["AX"]]])

Cwd(d) == Ok([d.s EXCEPT !.regs.DX = IF SignBit(d.s.regs.AX, TRUE) THEN W - 1 ELSE 0])

MovRegImm(d) ==
  LET wide == d.handler = "mov_r16_imm16"
      immediate == Immediate(d.s, wide)
  IN  Ok(Write(immediate.s, RegisterOperand(d.opcode % 8, wide), immediate.n))

MovModrm(d) ==
  LET m == DecodeModrm(d.s, d.wide, d.override)
      reg == RegisterOperand(m.reg, d.wide)
      toReg == 1 \in BitSet(d.opcode)
  IN  Ok(IF toReg THEN Write(m.s, reg, Read(m.s, m.operand))
                  ELSE Write(m.s, m.operand, Read(m.s, reg)))

XchgModrm(d) ==
  LET m == DecodeModrm(d.s, d.wide, d.override)
      reg == RegisterOperand(m.reg, d.wide)
      exchanged == Write(m.s, m.operand, Read(m.s, reg))
  IN  Ok(Write(exchanged, reg, Read(m.s, m.operand)))

\* (Variant: interrupts may come between the two halves of a stack.)
LoadSegmentAtOnce(s, name, n) == [s EXCEPT !.regs[name] = n]

\* Loading SS keeps interrupts back for one instruction.
LoadSegment(s, name, n) ==
  [s EXCEPT !.regs[name] = n, !.shadow = IF name = "SS" THEN 1 ELSE @]

MovSegment(d) ==
  LET m == DecodeModrm(d.s, TRUE, d.override)
      name == Segments[m.reg + 1]
  IN  IF m.reg > 3 \/ (d.opcode = \h8E /\ m.reg = 1)
        THEN Invalid(m.s)
        ELSE Ok(IF d.opcode = \h8C THEN Write(m.s, m.operand, m.s.regs[name])
                ELSE LoadSegment(m.s, name, Read(m.s, m.operand)))

MovRmImm(d) ==
  LET m == DecodeModrm(d.s, d.wide, d.override)
      immediate == Immediate(m.s, d.wide)
  IN  IF m.reg # 0 THEN Invalid(m.s) ELSE Ok(Write(immediate.s, m.operand, immediate.n))

LoadFarPointer(d) ==
  LET m == DecodeModrm(d.s, TRUE, d.override)
      segment == ReadMemory(m.s.mem, m.operand.segment, (m.operand.offset + 2) % W, TRUE)
      loaded == Write(m.s, RegisterOperand(m.reg, TRUE), Read(m.s, m.operand))
  IN  IF m.operand.kind # "memory" THEN Invalid(m.s)
      ELSE Ok([loaded EXCEPT !.regs[IF d.opcode = \hC4 THEN "ES" ELSE "DS"] = segment])

\* The data segment, whatever the prefix said.
MovMoffs(d) ==
  LET s == Consumed(d.s, 2)
      there == [kind |-> "memory", segment |-> s.regs.DS, offset |-> CodeWord(d.s, 0),
                wide |-> d.wide]
  IN  Ok(IF 1 \in BitSet(d.opcode) THEN Write(s, there, Read(s, Accumulator(d.wide)))
                                   ELSE Write(s, Accumulator(d.wide), Read(s, there)))

----------------------------------------------------------------------------
\* The stack.
PushReg(d) == Ok(Push(d.s, GetRegister(d.s.regs, d.opcode % 8, TRUE)))
PopReg(d)  == Ok(Write(Popped(d.s), RegisterOperand(d.opcode % 8, TRUE), Top(d.s)))

SegmentStack(d) ==
  LET name == Segments[((d.opcode \div 8) % 4) + 1]
  IN  Ok(IF d.wide THEN LoadSegment(Popped(d.s), name, Top(d.s))
                   ELSE Push(d.s, d.s.regs[name]))

Pushf(d) == Ok(Push(d.s, FlagsWord(d.s)))
Popf(d)  == Ok([Popped(d.s) EXCEPT !.flags = FlagsFrom(Top(d.s))])
Sahf(d)  ==
  Ok(SetFlags(d.s, Status, BitSet(GetRegister(d.s.regs, 4, FALSE)) \cap Status))
Lahf(d)  == Ok(Write(d.s, RegisterOperand(4, FALSE), Low(Number(d.s.flags))))

----------------------------------------------------------------------------
\* Arithmetic.
AluModrm(d, operation) ==
  LET m == DecodeModrm(d.s, d.wide, d.override)
      reg == RegisterOperand(m.reg, d.wide)
      toReg == 1 \in BitSet(d.opcode)
      destination == IF toReg THEN reg ELSE m.operand
      source == IF toReg THEN m.operand ELSE reg
      r == Alu(m.s, operation, Read(m.s, destination), Read(m.s, source), d.wide)
  IN  Ok(IF operation = "cmp" \/ d.handler = "test_modrm"
           THEN r.s ELSE Write(r.s, destination, r.n))

\* 83 extends the sign of a byte.
AluRmImm(d) ==
  LET m == DecodeModrm(d.s, d.wide, d.override)
      operation == Operations[m.reg + 1]
      immediate == IF d.opcode = \h83
                     THEN [n |-> Displacement8(m.s, 0) % W, s |-> Consumed(m.s, 1)]
                     ELSE Immediate(m.s, d.wide)
      r == Alu(immediate.s, operation, Read(immediate.s, m.operand), immediate.n, d.wide)
  IN  Ok(IF operation = "cmp" THEN r.s ELSE Write(r.s, m.operand, r.n))

AluAccImm(d, operation) ==
  LET immediate == Immediate(d.s, d.wide)
      r == Alu(immediate.s, operation, Read(d.s, Accumulator(d.wide)), immediate.n, d.wide)
  IN  Ok(IF operation = "cmp" \/ d.handler = "test_acc_imm"
           THEN r.s ELSE Write(r.s, Accumulator(d.wide), r.n))

\* One more or less: the carry flag stays.
Stepped(s, operand, up) ==
  LET r == Alu(s, IF up THEN "add" ELSE "sub", Read(s, operand), 1, operand.wide)
  IN  [Write(r.s, operand, r.n) EXCEPT !.flags = (@ \ {CF}) \cup (s.flags \cap {CF})]

IncDecReg(d) == Ok(Stepped(d.s, RegisterOperand(d.opcode % 8, TRUE), d.opcode < \h48))

Group4(d) ==
  LET m == DecodeModrm(d.s, FALSE, d.override)
  IN  IF m.reg \in {0, 1} THEN Ok(Stepped(m.s, m.operand, m.reg = 0)) ELSE Invalid(m.s)

\* Only the calls and jumps within the segment.
Group5(d) ==
  LET m == DecodeModrm(d.s, TRUE, d.override)
      target == Read(m.s, m.operand)
  IN  IF m.reg \notin {2, 4} THEN Invalid(m.s)
      ELSE Ok(Jump(IF m.reg = 2 THEN Push(m.s, m.s.regs.IP) ELSE m.s, target))

Multiply(s, operand, signed) ==
  LET wide == operand.wide
      size == Size(wide)
      value(n) == IF signed THEN SignedOf(n, size) ELSE n
      product == value(s.regs.AX % size) * value(Read(s, operand))
      upper == (product \div size) % size
      lower == product % size
      over  == upper # IF signed /\ SignBit(lower, wide) THEN size - 1 ELSE 0
      flags == When(over, CF) \cup When(over, OF) \cup ResultFlags(lower, wide)
  IN  SetFlags([s EXCEPT !.regs.AX = IF wide THEN lower ELSE size * upper + lower,
                         !.regs.DX = IF wide THEN upper ELSE @],
               Arithmetic6, flags)

Magnitude(n) == IF n < 0 THEN -n ELSE n

\* The quotient and the rest, or that there is none to be had.
Division(s, operand, signed) ==
  LET wide == operand.wide
      size == Size(wide)
      value(n) == IF signed THEN SignedOf(n, W) ELSE n
      dividend == IF wide THEN value(s.regs.DX) * W + s.regs.AX ELSE value(s.regs.AX)
      divisor  == IF signed THEN SignedOf(Read(s, operand), size) ELSE Read(s, operand)
      whole    == Magnitude(dividend) \div Magnitude(divisor)
      quotient == IF (dividend < 0) # (divisor < 0) THEN -whole ELSE whole
      rest     == dividend - quotient * divisor
      fits     == quotient \in IF signed THEN -(size \div 2) .. (size \div 2) - 1
                                         ELSE 0 .. size - 1
  IN  IF divisor = 0 \/ ~fits THEN [error |-> TRUE]
      ELSE [error |-> FALSE, quotient |-> quotient, rest |-> rest]

Divide(s, operand, signed) ==
  LET r == Division(s, operand, signed)
  IN  IF r.error THEN Interrupt(s, 0)
      ELSE IF operand.wide
        THEN [s EXCEPT !.regs.AX = r.quotient % W, !.regs.DX = r.rest % W]
        ELSE [s EXCEPT !.regs.AX = 256 * (r.rest % 256) + (r.quotient % 256)]

Group3(d) ==
  LET m == DecodeModrm(d.s, d.wide, d.override)
      value == Read(m.s, m.operand)
      immediate == Immediate(m.s, d.wide)
  IN  CASE m.reg = 0 -> Ok(Alu(immediate.s, "and", value, immediate.n, d.wide).s)
        [] m.reg = 2 -> Ok(Write(m.s, m.operand, Size(d.wide) - 1 - value))
        [] m.reg \in {4, 5} -> Ok(Multiply(m.s, m.operand, m.reg = 5))
        [] m.reg \in {6, 7} -> Ok(Divide(m.s, m.operand, m.reg = 7))
        [] OTHER -> Invalid(m.s)

(***************************************************************************)
(* Shifts: one place as often as the count says, CL unmasked.  The         *)
(* overflow flag is that of a single shift, and off for any other count.   *)
(***************************************************************************)
ShiftedOnce(extension, v, c, wide) ==
  LET top == IF SignBit(v, wide) THEN 1 ELSE 0
      half == Size(wide) \div 2
      bottom == v % 2
      left(in) == [v |-> ((2 * v) % Size(wide)) + in, c |-> top]
      right(in) == [v |-> (v \div 2) + half * in, c |-> bottom]
  IN  CASE extension = 0 -> left(top)
        [] extension = 1 -> right(bottom)
        [] extension = 2 -> left(c)
        [] extension = 3 -> right(c)
        [] extension \in {4, 6} -> left(0)
        [] extension = 5 -> right(0)
        [] extension = 7 -> right(top)

ShiftCount(d) == IF d.opcode < \hD2 THEN 1 ELSE GetRegister(d.s.regs, 1, FALSE)

\* The value and the carry after that many places.
ShiftResult(extension, initial, carry, count, wide) ==
  LET shifted[i \in 0 .. count] ==
        IF i = 0 THEN [v |-> initial, c |-> carry]
        ELSE LET p == shifted[i - 1] IN ShiftedOnce(extension, p.v, p.c, wide)
  IN  shifted[count]

ShiftFlags(s, e, initial, r, count, wide) ==
  LET sign(n) == SignBit(n % Size(wide), wide)
      over == CASE e \in {0, 2} -> sign(r.v) # (r.c = 1)
                [] e \in {1, 3} -> sign(r.v) # sign(2 * r.v)
                [] e \in {4, 6} -> sign(2 * initial) # sign(initial)
                [] e = 5 -> sign(initial)
                [] e = 7 -> FALSE
      set == When(r.c = 1, CF) \cup When(count = 1 /\ over, OF)
  IN  IF e < 4 THEN SetFlags(s, {CF, OF}, set)
      ELSE SetFlags(s, Arithmetic6, set \cup ResultFlags(r.v, wide))

ShiftBy(s, e, operand, r, count) ==
  IF count = 0 THEN s
  ELSE Write(ShiftFlags(s, e, Read(s, operand), r, count, operand.wide), operand, r.v)

Shift(d) ==
  LET m == DecodeModrm(d.s, d.wide, d.override)
      count == ShiftCount(d)
      carry == IF CF \in d.s.flags THEN 1 ELSE 0
  IN  Ok(ShiftBy(m.s, m.reg, m.operand,
                 ShiftResult(m.reg, Read(m.s, m.operand), carry, count, d.wide), count))

Daa(d) ==
  LET al == GetRegister(d.s.regs, 0, FALSE)
      lows  == al % 16 > 9 \/ AF \in d.s.flags
      highs == al > \h99 \/ CF \in d.s.flags
      adjusted == (al + (IF lows THEN 6 ELSE 0) + IF highs THEN \h60 ELSE 0) % 256
  IN  Ok(SetFlags(Write(d.s, Accumulator(FALSE), adjusted), Arithmetic6,
                  When(lows, AF) \cup When(highs, CF) \cup ResultFlags(adjusted, FALSE)))

Aam(d) ==
  LET base == CodeAt(d.s, 0)
      s == Consumed(d.s, 1)
      al == GetRegister(s.regs, 0, FALSE)
  IN  IF base = 0 THEN Invalid(s)
      ELSE Ok(SetFlags([s EXCEPT !.regs.AX = 256 * (al \div base) + (al % base)],
                       {PF, ZF, SF}, ResultFlags(al % base, FALSE)))

Aad(d) ==
  LET s == Consumed(d.s, 1)
      value == (High(s.regs.AX) * CodeAt(d.s, 0) + Low(s.regs.AX)) % 256
  IN  Ok(SetFlags([s EXCEPT !.regs.AX = value], {PF, ZF, SF}, ResultFlags(value, FALSE)))

ComplementCarry(d) == Ok([d.s EXCEPT !.flags = IF CF \in @ THEN @ \ {CF} ELSE @ \cup {CF}])

\* STI keeps interrupts back for one instruction.
ClearSet(d) ==
  LET flag == CASE d.opcode < \hFA -> CF [] d.opcode \in {\hFA, \hFB} -> IntF [] OTHER -> DF
      s == SetFlags(d.s, {flag}, When(d.wide, flag))
  IN  Ok([s EXCEPT !.shadow = IF d.opcode = \hFB THEN 1 ELSE @])

----------------------------------------------------------------------------
(***************************************************************************)
(* Strings: once, or as often as CX says; a comparison ends on the wrong   *)
(* zero flag.  The whole repetition is one step.                           *)
(***************************************************************************)
StringOnce(d, s) ==
  LET wide == d.wide
      source == ReadMemory(s.mem, s.regs[IF d.override = "" THEN "DS" ELSE d.override],
                           s.regs.SI, wide)
      there  == ReadMemory(s.mem, s.regs.ES, s.regs.DI, wide)
      a      == Read(s, Accumulator(wide))
      stored(n) == [s EXCEPT !.mem = WriteMemory(@, s.regs.ES, s.regs.DI, wide, n)]
      worked == CASE d.handler = "movs" -> stored(source)
                  [] d.handler = "stos" -> stored(a)
                  [] d.handler = "lods" -> Write(s, Accumulator(wide), source)
                  [] d.handler = "cmps" -> Alu(s, "cmp", source, there, wide).s
                  [] d.handler = "scas" -> Alu(s, "cmp", a, there, wide).s
      delta  == (IF wide THEN 2 ELSE 1) * IF DF \in s.flags THEN -1 ELSE 1
      moved(name, by) == IF d.handler \in by THEN (s.regs[name] + delta) % W
                                             ELSE s.regs[name]
  IN  [worked EXCEPT !.regs.SI = moved("SI", {"movs", "cmps", "lods"}),
                     !.regs.DI = moved("DI", {"movs", "cmps", "stos", "scas"}),
                     !.regs.CX = IF d.repeat = 0 THEN @ ELSE (@ - 1) % W]

String(d) ==
  LET count == IF d.repeat = 0 THEN 1 ELSE d.s.regs.CX
      ends(s) == d.repeat # 0 /\ d.handler \in {"cmps", "scas"}
                   /\ (ZF \in s.flags) = (d.repeat = \hF2)
      after[i \in 0 .. count] ==
        IF i = 0 THEN [s |-> d.s, over |-> FALSE]
        ELSE LET p == after[i - 1]
                 s == StringOnce(d, p.s)
             IN  IF p.over THEN p ELSE [s |-> s, over |-> ends(s)]
  IN  Ok(after[count].s)

----------------------------------------------------------------------------
\* Control.
Relative(s, wide) ==
  LET displacement == IF wide THEN CodeWord(s, 0) ELSE Displacement8(s, 0)
  IN  s.regs.IP + (IF wide THEN 2 ELSE 1) + displacement

JumpRelative(d, wide, taken) ==
  LET next == Consumed(d.s, IF wide THEN 2 ELSE 1)
  IN  Ok(IF taken THEN Jump(next, Relative(d.s, wide)) ELSE next)

LoopRel8(d) ==
  LET counted == IF d.opcode = \hE3 THEN d ELSE [d EXCEPT !.s.regs.CX = (@ - 1) % W]
      cx == counted.s.regs.CX
      zero == ZF \in d.s.flags
      taken == CASE d.opcode = \hE3 -> cx = 0
                 [] d.opcode = \hE2 -> cx # 0
                 [] d.opcode = \hE1 -> cx # 0 /\ zero
                 [] d.opcode = \hE0 -> cx # 0 /\ ~zero
  IN  JumpRelative(counted, FALSE, taken)

CallRel16(d) ==
  LET next == Consumed(d.s, 2)
  IN  Ok(Jump(Push(next, next.regs.IP), Relative(d.s, TRUE)))

Far(s, ip, cs) == [s EXCEPT !.regs.IP = ip, !.regs.CS = cs]
JmpFar(d)  == Ok(Far(d.s, CodeWord(d.s, 0), CodeWord(d.s, 2)))
CallFar(d) ==
  LET next == Consumed(d.s, 4)
  IN  Ok(Far(Push(Push(next, next.regs.CS), next.regs.IP), CodeWord(d.s, 0), CodeWord(d.s, 2)))

\* The even opcodes drop arguments from the stack.
Dropped(d) == IF d.wide THEN 0 ELSE CodeWord(d.s, 0)
RetNear(d) == Ok([Jump(Popped(d.s), Top(d.s)) EXCEPT !.regs.SP = (@ + Dropped(d)) % W])
FarPopped(s) == Popped(Far(Popped(s), Top(s), Top(Popped(s))))
RetFar(d) == Ok([FarPopped(d.s) EXCEPT !.regs.SP = (@ + Dropped(d)) % W])

Iret(d) ==
  LET s == FarPopped(d.s)
  IN  Ok([Popped(s) EXCEPT !.flags = FlagsFrom(Top(s))])

SoftwareInterrupt(d) ==
  CASE d.handler = "int3" -> Ok(Interrupt(d.s, 3))
    [] d.handler = "int_imm8" -> Ok(Interrupt(Consumed(d.s, 1), CodeAt(d.s, 0)))
    [] d.handler = "into" -> Ok(IF OF \in d.s.flags THEN Interrupt(d.s, 4) ELSE d.s)

Hlt(d) == Done([d.s EXCEPT !.halted = TRUE], "halted")

----------------------------------------------------------------------------
\* Ports: a word is two bytes, the lower port first.
Port(d) == IF d.handler \in {"in_imm", "out_imm"} THEN CodeAt(d.s, 0) ELSE d.s.regs.DX
PortNamed(d) == IF d.handler \in {"in_imm", "out_imm"} THEN Consumed(d.s, 1) ELSE d.s

In(d) ==
  LET s == PortNamed(d)
      second == (Port(d) + 1) % W
      first == PortRead(s, Port(d))
      both  == PortRead(first, second)
      n == PortValue(s, Port(d)) + IF d.wide THEN 256 * PortValue(first, second) ELSE 0
  IN  Ok(Write(IF d.wide THEN both ELSE first, Accumulator(d.wide), n))

Out(d) ==
  LET s == PortNamed(d)
      first == PortWritten(s, Port(d), Low(s.regs.AX))
  IN  Ok(IF d.wide THEN PortWritten(first, (Port(d) + 1) % W, High(s.regs.AX)) ELSE first)

----------------------------------------------------------------------------
(***************************************************************************)
(* step: the handler the configuration names for the opcode.  Where it     *)
(* names none that is written, the step raises, past the opcode.           *)
(***************************************************************************)
Handled(d) ==
  LET h == d.handler
      operation == Operations[((d.opcode \div 8) % 8) + 1]
  IN  CASE h = "xchg_accumulator" -> XchgAccumulator(d)
        [] h = "cwd" -> Cwd(d)
        [] h \in {"mov_r8_imm8", "mov_r16_imm16"} -> MovRegImm(d)
        [] h = "mov_modrm" -> MovModrm(d)
        [] h = "xchg_modrm" -> XchgModrm(d)
        [] h = "mov_segment" -> MovSegment(d)
        [] h = "mov_rm_imm" -> MovRmImm(d)
        [] h = "load_far_pointer" -> LoadFarPointer(d)
        [] h = "mov_moffs" -> MovMoffs(d)
        [] h = "push_reg16" -> PushReg(d)
        [] h = "pop_reg16" -> PopReg(d)
        [] h = "segment_stack" -> SegmentStack(d)
        [] h = "pushf" -> Pushf(d)
        [] h = "popf" -> Popf(d)
        [] h = "sahf" -> Sahf(d)
        [] h = "lahf" -> Lahf(d)
        [] h = "alu_modrm" -> AluModrm(d, operation)
        [] h = "test_modrm" -> AluModrm(d, "and")
        [] h = "alu_rm_imm" -> AluRmImm(d)
        [] h = "alu_acc_imm" -> AluAccImm(d, operation)
        [] h = "test_acc_imm" -> AluAccImm(d, "and")
        [] h = "inc_dec_reg16" -> IncDecReg(d)
        [] h = "group3" -> Group3(d)
        [] h = "group4" -> Group4(d)
        [] h = "group5" -> Group5(d)
        [] h = "shift" -> Shift(d)
        [] h = "daa" -> Daa(d)
        [] h = "aam" -> Aam(d)
        [] h = "aad" -> Aad(d)
        [] h = "complement_cf" -> ComplementCarry(d)
        [] h = "clear_set" -> ClearSet(d)
        [] h \in {"movs", "cmps", "stos", "lods", "scas"} -> String(d)
        [] h = "jmp_rel8" -> JumpRelative(d, FALSE, TRUE)
        [] h = "jmp_rel16" -> JumpRelative(d, TRUE, TRUE)
        [] h = "jcc_rel8" -> JumpRelative(d, FALSE, Condition(d.s.flags, d.opcode % 16))
        [] h = "loop_rel8" -> LoopRel8(d)
        [] h = "call_rel16" -> CallRel16(d)
        [] h = "call_far" -> CallFar(d)
        [] h = "jmp_far" -> JmpFar(d)
        [] h = "ret_near" -> RetNear(d)
        [] h = "ret_far" -> RetFar(d)
        [] h = "iret" -> Iret(d)
        [] h \in {"int3", "int_imm8", "into"} -> SoftwareInterrupt(d)
        [] h \in {"in_imm", "in_dx"} -> In(d)
        [] h \in {"out_imm", "out_dx"} -> Out(d)
        [] h = "hlt" -> Hlt(d)
        [] h = "wait" -> Ok(d.s)
        [] h = NoHandler -> Invalid(d.s)
        [] h \in {"lea_modrm", "pop_rm16", "cbw"} -> Done(d.s, "raised")

\* The registers and the flags, by name.
Recorded(s) ==
  [r \in RegisterNames \cup {"FLAGS"} |-> IF r = "FLAGS" THEN s.flags ELSE s.regs[r]]

\* trace: the code segment is the one the step ended with, the offset the
\* one it began with.
Traced(before, d, r) ==
  [cs |-> r.s.regs.CS, ip |-> before.regs.IP,
   physical |-> Physical(before.regs.CS, before.regs.IP),
   opcode |-> d.opcode, mnemonic |-> IF r.status = "invalid" THEN "INVALID" ELSE d.handler,
   status |-> r.status, io |-> r.s.io, return |-> r.s.return,
   after |-> Recorded(r.s)]

NoOpcode == 256
Told(before, mnemonic, s, status) ==
  Traced(before, [opcode |-> NoOpcode, handler |-> mnemonic], Done(s, status))

CanStep == \A i \in DOMAIN trace : trace[i].status # "raised"
Began == [cpu EXCEPT !.io = <<>>, !.return = {}]
\* An interrupt that stands back does so for this one instruction.
Unshadowed(s) == [s EXCEPT !.shadow = IF @ > 0 THEN @ - 1 ELSE 0]
Interruptible ==
  /\ pending_irq # {}
  /\ cpu.shadow = 0
  /\ IntF \in cpu.flags

NonMaskable ==
  /\ CanStep /\ pending_nmi
  /\ pending_nmi' = FALSE
  /\ cpu' = Interrupt([Began EXCEPT !.halted = FALSE], 2)
  /\ trace' = <<Told(cpu, "NMI", cpu', "ok")>>
  /\ UNCHANGED pending_irq

Maskable ==
  /\ CanStep /\ ~pending_nmi /\ Interruptible
  /\ \E vector \in pending_irq :
       cpu' = Interrupt([Began EXCEPT !.halted = FALSE], vector)
  /\ pending_irq' = {}
  /\ trace' = <<Told(cpu, "IRQ", cpu', "ok")>>
  /\ UNCHANGED pending_nmi

Idle ==
  /\ CanStep /\ ~pending_nmi /\ ~Interruptible
  /\ cpu.halted
  /\ cpu' = Unshadowed(Began)
  /\ trace' = <<Told(cpu, "HLT", cpu', "halted")>>
  /\ UNCHANGED <<pending_irq, pending_nmi>>

Completed(d, r) == cpu' = r.s /\ trace' = <<Traced(cpu, d, r)>>

Execute ==
  /\ CanStep /\ ~pending_nmi /\ ~Interruptible
  /\ ~cpu.halted
  /\ PrefixesEnd(Unshadowed(Began))
  /\ LET d == Fetched(Unshadowed(Began)) IN Completed(d, Handled(d))
  /\ UNCHANGED <<pending_irq, pending_nmi>>

Step == NonMaskable \/ Maskable \/ Idle \/ Execute

(***************************************************************************)
(* run_vector: a program at CS:IP, then the blocks of memory, each at its  *)
(* segment and offset.                                                     *)
(***************************************************************************)
Bytes(physical, bytes) ==
  [at \in {(physical + i - 1) % Megabyte : i \in 1 .. Len(bytes)} |->
     bytes[CHOOSE i \in 1 .. Len(bytes) : (physical + i - 1) % Megabyte = at]]

Loaded(vector) ==
  LET regs == [r \in RegisterNames |-> Get(vector.regs, r, 0)]
      program == Bytes(Physical(regs.CS, regs.IP), vector.program)
  IN  Machine(regs, vector.flags,
              [a \in DOMAIN program \cup DOMAIN vector.memory |->
                 Get(vector.memory, a, Get(program, a, 0))],
              vector.ports)

Begin(vector) ==
  /\ cpu = Loaded(vector)
  /\ pending_irq = vector.irq
  /\ pending_nmi = vector.nmi
  /\ trace = <<>>
=============================================================================
