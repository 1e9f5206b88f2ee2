-------------------------------- MODULE Alu --------------------------------
(***************************************************************************)
(* What step.s computes a byte at a time: sums and differences, logic, the *)
(* flags, shifts and rotates, decimal adjustment and the branch            *)
(* conditions.  An operand is a pair of bytes; a byte operation works on   *)
(* lo and leaves 0 in hi.  The widths are those of the program.            *)
(***************************************************************************)
EXTENDS Integers, FiniteSets, Iteration

Byte  == 0 .. 255
Value == [lo : Byte, hi : Byte]
Flags == [CF : BOOLEAN, PF : BOOLEAN, AF : BOOLEAN, ZF : BOOLEAN,
          SF : BOOLEAN, OF : BOOLEAN]

\* alu_operation: the three bits of the opcode.
ADD == 0
OR  == 1
ADC == 2
SBB == 3
AND == 4
SUB == 5
XOR == 6
CMP == 7
Logical == {OR, AND, XOR}

Bit(x, i) == (x \div 2 ^ i) % 2 = 1
Num(b)    == IF b THEN 1 ELSE 0
Bits(x)   == {i \in 0 .. 7 : Bit(x, i)}
FromBits(s) ==
  Num(0 \in s) + 2 * Num(1 \in s) + 4 * Num(2 \in s) + 8 * Num(3 \in s)
    + 16 * Num(4 \in s) + 32 * Num(5 \in s) + 64 * Num(6 \in s) + 128 * Num(7 \in s)

Word(v)   == 256 * v.hi + v.lo
Pair(n)   == [lo |-> n % 256, hi |-> (n \div 256) % 256]
Low(v)    == [lo |-> v.lo, hi |-> 0]

\* The byte with the sign (@alu_byte_sign), and the sign.
SignByte(v, wide) == IF wide THEN v.hi ELSE v.lo
BitSeven(b)       == b >= 128
Minus(v, wide)    == BitSeven(SignByte(v, wide))

----------------------------------------------------------------------------
(***************************************************************************)
(* @alu_execute.  The 6502 adds with its carry; it subtracts by adding the *)
(* complement, and its carry then means that nothing was borrowed.         *)
(***************************************************************************)
Adc(a, b, c) == [byte |-> (a + b + Num(c)) % 256, carry |-> a + b + Num(c) > 255]
Sbc(a, b, c) == Adc(a, 255 - b, c)

AluAdd(l, r, wide, c) ==
  LET low  == Adc(l.lo, r.lo, c)
      high == Adc(l.hi, r.hi, low.carry)
  IN  IF wide THEN [value |-> [lo |-> low.byte, hi |-> high.byte], carry |-> high.carry]
              ELSE [value |-> [lo |-> low.byte, hi |-> 0], carry |-> low.carry]

AluSubtract(l, r, wide, c) ==
  LET low  == Sbc(l.lo, r.lo, c)
      high == Sbc(l.hi, r.hi, low.carry)
  IN  IF wide THEN [value |-> [lo |-> low.byte, hi |-> high.byte], carry |-> ~high.carry]
              ELSE [value |-> [lo |-> low.byte, hi |-> 0], carry |-> ~low.carry]

LogicByte(op, a, b) ==
  FromBits(CASE op = OR  -> Bits(a) \cup Bits(b)
             [] op = AND -> Bits(a) \cap Bits(b)
             [] OTHER    -> (Bits(a) \cup Bits(b)) \ (Bits(a) \cap Bits(b)))

AluLogic(op, l, r, wide) ==
  [value |-> [lo |-> LogicByte(op, l.lo, r.lo),
              hi |-> IF wide THEN LogicByte(op, l.hi, r.hi) ELSE 0],
   carry |-> FALSE]

\* (Variant: SBB hands CF to the subtraction as it is.)
AluExecuteBorrowAsCarry(op, l, r, wide, cf) ==
  IF op \in Logical
    THEN AluLogic(op, l, r, wide)
    ELSE IF op \in {ADD, ADC} THEN AluAdd(l, r, wide, op = ADC /\ cf)
                              ELSE AluSubtract(l, r, wide, op = SBB => cf)
AluExecute(op, l, r, wide, cf) ==
  IF op \in Logical
    THEN AluLogic(op, l, r, wide)
    ELSE IF op \in {ADD, ADC} THEN AluAdd(l, r, wide, op = ADC /\ cf)
                              ELSE AluSubtract(l, r, wide, op = SBB => ~cf)

----------------------------------------------------------------------------
(***************************************************************************)
(* @alu_flags, up to @alu_flags_done.  The overflow is read off the signs  *)
(* of the operands and the result; the auxiliary carry is the carry into   *)
(* bit 4, where the three bits differ from a sum without one.              *)
(***************************************************************************)
EvenParity(b) == Cardinality(Bits(b)) % 2 = 0

Bit4(x) == (x \div 16) % 2
AuxCarry(a, b, sum) == (Bit4(a) + Bit4(b) + Bit4(sum)) % 2 = 1

\* (Variant: the operands' signs are compared as for a sum, whatever the operation.)
OverflowAsSum(op, l, r, v, wide) ==
  Minus(l, wide) = Minus(r, wide) /\ Minus(v, wide) # Minus(l, wide)

Overflow(op, l, r, v, wide) ==
  /\ Minus(v, wide) # Minus(l, wide)
  /\ (op \in {ADD, ADC}) = (Minus(l, wide) = Minus(r, wide))

AluFlags(op, l, r, v, wide, carry) ==
  [CF |-> carry,
   ZF |-> v.lo = 0 /\ v.hi = 0,
   SF |-> Minus(v, wide),
   PF |-> EvenParity(v.lo),
   AF |-> op \notin Logical /\ AuxCarry(l.lo, r.lo, v.lo),
   OF |-> op \notin Logical /\ Overflow(op, l, r, v, wide)]

\* @update_byte_result_flags, after AAM and AAD.
ByteResultFlags(f, b) ==
  [f EXCEPT !.ZF = b = 0, !.SF = BitSeven(b), !.PF = EvenParity(b)]

----------------------------------------------------------------------------
(***************************************************************************)
(* A shift or rotate by one: ext is the opcode extension, v the value, c   *)
(* the carry of the round before.                                          *)
(***************************************************************************)
ROL == 0
ROR == 1
RCL == 2
RCR == 3
SHR == 5
SAR == 7

\* @shift_execute, @rotate_plain, @rotate_through_carry: asl, rol.
ShiftLeft(ext, v, wide, c) ==
  LET out == Minus(v, wide)
      in  == (ext = ROL /\ out) \/ (ext = RCL /\ c)
      res == [lo |-> ((2 * v.lo) % 256) + Num(in),
              hi |-> IF wide THEN ((2 * v.hi) % 256) + (v.lo \div 128) ELSE 0]
  IN  [value |-> res, carry |-> out, overflow |-> Minus(res, wide) # out]

\* @shift_right, @rotate_right_plain, @rotate_right_carry: lsr, ror.
ShiftRight(ext, v, wide, c) ==
  LET out == v.lo % 2 = 1
      top == SignByte(v, wide)
      in  == (ext = ROR /\ out) \/ (ext = RCR /\ c) \/ (ext = SAR /\ BitSeven(top))
      new == (top \div 2) + 128 * Num(in)
      res == IF wide THEN [lo |-> (v.lo \div 2) + 128 * (v.hi % 2), hi |-> new]
                     ELSE [lo |-> new, hi |-> 0]
  IN  [value |-> res, carry |-> out,
       overflow |-> IF ext = SHR THEN BitSeven(top)
                                 ELSE ext # SAR /\ new \div 64 \in {1, 2}]

ShiftBy1(ext, v, wide, c) ==
  IF ext \in {ROR, RCR, SHR, SAR} THEN ShiftRight(ext, v, wide, c)
                                  ELSE ShiftLeft(ext, v, wide, c)

(***************************************************************************)
(* The loop at @shift_finish, for a count of at least one; the rounds once *)
(* it is down to zero change nothing.  @shift_record_overflow keeps the    *)
(* overflow of a shift by one only.                                        *)
(***************************************************************************)
ShiftState == [value : Value, carry : BOOLEAN, overflow : BOOLEAN, count : Byte]

\* (Variant: RCL and RCR take in the carry of the first round in every round.)
ShiftRoundCarryOnce(ext, wide, cf) ==
  [s \in ShiftState |->
     IF s.count = 0
       THEN s
       ELSE LET x == ShiftBy1(ext, s.value, wide, cf)
            IN  [value |-> x.value, carry |-> x.carry, overflow |-> x.overflow,
                 count |-> s.count - 1]]
ShiftRound(ext, wide, cf) ==
  [s \in ShiftState |->
     IF s.count = 0
       THEN s
       ELSE LET x == ShiftBy1(ext, s.value, wide, s.carry)
            IN  [value |-> x.value, carry |-> x.carry, overflow |-> x.overflow,
                 count |-> s.count - 1]]

Shift(ext, v, wide, count, cf) ==
  LET last == Sixteen(Sixteen(ShiftRound(ext, wide, cf)))
                [[value |-> v, carry |-> cf, overflow |-> FALSE, count |-> count]]
  IN  [last EXCEPT !.overflow = count = 1 /\ @]

----------------------------------------------------------------------------
(***************************************************************************)
(* Decimal adjustment of AL (@daa, @das).                                  *)
(***************************************************************************)
\* (Variant: the carry out of the low digit is not looked at.)
LowAdjustedByDigit(al, f) == al % 16 >= 10

LowAdjusted(al, f) == f.AF \/ al % 16 >= 10
HighAdjusted(al, f) == f.CF \/ al >= 154

Adjustment(al, f) == (IF LowAdjusted(al, f) THEN 6 ELSE 0)
                       + (IF HighAdjusted(al, f) THEN 96 ELSE 0)

DecimalAdd(al, f) == (al + Adjustment(al, f)) % 256
DecimalSubtract(al, f) == (al - Adjustment(al, f)) % 256

----------------------------------------------------------------------------
(***************************************************************************)
(* @condition_true: the sixteen conditions, the odd ones the negations.    *)
(* For JLE and JG the low byte of the flags is merged with the comparison  *)
(* of signs and masked with 41h, which lets the carry flag through.        *)
(***************************************************************************)
Conditions(f) ==
  <<f.OF, f.CF, f.ZF, f.CF \/ f.ZF, f.SF, f.PF, f.SF # f.OF,
    f.SF # f.OF \/ f.ZF \/ f.CF>>
ConditionTrue(cc, f) == Conditions(f)[(cc \div 2) + 1] # (cc % 2 = 1)
=============================================================================
