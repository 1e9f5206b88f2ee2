----------------------------- MODULE Arithmetic -----------------------------
(***************************************************************************)
(* The arithmetic instructions of cpu8088_step on the accumulator and one  *)
(* operand: each action is an opcode group of step.s from its label to the *)
(* end of the step.  A short program is run, because an instruction leaves *)
(* more than registers behind: alu_preserve_cf, which INC and DEC set, and *)
(* alu_operation, which each group sets but the rotates, are read by the   *)
(* next instruction that does not set them itself.                         *)
(*                                                                         *)
(* Which register or memory the operands come from is left out, and so are *)
(* string compares.  A division error goes through cpu8088_interrupt,      *)
(* which is InterruptPath's; here it ends the program.                     *)
(***************************************************************************)
EXTENDS MulDiv, Sequences

CONSTANT Programs  \* what is run, and on which operands and carry

Kinds == {"alu", "test", "inc", "dec", "group3_test", "group3_not", "shift",
          "daa", "das", "aam", "aad", "mul", "imul", "div", "idiv",
          "cbw", "cwd", "clc", "stc", "cmc"}

\* op: the ALU operation or the shift's extension; count: that of a shift.
Instructions == [kind : Kinds, op : 0 .. 7, wide : BOOLEAN, count : Byte]

ASSUME ArithmeticAssumption ==
  Programs \subseteq [code : Seq(Instructions), ax : Word16, dx : Word16,
                      operand : Word16, cf : BOOLEAN]

VARIABLES
  began,            \* the program as it began
  code,             \* what is left of it
  last_opcode,      \* the instruction executed last, in a sequence
  ax,
  dx,
  operand,          \* the immediate, register or memory operand
  flags,
  alu_operation,
  alu_preserve_cf,
  alu_saved_cf,
  status            \* what the step returned

scratchVars == <<alu_operation, alu_preserve_cf, alu_saved_cf>>
vars == <<began, code, last_opcode, ax, dx, operand, flags, scratchVars, status>>

Init ==
  /\ began \in Programs
  /\ code = began.code
  /\ last_opcode = <<>>
  /\ ax = Pair(began.ax)
  /\ dx = Pair(began.dx)
  /\ operand = Pair(began.operand)
  /\ flags = [CF |-> began.cf, PF |-> FALSE, AF |-> FALSE,
              ZF |-> FALSE, SF |-> FALSE, OF |-> FALSE]
  /\ alu_operation = ADD
  /\ alu_preserve_cf = FALSE
  /\ alu_saved_cf = FALSE
  /\ status = "ok"

----------------------------------------------------------------------------
\* @fetch and the dispatch; i is the instruction.
Fetched(kind) ==
  /\ status = "ok"
  /\ code # <<>>
  /\ Head(code).kind = kind
  /\ code' = Tail(code)
  /\ last_opcode' = <<Head(code)>>
  /\ UNCHANGED <<began, operand>>
i == Head(code)

Ok == status' = "ok"
\* What the ALU groups leave: the operation, and no CF to preserve.
Left(op) ==
  alu_operation' = op /\ alu_preserve_cf' = FALSE /\ UNCHANGED alu_saved_cf

\* @read_register_to_left and its like: a byte operand has no high byte.
Operand(v) == IF i.wide THEN v ELSE Low(v)
\* @alu_store_result
Stored(v)  == IF i.wide THEN v ELSE [ax EXCEPT !.lo = v.lo]
\* @alu_preserve_carry
Preserving(f) == IF alu_preserve_cf THEN [f EXCEPT !.CF = alu_saved_cf] ELSE f

\* @alu_accumulator_immediate, @alu_rm_immediate, @alu_modrm.
Alu ==
  /\ Fetched("alu")
  /\ LET l == Operand(ax)
         r == Operand(operand)
         x == AluExecute(i.op, l, r, i.wide, flags.CF)
     IN  /\ flags' = AluFlags(i.op, l, r, x.value, i.wide, x.carry)
         /\ ax' = IF i.op = CMP THEN ax ELSE Stored(x.value)
  /\ Left(i.op)
  /\ Ok
  /\ UNCHANGED dx

\* The flags of an AND that is not stored.
Tested ==
  LET x == AluLogic(AND, Operand(ax), Operand(operand), i.wide)
  IN  AluFlags(AND, Operand(ax), Operand(operand), x.value, i.wide, FALSE)

\* @test_accumulator and @test_modrm go through @alu_accumulator_immediate
\* and @alu_modrm.
Test ==
  /\ Fetched("test")
  /\ flags' = Tested
  /\ Left(AND)
  /\ Ok
  /\ UNCHANGED <<ax, dx>>

\* @group3_test does not touch alu_preserve_cf.
Group3Test ==
  /\ Fetched("group3_test")
  /\ flags' = Preserving(Tested)
  /\ alu_operation' = AND
  /\ Ok
  /\ UNCHANGED <<ax, dx, alu_preserve_cf, alu_saved_cf>>

\* @group3_not
Group3Not ==
  /\ Fetched("group3_not")
  /\ ax' = Stored([lo |-> 255 - ax.lo, hi |-> 255 - ax.hi])
  /\ Ok
  /\ UNCHANGED <<dx, flags, scratchVars>>

\* @inc_dec_reg16, @group4_inc_dec, @group5_inc_dec.
IncDec(kind, op) ==
  /\ Fetched(kind)
  /\ LET one == [lo |-> 1, hi |-> 0]
         x   == AluExecute(op, Operand(ax), one, i.wide, flags.CF)
     IN  /\ flags' = [AluFlags(op, Operand(ax), one, x.value, i.wide, x.carry)
                        EXCEPT !.CF = flags.CF]
         /\ ax' = Stored(x.value)
  /\ alu_operation' = op
  /\ alu_preserve_cf' = TRUE
  /\ alu_saved_cf' = flags.CF
  /\ Ok
  /\ UNCHANGED dx

\* @shift_one: a count of 0 is @shift_noop.  The shifts end at @alu_flags with
\* the operation AND; the rotates at @rotate_flags, and @alu_store_result then
\* stores nothing if the operation it finds is a CMP.
ShiftOne ==
  /\ Fetched("shift")
  /\ IF i.count = 0
       THEN UNCHANGED <<ax, flags, scratchVars>>
       ELSE LET x == Shift(i.op, Operand(ax), i.wide, i.count, flags.CF)
            IN  IF i.op < 4
                  THEN /\ ax' = IF alu_operation = CMP THEN ax ELSE Stored(x.value)
                       /\ flags' = [flags EXCEPT !.CF = x.carry, !.OF = x.overflow]
                       /\ UNCHANGED scratchVars
                  ELSE /\ ax' = Stored(x.value)
                       /\ flags' = [AluFlags(AND, ax, ax, x.value, i.wide, x.carry)
                                      EXCEPT !.OF = x.overflow]
                       /\ Left(AND)
  /\ Ok
  /\ UNCHANGED dx

\* @daa, @das: alu_saved_cf holds CF on the way.
Decimal(kind, al) ==
  /\ Fetched(kind)
  /\ ax' = [ax EXCEPT !.lo = al]
  /\ flags' = [AluFlags(AND, ax, ax, [lo |-> al, hi |-> 0], FALSE,
                        IF alu_preserve_cf THEN flags.CF
                                           ELSE HighAdjusted(ax.lo, flags))
                 EXCEPT !.AF = LowAdjusted(ax.lo, flags)]
  /\ alu_operation' = AND
  /\ alu_saved_cf' = flags.CF
  /\ Ok
  /\ UNCHANGED <<dx, alu_preserve_cf>>

\* @aam: AL is taken down by the immediate until it is less.
Aam ==
  /\ Fetched("aam")
  /\ IF operand.lo = 0
       THEN status' = "invalid" /\ UNCHANGED <<ax, flags>>
       ELSE /\ ax' = [lo |-> ax.lo % operand.lo, hi |-> ax.lo \div operand.lo]
            /\ flags' = ByteResultFlags(flags, ax'.lo)
            /\ Ok
  /\ UNCHANGED <<dx, scratchVars>>

\* @aad
Aad ==
  /\ Fetched("aad")
  /\ ax' = [lo |-> (ax.hi * operand.lo + ax.lo) % 256, hi |-> 0]
  /\ flags' = ByteResultFlags(flags, ax'.lo)
  /\ Ok
  /\ UNCHANGED <<dx, scratchVars>>

\* @group3_multiply: carry and overflow are set together, by way of
\* shift_overflow, before alu_preserve_cf is looked at.
Multiplied(x) ==
  /\ ax' = Pair(x.ax)
  /\ flags' = Preserving([AluFlags(AND, ax, ax, Pair(x.ax), i.wide, x.carry)
                            EXCEPT !.OF = x.carry])
  /\ alu_operation' = AND
  /\ Ok
  /\ UNCHANGED <<alu_preserve_cf, alu_saved_cf>>

\* bytes and words are the products at each width.
Multiply(kind, bytes, words) ==
  /\ Fetched(kind)
  /\ IF i.wide THEN Multiplied(words) /\ dx' = Pair(words.dx)
               ELSE Multiplied(bytes) /\ UNCHANGED dx

\* @group3_divide, from @group3_execute to @group3_result.
Divided(x) ==
  IF x.error
    THEN status' = "interrupt" /\ UNCHANGED <<ax, dx>>
    ELSE /\ IF i.wide THEN ax' = Pair(x.q) /\ dx' = Pair(x.r)
                      ELSE ax' = [lo |-> x.q, hi |-> x.r] /\ UNCHANGED dx
         /\ Ok

Divide(kind, bytes, words) ==
  /\ Fetched(kind)
  /\ Divided(IF i.wide THEN words ELSE bytes)
  /\ UNCHANGED <<flags, scratchVars>>

\* @cbw, @cwd
Sign(b) == IF b >= 128 THEN 255 ELSE 0
Cbw ==
  /\ Fetched("cbw")
  /\ ax' = [ax EXCEPT !.hi = Sign(ax.lo)]
  /\ Ok
  /\ UNCHANGED <<dx, flags, scratchVars>>
Cwd ==
  /\ Fetched("cwd")
  /\ dx' = [lo |-> Sign(ax.hi), hi |-> Sign(ax.hi)]
  /\ Ok
  /\ UNCHANGED <<ax, flags, scratchVars>>

\* @clc, @stc, @cmc
SetCarry(kind, c) ==
  /\ Fetched(kind)
  /\ flags' = [flags EXCEPT !.CF = c]
  /\ Ok
  /\ UNCHANGED <<ax, dx, scratchVars>>

Next ==
  \/ Alu \/ Test \/ Group3Test \/ Group3Not
  \/ IncDec("inc", ADD) \/ IncDec("dec", SUB)
  \/ ShiftOne
  \/ Decimal("daa", DecimalAdd(ax.lo, flags))
  \/ Decimal("das", DecimalSubtract(ax.lo, flags))
  \/ Aam \/ Aad
  \/ Multiply("mul", MulU8(ax.lo, operand.lo), MulU16(Word(ax), Word(operand)))
  \/ Multiply("imul", MulS8(ax.lo, operand.lo), MulS16(Word(ax), Word(operand)))
  \/ Divide("div", DivU8(Word(ax), operand.lo),
                   DivU16(Word(dx), Word(ax), Word(operand)))
  \/ Divide("idiv", DivS8(Word(ax), operand.lo),
                    DivS16(Word(dx), Word(ax), Word(operand)))
  \/ Cbw \/ Cwd
  \/ SetCarry("clc", FALSE) \/ SetCarry("stc", TRUE) \/ SetCarry("cmc", ~flags.CF)

Spec == Init /\ [][Next]_vars

----------------------------------------------------------------------------
TypeOK ==
  /\ began \in Programs
  /\ code \in Seq(Instructions)
  /\ last_opcode = <<>> \/ last_opcode[1] \in Instructions
  /\ ax \in Value
  /\ dx \in Value
  /\ operand \in Value
  /\ flags \in Flags
  /\ alu_operation \in 0 .. 7
  /\ alu_preserve_cf \in BOOLEAN
  /\ alu_saved_cf \in BOOLEAN
  /\ status \in {"ok", "interrupt", "invalid"}

(***************************************************************************)
(* The numbers the operands stand for, at the width of the instruction.    *)
(***************************************************************************)
Size            == IF i.wide THEN W ELSE 256
Unsigned(v)     == IF i.wide THEN Word(v) ELSE v.lo
SignedOf(n, m)  == IF n >= m \div 2 THEN n - m ELSE n
Signed(v)       == SignedOf(Unsigned(v), Size)
Representable(n, m) == -(m \div 2) <= n /\ n < m \div 2

(***************************************************************************)
(* Sums and differences, with the carry taken in and the flags: carry and  *)
(* overflow say that the unsigned and the signed result do not fit, the    *)
(* auxiliary carry that the low digits' does not.  INC and DEC leave the   *)
(* carry (@alu_execute, @alu_flags, @alu_preserve_carry).                  *)
(***************************************************************************)
SumRight(r, sign, c, carries) ==
  LET n == Unsigned(ax) + sign * (Unsigned(r) + c)
      s == Signed(ax) + sign * (Signed(r) + c)
      d == (ax.lo % 16) + sign * ((r.lo % 16) + c)
  IN  /\ i.op # CMP => Unsigned(ax') = n % Size
      /\ flags'.CF <=> IF carries THEN n \notin 0 .. Size - 1 ELSE flags.CF
      /\ flags'.OF <=> ~Representable(s, Size)
      /\ flags'.AF <=> d \notin 0 .. 15
      /\ flags'.ZF <=> n % Size = 0
      /\ flags'.SF <=> n % Size >= Size \div 2

SumsRight ==
  [][/\ i.kind = "alu" /\ i.op \in {ADD, ADC} =>
          SumRight(operand, 1, Num(i.op = ADC /\ flags.CF), TRUE)
     /\ i.kind = "alu" /\ i.op \in {SUB, SBB, CMP} =>
          SumRight(operand, -1, Num(i.op = SBB /\ flags.CF), TRUE)
     /\ i.kind = "inc" => SumRight([lo |-> 1, hi |-> 0], 1, 0, FALSE)
     /\ i.kind = "dec" => SumRight([lo |-> 1, hi |-> 0], -1, 0, FALSE)]_vars

(***************************************************************************)
(* After a CMP a conditional jump is taken exactly when the operands       *)
(* compare as its name says (@condition_true).  JLE and JG are left out:   *)
(* they take a borrow for less (step.s:3428).                              *)
(***************************************************************************)
Compared == last_opcode # <<>> /\ last_opcode[1].kind = "alu" /\ last_opcode[1].op = CMP

Sides ==
  LET wide == last_opcode[1].wide
      size == IF wide THEN W ELSE 256
      l    == IF wide THEN Word(ax) ELSE ax.lo
      r    == IF wide THEN Word(operand) ELSE operand.lo
  IN  [l |-> l, r |-> r, sl |-> SignedOf(l, size), sr |-> SignedOf(r, size)]

BranchesRight ==
  Compared =>
    LET s == Sides
    IN  /\ ConditionTrue(2, flags)  <=> s.l < s.r
        /\ ConditionTrue(3, flags)  <=> s.l >= s.r
        /\ ConditionTrue(4, flags)  <=> s.l = s.r
        /\ ConditionTrue(5, flags)  <=> s.l # s.r
        /\ ConditionTrue(6, flags)  <=> s.l <= s.r
        /\ ConditionTrue(7, flags)  <=> s.l > s.r
        /\ ConditionTrue(12, flags) <=> s.sl < s.sr
        /\ ConditionTrue(13, flags) <=> s.sl >= s.sr

(***************************************************************************)
(* Shifts and rotates place every bit, and the carry is the bit that left  *)
(* last; RCL and RCR turn the carry with the value.  The overflow of a     *)
(* shift by one says that the sign changed (@shift_one).  A rotate that    *)
(* comes upon the operation of a CMP loses its result (step.s:1821).       *)
(***************************************************************************)
ValueBit(v, k) == Bit(IF k < 8 THEN v.lo ELSE v.hi, k % 8)

Shifted ==
  LET w == IF i.wide THEN 16 ELSE 8
      n == i.count
      Old(k) == ValueBit(ax, k)
      Ring(k) == IF k % (w + 1) = w THEN flags.CF ELSE Old(k % (w + 1))
      New(k) == CASE i.op = 0        -> Old((k - n) % w)
                  [] i.op = 1        -> Old((k + n) % w)
                  [] i.op = 2        -> Ring(k - n)
                  [] i.op = 3        -> Ring(k + n)
                  [] i.op \in {4, 6} -> k >= n /\ Old(k - n)
                  [] i.op = 5        -> k + n < w /\ Old(k + n)
                  [] i.op = 7        -> Old(IF k + n < w THEN k + n ELSE w - 1)
      Out    == CASE i.op = 0        -> New(0)
                  [] i.op = 1        -> New(w - 1)
                  [] i.op = 2        -> Ring(w - n)
                  [] i.op = 3        -> Ring(w + n)
                  [] i.op \in {4, 6} -> n <= w /\ Old(w - n)
                  [] i.op = 5        -> n <= w /\ Old(n - 1)
                  [] i.op = 7        -> Old(IF n <= w THEN n - 1 ELSE w - 1)
  IN  /\ \A k \in 0 .. w - 1 : ValueBit(ax', k) = New(k)
      /\ flags'.CF = Out
      /\ n = 1 => flags'.OF = (New(w - 1) # Old(w - 1))
      /\ ~i.wide => ax'.hi = ax.hi

ShiftsRight ==
  [][i.kind = "shift" /\ i.count > 0 =>
       IF i.op < 4 /\ alu_operation = CMP THEN ax' = ax ELSE Shifted]_vars

(***************************************************************************)
(* DAA after an addition of two packed decimals, and DAS after a           *)
(* subtraction, leave the decimal result and its carry (@daa, @das).       *)
(***************************************************************************)
IsDecimal(b)  == b % 16 < 10 /\ b \div 16 < 10
Decimally(b)  == 10 * (b \div 16) + (b % 16)
AfterByte(ops) == /\ last_opcode # <<>>
                  /\ last_opcode[1].kind = "alu"
                  /\ ~last_opcode[1].wide
                  /\ last_opcode[1].op \in ops
                  /\ Len(began.code) = 2
                  /\ IsDecimal(began.ax % 256)
                  /\ IsDecimal(operand.lo)
Told(n) == /\ IsDecimal(ax'.lo)
           /\ Decimally(ax'.lo) = n % 100
           /\ flags'.CF = (n \notin 0 .. 99)
DecimalRight ==
  [][LET start == Decimally(began.ax % 256)
         other == Decimally(operand.lo)
     IN  /\ i.kind = "daa" /\ AfterByte({ADC}) => Told(start + other + Num(began.cf))
         /\ i.kind = "das" /\ AfterByte({SBB}) => Told(start - other - Num(began.cf))]_vars

(***************************************************************************)
(* A product of words, from the products of their bytes.                   *)
(***************************************************************************)
LongProduct(x, y) ==
  LET low    == (x % 256) * (y % 256)
      middle == (x % 256) * (y \div 256) + (x \div 256) * (y % 256)
      sum    == low + 256 * (middle % 256)
  IN  [lo |-> sum % W,
       hi |-> (x \div 256) * (y \div 256) + (middle \div 256) + (sum \div W)]
LongMagnitude(p) == IF Negative(p.hi) THEN LongNegated(p) ELSE p
LongLess(p, q) == p.hi < q.hi \/ (p.hi = q.hi /\ p.lo < q.lo)
DoubleWord(lo, hi) == [lo |-> Word(lo), hi |-> Word(hi)]

(***************************************************************************)
(* Products are exact, and the overflow says that the upper half is more   *)
(* than an extension of the lower (multiply.s, @group3_multiply).          *)
(***************************************************************************)
ProductsRight ==
  [][/\ i.kind = "mul" /\ ~i.wide =>
          /\ Word(ax') = ax.lo * operand.lo
          /\ flags'.OF = (Word(ax') > 255)
     /\ i.kind = "imul" /\ ~i.wide =>
          LET n == Signed(ax) * Signed(operand)
          IN  /\ SignedOf(Word(ax'), W) = n
              /\ flags'.OF = ~Representable(n, 256)
     /\ i.kind = "mul" /\ i.wide =>
          /\ DoubleWord(ax', dx') = LongProduct(Word(ax), Word(operand))
          /\ flags'.OF = (Word(dx') # 0)
     /\ i.kind = "imul" /\ i.wide =>
          LET m == LongProduct(Magnitude(Word(ax)), Magnitude(Word(operand)))
              opposed == Negative(Word(ax)) # Negative(Word(operand))
          IN  /\ DoubleWord(ax', dx') = IF opposed THEN LongNegated(m) ELSE m
              /\ flags'.OF = (m.hi # 0 \/ m.lo > (IF opposed THEN W \div 2
                                                              ELSE (W \div 2) - 1))
     /\ i.kind \in {"mul", "imul"} /\ ~alu_preserve_cf => flags'.CF = flags'.OF]_vars

(***************************************************************************)
(* A division that gives a result gives the quotient and the remainder of  *)
(* the dividend, the remainder less than the divisor and of the dividend's *)
(* sign; one that fails leaves the registers, and fails only when there is *)
(* no such quotient (divide.s).  A byte is divided wrongly when a partial  *)
(* remainder, doubled, carries (divide.s:38): it takes a divisor over 128, *)
(* and then DIV of bytes still fails exactly when it should.               *)
(***************************************************************************)
ByteDivision(n, d, limit) ==   \* of magnitudes
  /\ status' = "interrupt" <=> d = 0 \/ n \div d > limit
  /\ status' = "interrupt" => UNCHANGED <<ax, dx>>

\* The remainders of the long division, bit by bit, before each is doubled.
NeverCarries(n, d) == \A h \in {256, 128, 64, 32, 16, 8, 4, 2} : (n \div h) % d < 128

UnsignedByte ==
  LET n == Word(ax)
      d == operand.lo
  IN  /\ ByteDivision(n, d, 255)
      /\ status' = "ok" /\ NeverCarries(n, d) => n = ax'.lo * d + ax'.hi /\ ax'.hi < d
SignedByte ==
  LET n == SignedOf(Word(ax), W)
      d == Signed(operand)
      q == SignedOf(ax'.lo, 256)
      r == SignedOf(ax'.hi, 256)
  IN  /\ ByteDivision(Magnitude(Word(ax)), ByteMagnitude(operand.lo),
                      IF (n < 0) # (d < 0) THEN 128 ELSE 127)
      /\ status' = "ok" => /\ n = q * d + r
                           /\ r # 0 => (r < 0) = (n < 0)
                           /\ r < ByteMagnitude(operand.lo)
                           /\ -r < ByteMagnitude(operand.lo)

WordDivision(n, d, limit, q, r) ==   \* of magnitudes
  LET fits == LongLess(n, LongAdd(LongProduct(d, limit), [lo |-> d, hi |-> 0]))
  IN  /\ status' = "ok" <=> d # 0 /\ fits
      /\ status' = "ok" => /\ n = LongAdd(LongProduct(q, d), [lo |-> r, hi |-> 0])
                           /\ r < d
      /\ status' = "interrupt" => UNCHANGED <<ax, dx>>
UnsignedWord ==
  WordDivision(DoubleWord(ax, dx), Word(operand), W - 1, Word(ax'), Word(dx'))
SignedWord ==
  LET n == DoubleWord(ax, dx)
      opposed == Negative(Word(dx)) # Negative(Word(operand))
  IN  /\ WordDivision(LongMagnitude(n), Magnitude(Word(operand)),
                      IF opposed THEN W \div 2 ELSE (W \div 2) - 1,
                      Magnitude(Word(ax')), Magnitude(Word(dx')))
      /\ status' = "ok" =>
           /\ Word(ax') # 0 => Negative(Word(ax')) = opposed
           /\ Word(dx') # 0 => Negative(Word(dx')) = Negative(Word(dx))

QuotientsRight ==
  [][/\ i.kind = "div" /\ ~i.wide => UnsignedByte
     /\ i.kind = "idiv" /\ ~i.wide => SignedByte
     /\ i.kind = "div" /\ i.wide => UnsignedWord
     /\ i.kind = "idiv" /\ i.wide => SignedWord]_vars

=============================================================================
