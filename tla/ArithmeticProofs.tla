-------------------------- MODULE ArithmeticProofs --------------------------
(***************************************************************************)
(* Proofs about Arithmetic, for every program: registers and flags keep    *)
(* their ranges; sums, differences, products, quotients, shifts, rotates   *)
(* and decimal adjustments are right with their flags, and so are the      *)
(* branches after a comparison.                                            *)
(***************************************************************************)
EXTENDS Arithmetic, SequenceTheorems, TLAPS

LEMMA ByteOf == \A n \in Int : n % 256 \in Byte /\ n % W \in Word16
  BY DEF Byte, Word16, W

LEMMA NumType == \A b \in BOOLEAN : Num(b) \in {0, 1}
  BY DEF Num

(***************************************************************************)
(* A round that keeps to its states can be repeated.                       *)
(***************************************************************************)
LEMMA TwiceType ==
  ASSUME NEW S, NEW f \in [S -> S]
  PROVE  Twice(f) \in [S -> S]
  BY DEF Twice

LEMMA EightTimes ==
  ASSUME NEW f, NEW S, f \in [S -> S], NEW s \in S
  PROVE  Eight(f)[s] = f[f[f[f[f[f[f[f[s]]]]]]]]
<1>1. Twice(f) \in [S -> S] /\ \A x \in S : Twice(f)[x] = f[f[x]]
  BY TwiceType DEF Twice
<1> DEFINE g == Twice(f)
<1>2. Twice(g) \in [S -> S] /\ \A x \in S : Twice(g)[x] = g[g[x]]
  BY <1>1, TwiceType DEF Twice
<1> DEFINE h == Twice(g)
<1>3. \A x \in S : Twice(h)[x] = h[h[x]]
  BY <1>2 DEF Twice
<1>4. Eight(f) = Twice(h)
  BY DEF Eight
<1> HIDE DEF h, g
<1>5. \A x \in S : h[x] = f[f[f[f[x]]]]
  BY <1>1, <1>2 DEF g, h
<1> QED
  BY <1>2, <1>3, <1>4, <1>5 DEF g, h

LEMMA RoundsType ==
  ASSUME NEW S, NEW f \in [S -> S]
  PROVE  Eight(f) \in [S -> S] /\ Sixteen(f) \in [S -> S]
<1>1. Twice(f) \in [S -> S]
  BY TwiceType
<1>2. Twice(Twice(f)) \in [S -> S]
  BY <1>1, TwiceType
<1>3. Eight(f) \in [S -> S]
  BY <1>2, TwiceType DEF Eight
<1>4. QED
  BY <1>3, TwiceType DEF Sixteen

----------------------------------------------------------------------------
(***************************************************************************)
(* The results of the operators are bytes, words and flags.                *)
(***************************************************************************)
LEMMA AdcType ==
  ASSUME NEW a \in Byte, NEW b \in Byte, NEW c \in BOOLEAN
  PROVE  /\ Adc(a, b, c).byte \in Byte
         /\ Adc(a, b, c).carry \in BOOLEAN
         /\ Sbc(a, b, c).byte \in Byte
         /\ Sbc(a, b, c).carry \in BOOLEAN
<1>1. a + b + Num(c) \in Int /\ a + (255 - b) + Num(c) \in Int
  BY NumType DEF Byte
<1>2. QED
  BY <1>1, ByteOf DEF Adc, Sbc

LEMMA FromBitsType == \A s : FromBits(s) \in Byte
  BY DEF FromBits, Byte, Num

LEMMA AluAddType ==
  ASSUME NEW l \in Value, NEW r \in Value, NEW wide \in BOOLEAN, NEW c \in BOOLEAN
  PROVE  /\ AluAdd(l, r, wide, c).value \in Value
         /\ AluAdd(l, r, wide, c).carry \in BOOLEAN
         /\ AluSubtract(l, r, wide, c).value \in Value
         /\ AluSubtract(l, r, wide, c).carry \in BOOLEAN
<1>1. l.lo \in Byte /\ l.hi \in Byte /\ r.lo \in Byte /\ r.hi \in Byte /\ 0 \in Byte
  BY DEF Value, Byte
<1>2. Adc(l.lo, r.lo, c).byte \in Byte /\ Adc(l.lo, r.lo, c).carry \in BOOLEAN
  BY <1>1, AdcType
<1>3. /\ Adc(l.hi, r.hi, Adc(l.lo, r.lo, c).carry).byte \in Byte
      /\ Adc(l.hi, r.hi, Adc(l.lo, r.lo, c).carry).carry \in BOOLEAN
  BY <1>1, <1>2, AdcType
<1>4. Sbc(l.lo, r.lo, c).byte \in Byte /\ Sbc(l.lo, r.lo, c).carry \in BOOLEAN
  BY <1>1, AdcType
<1>5. /\ Sbc(l.hi, r.hi, Sbc(l.lo, r.lo, c).carry).byte \in Byte
      /\ Sbc(l.hi, r.hi, Sbc(l.lo, r.lo, c).carry).carry \in BOOLEAN
  BY <1>1, <1>4, AdcType
<1>6. AluAdd(l, r, wide, c).value \in Value /\ AluAdd(l, r, wide, c).carry \in BOOLEAN
  BY <1>1, <1>2, <1>3 DEF AluAdd, Value
<1>7. AluSubtract(l, r, wide, c).value \in Value
  BY <1>1, <1>4, <1>5 DEF AluSubtract, Value
<1>8. AluSubtract(l, r, wide, c).carry \in BOOLEAN
  BY DEF AluSubtract
<1>9. QED
  BY <1>6, <1>7, <1>8

LEMMA AluExecuteType ==
  ASSUME NEW op \in 0 .. 7, NEW l \in Value, NEW r \in Value,
         NEW wide \in BOOLEAN, NEW cf \in BOOLEAN
  PROVE  /\ AluExecute(op, l, r, wide, cf).value \in Value
         /\ AluExecute(op, l, r, wide, cf).carry \in BOOLEAN
<1>1. CASE op \in Logical
  <2>1. AluExecute(op, l, r, wide, cf) = AluLogic(op, l, r, wide)
    BY <1>1 DEF AluExecute, Logical, ADD, OR, ADC, SBB, AND, SUB, XOR, CMP
  <2>2. \A a, b : LogicByte(op, a, b) \in Byte
    BY FromBitsType DEF LogicByte
  <2>3. QED
    BY <2>1, <2>2 DEF AluLogic, Value, Byte
<1>2. CASE op \in {ADD, ADC} \ Logical
  <2>1. AluExecute(op, l, r, wide, cf) = AluAdd(l, r, wide, op = ADC /\ cf)
    BY <1>2 DEF AluExecute
  <2>2. PICK c \in BOOLEAN : c = (op = ADC /\ cf)
    OBVIOUS
  <2>3. AluExecute(op, l, r, wide, cf) = AluAdd(l, r, wide, c)
    BY <2>1, <2>2, Zenon
  <2>4. QED
    BY <2>3, AluAddType
<1>3. CASE op \notin {ADD, ADC} \cup Logical
  <2>1. AluExecute(op, l, r, wide, cf) = AluSubtract(l, r, wide, op = SBB => ~cf)
    BY <1>3 DEF AluExecute
  <2>2. PICK c \in BOOLEAN : c = (op = SBB => ~cf)
    OBVIOUS
  <2>3. AluExecute(op, l, r, wide, cf) = AluSubtract(l, r, wide, c)
    BY <2>1, <2>2, Zenon
  <2>4. QED
    BY <2>3, AluAddType
<1>4. QED
  BY <1>1, <1>2, <1>3

LEMMA AluFlagsType ==
  ASSUME NEW op, NEW l, NEW r, NEW v, NEW wide, NEW carry \in BOOLEAN
  PROVE  AluFlags(op, l, r, v, wide, carry) \in Flags
  BY DEF AluFlags, Flags, Minus, BitSeven, EvenParity, AuxCarry, Overflow

LEMMA BitSevenType ==
  ASSUME NEW b \in Byte
  PROVE  BitSeven(b) \in BOOLEAN
  BY DEF BitSeven, Byte

LEMMA ByteResultFlagsType ==
  ASSUME NEW f \in Flags, NEW b \in Byte
  PROVE  ByteResultFlags(f, b) \in Flags
<1>1. PICK z \in BOOLEAN : z = (b = 0)
  OBVIOUS
<1>2. PICK n \in BOOLEAN : n = BitSeven(b)
  BY BitSevenType
<1>3. PICK p \in BOOLEAN : p = EvenParity(b)
  BY DEF EvenParity
<1>4. ByteResultFlags(f, b) = [f EXCEPT !.ZF = z, !.SF = n, !.PF = p]
  BY <1>1, <1>2, <1>3, Zenon DEF ByteResultFlags
<1>5. QED
  BY <1>4 DEF Flags

LEMMA ShiftBy1Type ==
  ASSUME NEW ext, NEW v \in Value, NEW wide \in BOOLEAN, NEW c \in BOOLEAN
  PROVE  /\ ShiftBy1(ext, v, wide, c).value \in Value
         /\ ShiftBy1(ext, v, wide, c).carry \in BOOLEAN
         /\ ShiftBy1(ext, v, wide, c).overflow \in BOOLEAN
<1>1. v.lo \in Byte /\ v.hi \in Byte
  BY DEF Value
<1>2. \A b \in Byte : /\ b % 2 \in {0, 1}
                      /\ b \div 2 \in 0 .. 127
                      /\ b \div 128 \in {0, 1}
                      /\ (2 * b) % 256 \in 0 .. 254
  BY DEF Byte
<1>3. \A n \in 0 .. 254, d \in {0, 1} : n + d \in Byte
  BY DEF Byte
<1>4. \A n \in 0 .. 127, d \in {0, 1} : n + 128 * d \in Byte
  BY DEF Byte
<1>5. /\ ShiftLeft(ext, v, wide, c).value \in Value
      /\ ShiftLeft(ext, v, wide, c).carry \in BOOLEAN
      /\ ShiftLeft(ext, v, wide, c).overflow \in BOOLEAN
  <2>1. 0 \in Byte
    BY DEF Byte
  <2>2. PICK d \in {0, 1} :
          d = Num((ext = ROL /\ Minus(v, wide)) \/ (ext = RCL /\ c))
    BY DEF Num
  <2>3. ((2 * v.lo) % 256) + d \in Byte /\ ((2 * v.hi) % 256) + (v.lo \div 128) \in Byte
    <3>1. PICK n, m \in 0 .. 254 : n = (2 * v.lo) % 256 /\ m = (2 * v.hi) % 256
      BY <1>1, <1>2
    <3>2. PICK e \in {0, 1} : e = v.lo \div 128
      BY <1>1, <1>2
    <3>3. n + d \in Byte /\ m + e \in Byte
      BY <1>3
    <3>4. QED
      BY <3>1, <3>2, <3>3, SMTT(30)
  <2>4. PICK k, h \in Byte :
          /\ k = ((2 * v.lo) % 256) + d
          /\ h = IF wide THEN ((2 * v.hi) % 256) + (v.lo \div 128) ELSE 0
    BY <2>1, <2>3
  <2>5. [lo |-> k, hi |-> h] \in Value
    BY <2>4 DEF Value
  <2>6. ShiftLeft(ext, v, wide, c).value = [lo |-> k, hi |-> h]
    <3>1. PICK o : o = (Minus([lo |-> k, hi |-> h], wide) # Minus(v, wide))
      OBVIOUS
    <3>2. ShiftLeft(ext, v, wide, c) =
            [value |-> [lo |-> k, hi |-> h], carry |-> Minus(v, wide), overflow |-> o]
      BY <2>2, <2>4, <3>1, ZenonT(60) DEF ShiftLeft
    <3>3. QED
      BY <3>2
  <2>7. ShiftLeft(ext, v, wide, c).value \in Value
    BY <2>5, <2>6, Zenon
  <2>8. QED
    BY <2>7 DEF ShiftLeft, Minus, BitSeven
<1>6. PICK top \in Byte : top = SignByte(v, wide)
  BY <1>1 DEF SignByte
<1>7. PICK sign \in BOOLEAN : sign = BitSeven(top)
  BY BitSevenType
<1>8. PICK out \in BOOLEAN : out = (v.lo % 2 = 1)
  OBVIOUS
<1>9. PICK d \in {0, 1} :
         d = Num((ext = ROR /\ out) \/ (ext = RCR /\ c) \/ (ext = SAR /\ sign))
  BY DEF Num
<1> DEFINE new == (top \div 2) + 128 * d
           res == IF wide THEN [lo |-> (v.lo \div 2) + 128 * (v.hi % 2), hi |-> new]
                          ELSE [lo |-> new, hi |-> 0]
<1>10. ShiftRight(ext, v, wide, c) =
         [value |-> res, carry |-> out,
          overflow |-> IF ext = SHR THEN sign ELSE ext # SAR /\ new \div 64 \in {1, 2}]
  BY <1>6, <1>7, <1>8, <1>9, ZenonT(60) DEF ShiftRight
<1>11. new \in Byte /\ (v.lo \div 2) + 128 * (v.hi % 2) \in Byte /\ 0 \in Byte
  BY <1>1, <1>2, <1>4 DEF Byte
<1>12. res \in Value
  BY <1>11 DEF Value
<1>13. (IF ext = SHR THEN sign ELSE ext # SAR /\ new \div 64 \in {1, 2}) \in BOOLEAN
  OBVIOUS
<1> HIDE DEF res, new
<1>14. /\ ShiftRight(ext, v, wide, c).value \in Value
       /\ ShiftRight(ext, v, wide, c).carry \in BOOLEAN
       /\ ShiftRight(ext, v, wide, c).overflow \in BOOLEAN
  BY <1>10, <1>12, <1>13
<1>15. QED
  BY <1>5, <1>14 DEF ShiftBy1

LEMMA ShiftRoundType ==
  ASSUME NEW ext, NEW wide \in BOOLEAN, NEW cf
  PROVE  ShiftRound(ext, wide, cf) \in [ShiftState -> ShiftState]
<1> SUFFICES ASSUME NEW s \in ShiftState
             PROVE  ShiftRound(ext, wide, cf)[s] \in ShiftState
  BY DEF ShiftRound
<1>1. s.value \in Value /\ s.count \in Byte /\ s.carry \in BOOLEAN
  BY DEF ShiftState
<1>2. CASE s.count = 0
  BY <1>2 DEF ShiftRound
<1>3. CASE s.count # 0
  <2>1. s.count - 1 \in Byte
    BY <1>1, <1>3 DEF Byte
  <2>2. QED
    BY <1>1, <1>3, <2>1, ShiftBy1Type DEF ShiftRound, ShiftState
<1>4. QED
  BY <1>2, <1>3

LEMMA ShiftType ==
  ASSUME NEW ext, NEW v \in Value, NEW wide \in BOOLEAN, NEW count \in Byte,
         NEW cf \in BOOLEAN
  PROVE  /\ Shift(ext, v, wide, count, cf).value \in Value
         /\ Shift(ext, v, wide, count, cf).carry \in BOOLEAN
         /\ Shift(ext, v, wide, count, cf).overflow \in BOOLEAN
<1> DEFINE start == [value |-> v, carry |-> cf, overflow |-> FALSE, count |-> count]
           last == Sixteen(Sixteen(ShiftRound(ext, wide, cf)))[start]
<1>1. start \in ShiftState
  BY DEF ShiftState
<1>2. Sixteen(Sixteen(ShiftRound(ext, wide, cf))) \in [ShiftState -> ShiftState]
  BY ShiftRoundType, RoundsType
<1>3. last \in ShiftState
  BY <1>1, <1>2
<1>4. PICK o \in BOOLEAN : o = (count = 1 /\ last.overflow)
  OBVIOUS
<1>5. Shift(ext, v, wide, count, cf) = [last EXCEPT !.overflow = o]
  BY <1>4, Zenon DEF Shift
<1> HIDE DEF last
<1>6. QED
  BY <1>3, <1>5 DEF ShiftState

LEMMA InWord16 == \A n : n \in Word16 <=> n \in Int /\ 0 <= n /\ n <= W - 1
<1>1. W \in Int
  BY DEF W
<1>2. QED
  BY <1>1 DEF Word16

LEMMA InByte == \A n : n \in Byte <=> n \in Int /\ 0 <= n /\ n <= 255
  BY DEF Byte

LEMMA WordBounds ==
  ASSUME NEW n \in Int, 0 <= n, n <= W - 1
  PROVE  /\ 0 <= n \div 2 /\ n \div 2 <= W - 1
         /\ 0 <= W - 1 - n /\ W - 1 - n <= W - 1
         /\ 0 <= n % 256 /\ n % 256 <= 255
         /\ 0 <= n \div 256 /\ n \div 256 <= 255
  BY DEF W

LEMMA WordFacts ==
  ASSUME NEW n \in Word16
  PROVE  /\ n \in Int
         /\ n \div 2 \in Word16
         /\ W - 1 - n \in Word16
         /\ n % 256 \in Byte
         /\ n \div 256 \in Byte
<1>1. n \in Int /\ 0 <= n /\ n <= W - 1
  BY InWord16
<1>2. W \in Int
  BY DEF W
<1>3. QED
  BY <1>1, <1>2, WordBounds, InWord16, InByte

LEMMA MagnitudeType ==
  /\ \A n \in Word16 : Negated(n) \in Word16 /\ Magnitude(n) \in Word16
  /\ \A b \in Byte : ByteMagnitude(b) \in Byte
<1>1. ASSUME NEW n \in Word16 PROVE Negated(n) \in Word16
  <2>1. W \in Int /\ n \in Int
    BY WordFacts DEF W
  <2>2. W - n \in Int
    BY <2>1
  <2>3. QED
    BY <2>2, ByteOf DEF Negated
<1>2. ASSUME NEW n \in Word16 PROVE Magnitude(n) \in Word16
  BY <1>1 DEF Magnitude
<1>3. ASSUME NEW b \in Byte PROVE ByteMagnitude(b) \in Byte
  BY DEF ByteMagnitude, Byte
<1>4. QED
  BY <1>1, <1>2, <1>3

LEMMA LongType ==
  /\ \A p, q \in Long : LongAdd(p, q) \in Long
  /\ \A p \in Long : LongNegated(p) \in Long
<1>1. ASSUME NEW p \in Long, NEW q \in Long PROVE LongAdd(p, q) \in Long
  <2>1. /\ p.lo \in Word16 /\ p.hi \in Word16
        /\ q.lo \in Word16 /\ q.hi \in Word16
    BY DEF Long
  <2>2. \A a, b, c, d \in Int : a + c \in Int /\ b + d + ((a + c) \div W) \in Int
    BY DEF W
  <2>3. /\ p.lo + q.lo \in Int
        /\ p.hi + q.hi + ((p.lo + q.lo) \div W) \in Int
    BY <2>1, <2>2, WordFacts
  <2>4. QED
    BY <2>3, ByteOf DEF LongAdd, Long
<1>2. ASSUME NEW p \in Long PROVE LongNegated(p) \in Long
  <2>1. p.lo \in Word16 /\ p.hi \in Word16
    BY DEF Long
  <2>2. Negated(p.lo) \in Word16 /\ Negated(p.hi) \in Word16 /\ W - 1 - p.hi \in Word16
    BY <2>1, MagnitudeType, WordFacts
  <2>3. QED
    BY <2>2 DEF LongNegated, Long
<1>3. QED
  BY <1>1, <1>2

LEMMA MulRoundType == MulRound \in [MulState -> MulState]
<1> SUFFICES ASSUME NEW s \in MulState
             PROVE  MulRound[s] \in MulState
  BY DEF MulRound
<1>1. s.product \in Long /\ s.multiplicand \in Long /\ s.multiplier \in Word16
  BY DEF MulState
<1>2. s.multiplier \div 2 \in Word16
  BY <1>1, WordFacts
<1>3. QED
  BY <1>1, <1>2, LongType DEF MulRound, MulState

LEMMA ProductType ==
  ASSUME NEW x \in Word16, NEW y \in Word16
  PROVE  /\ Eight(MulRound)[MulStart(x, y)].product \in Long
         /\ Sixteen(MulRound)[MulStart(x, y)].product \in Long
<1>1. MulStart(x, y) \in MulState
  <2>1. 0 \in Word16
    BY DEF Word16, W
  <2>2. QED
    BY <2>1 DEF MulStart, MulState, Long
<1>2. Eight(MulRound) \in [MulState -> MulState] /\ Sixteen(MulRound) \in [MulState -> MulState]
  BY MulRoundType, RoundsType
<1>3. /\ Eight(MulRound)[MulStart(x, y)] \in MulState
      /\ Sixteen(MulRound)[MulStart(x, y)] \in MulState
  BY <1>1, <1>2
<1>4. QED
  BY <1>3 DEF MulState

LEMMA MultiplyType ==
  /\ \A x, y \in Byte : /\ MulU8(x, y).ax \in Word16 /\ MulU8(x, y).carry \in BOOLEAN
                        /\ MulS8(x, y).ax \in Word16 /\ MulS8(x, y).carry \in BOOLEAN
  /\ \A x, y \in Word16 :
       /\ MulU16(x, y).ax \in Word16 /\ MulU16(x, y).dx \in Word16
       /\ MulU16(x, y).carry \in BOOLEAN
       /\ MulS16(x, y).ax \in Word16 /\ MulS16(x, y).dx \in Word16
       /\ MulS16(x, y).carry \in BOOLEAN
<1>1. ASSUME NEW x \in Byte, NEW y \in Byte
      PROVE  MulU8(x, y).ax \in Word16 /\ MulU8(x, y).carry \in BOOLEAN
  <2>1. x \in Word16 /\ y \in Word16
    BY DEF Byte, Word16, W
  <2>2. Eight(MulRound)[MulStart(x, y)].product.lo \in Word16
    BY <2>1, ProductType DEF Long
  <2>3. QED
    BY <2>2, SMTT(30) DEF MulU8
<1>2. ASSUME NEW x \in Byte, NEW y \in Byte
      PROVE  MulS8(x, y).ax \in Word16 /\ MulS8(x, y).carry \in BOOLEAN
  <2>1. MulU8(ByteMagnitude(x), ByteMagnitude(y)).ax \in Word16
    BY <1>1, MagnitudeType
  <2>2. QED
    BY <2>1, MagnitudeType DEF MulS8
<1>3. ASSUME NEW x \in Word16, NEW y \in Word16
      PROVE  /\ MulU16(x, y).ax \in Word16 /\ MulU16(x, y).dx \in Word16
             /\ MulU16(x, y).carry \in BOOLEAN
  BY ProductType DEF MulU16, Long
<1>4. ASSUME NEW x \in Word16, NEW y \in Word16
      PROVE  /\ MulS16(x, y).ax \in Word16 /\ MulS16(x, y).dx \in Word16
             /\ MulS16(x, y).carry \in BOOLEAN
  <2>1. Sixteen(MulRound)[MulStart(Magnitude(x), Magnitude(y))].product \in Long
    BY MagnitudeType, ProductType
  <2>2. LongNegated(Sixteen(MulRound)[MulStart(Magnitude(x), Magnitude(y))].product) \in Long
    BY <2>1, LongType
  <2>3. QED
    BY <2>1, <2>2 DEF MulS16, Long
<1>5. QED
  BY <1>1, <1>2, <1>3, <1>4

LEMMA DivRound8Type ==
  ASSUME NEW d \in Byte
  PROVE  DivRound8(d) \in [DivState8 -> DivState8]
<1> SUFFICES ASSUME NEW s \in DivState8
             PROVE  DivRound8(d)[s] \in DivState8
  BY DEF DivRound8
<1> DEFINE doubled == 2 * s.r + (s.q \div 128)
           q       == (2 * s.q) % 256
           taken   == ((IF doubled > 255 THEN s.a ELSE doubled) - d) % 256
<1>1. s.q \in Byte /\ s.r \in Byte /\ s.a \in Byte
  BY DEF DivState8
<1>2. q \in Byte /\ q + 1 \in Byte
  BY <1>1 DEF Byte
<1>3. taken \in Byte
  <2>1. (IF doubled > 255 THEN s.a ELSE doubled) \in Int /\ d \in Int
    BY <1>1 DEF Byte
  <2>2. ((IF doubled > 255 THEN s.a ELSE doubled) - d) \in Int
    BY <2>1
  <2>3. QED
    BY <2>2, ByteOf
<1>4. ~(doubled >= d) => doubled \in Byte
  BY <1>1 DEF Byte
<1>5. DivRound8(d)[s] = IF doubled >= d THEN [q |-> q + 1, r |-> taken, a |-> taken]
                                        ELSE [q |-> q, r |-> doubled, a |-> doubled]
  BY DEF DivRound8
<1> HIDE DEF doubled, q, taken
<1>6. QED
  BY <1>2, <1>3, <1>4, <1>5 DEF DivState8

LEMMA DoubledWord ==
  ASSUME NEW x \in Int, 0 <= x, x <= W - 1
  PROVE  /\ x \div (W \div 2) \in Int
         /\ 0 <= x \div (W \div 2)
         /\ (2 * x) % W \in Int
         /\ 0 <= (2 * x) % W
         /\ (2 * x) % W <= W - 2
<1>1. W = 65536 /\ W \div 2 = 32768
  BY DEF W
<1>2. PICK k \in Int : 2 * x = W * k + ((2 * x) % W)
  BY <1>1
<1>3. (2 * x) % W \in Int /\ 0 <= (2 * x) % W /\ (2 * x) % W <= W - 1
  BY <1>1
<1>4. (2 * x) % W # W - 1
  BY <1>1, <1>2
<1>5. QED
  BY <1>1, <1>3, <1>4

LEMMA DivRound16Type ==
  ASSUME NEW d \in Word16
  PROVE  DivRound16(d) \in [DivState16 -> DivState16]
<1> SUFFICES ASSUME NEW s \in DivState16
             PROVE  DivRound16(d)[s] \in DivState16
  BY DEF DivRound16
<1> DEFINE doubled == 2 * s.r + (s.q \div (W \div 2))
           q       == (2 * s.q) % W
<1>1. s.q \in Word16 /\ s.r \in Word16 /\ W \in Int /\ d \in Int /\ 0 <= d /\ d <= W - 1
  BY InWord16 DEF DivState16, W
<1>2. DivRound16(d)[s] = IF doubled >= d THEN [q |-> q + 1, r |-> (doubled - d) % W]
                                         ELSE [q |-> q, r |-> doubled]
  BY DEF DivRound16
<1>3. s.q \in Int /\ 0 <= s.q /\ s.q <= W - 1 /\ s.r \in Int /\ 0 <= s.r
  BY <1>1, InWord16
<1>4. q \in Int /\ 0 <= q /\ q <= W - 2
  BY <1>3, DoubledWord
<1>5. \A x, y \in Int : 0 <= x /\ 0 <= y => 2 * x + y \in Int /\ 0 <= 2 * x + y
  OBVIOUS
<1>6. doubled \in Int /\ 0 <= doubled
  BY <1>3, <1>5, DoubledWord
<1> HIDE DEF doubled, q
<1>7. q \in Word16 /\ q + 1 \in Word16
  BY <1>1, <1>4, InWord16
<1>8. doubled - d \in Int
  BY <1>1, <1>6
<1>9. (doubled - d) % W \in Word16
  BY <1>8, ByteOf
<1>10. ~(doubled >= d) => doubled \in Word16
  BY <1>1, <1>6, InWord16
<1>11. QED
  BY <1>2, <1>7, <1>9, <1>10 DEF DivState16

LEMMA DivU8Type ==
  ASSUME NEW n \in Word16, NEW d \in Byte
  PROVE  /\ DivU8(n, d).error \in BOOLEAN
         /\ ~DivU8(n, d).error => DivU8(n, d).q \in Byte /\ DivU8(n, d).r \in Byte
<1> DEFINE start == [q |-> n % 256, r |-> n \div 256, a |-> 8]
           last  == Eight(DivRound8(d))[start]
<1>1. start \in DivState8
  BY WordFacts DEF DivState8, Byte
<1>2. last \in DivState8
  BY <1>1, DivRound8Type, RoundsType
<1>3. DivU8(n, d) = IF d = 0 \/ n \div 256 >= d
                      THEN DivideError
                      ELSE [error |-> FALSE, q |-> last.q, r |-> last.r]
  BY DEF DivU8
<1> HIDE DEF last
<1>4. QED
  BY <1>2, <1>3 DEF DivState8, DivideError

LEMMA DivU16Type ==
  ASSUME NEW h \in Word16, NEW n \in Word16, NEW d \in Word16
  PROVE  /\ DivU16(h, n, d).error \in BOOLEAN
         /\ ~DivU16(h, n, d).error =>
              DivU16(h, n, d).q \in Word16 /\ DivU16(h, n, d).r \in Word16
<1> DEFINE start == [q |-> n, r |-> h]
           last  == Sixteen(DivRound16(d))[start]
<1>1. start \in DivState16
  BY DEF DivState16
<1>2. last \in DivState16
  BY <1>1, DivRound16Type, RoundsType
<1>3. DivU16(h, n, d) = IF d = 0 \/ h >= d
                          THEN DivideError
                          ELSE [error |-> FALSE, q |-> last.q, r |-> last.r]
  BY DEF DivU16
<1> HIDE DEF last
<1>4. QED
  BY <1>2, <1>3 DEF DivState16, DivideError

LEMMA DivS8Type ==
  ASSUME NEW n \in Word16, NEW d \in Byte
  PROVE  /\ DivS8(n, d).error \in BOOLEAN
         /\ ~DivS8(n, d).error => DivS8(n, d).q \in Byte /\ DivS8(n, d).r \in Byte
<1> DEFINE u == DivU8(Magnitude(n), ByteMagnitude(d))
<1>1. u.error \in BOOLEAN /\ (~u.error => u.q \in Byte /\ u.r \in Byte)
  BY DivU8Type, MagnitudeType
<1>2. \A b \in Byte : (256 - b) % 256 \in Byte
  BY DEF Byte
<1>3. PICK opposed \in BOOLEAN : opposed = (Negative(n) # (d >= 128))
  OBVIOUS
<1>4. PICK wrong \in BOOLEAN :
        wrong = (u.error \/ u.q > (IF opposed THEN 128 ELSE 127))
  OBVIOUS
<1>5. DivS8(n, d) =
        IF wrong
          THEN DivideError
          ELSE [error |-> FALSE,
                q |-> IF opposed THEN (256 - u.q) % 256 ELSE u.q,
                r |-> IF Negative(n) THEN (256 - u.r) % 256 ELSE u.r]
  BY <1>3, <1>4, Zenon DEF DivS8
<1> HIDE DEF u
<1>6. ~wrong => ~u.error
  BY <1>4
<1>7. QED
  BY <1>1, <1>2, <1>5, <1>6 DEF DivideError

LEMMA DivS16Type ==
  ASSUME NEW h \in Word16, NEW n \in Word16, NEW d \in Word16
  PROVE  /\ DivS16(h, n, d).error \in BOOLEAN
         /\ ~DivS16(h, n, d).error =>
              DivS16(h, n, d).q \in Word16 /\ DivS16(h, n, d).r \in Word16
<1> DEFINE p == [lo |-> n, hi |-> h]
           m == IF Negative(h) THEN LongNegated(p) ELSE p
           u == DivU16(m.hi, m.lo, Magnitude(d))
<1>1. p \in Long /\ m \in Long
  BY LongType DEF Long
<1>2. m.hi \in Word16 /\ m.lo \in Word16
  BY <1>1 DEF Long
<1> HIDE DEF m
<1>3. u.error \in BOOLEAN /\ (~u.error => u.q \in Word16 /\ u.r \in Word16)
  BY <1>2, DivU16Type, MagnitudeType
<1>4. PICK opposed \in BOOLEAN : opposed = (Negative(h) # Negative(d))
  OBVIOUS
<1>5. PICK wrong \in BOOLEAN :
        wrong = (u.error \/ u.q > (IF opposed THEN W \div 2 ELSE (W \div 2) - 1))
  OBVIOUS
<1>6. DivS16(h, n, d) =
        IF wrong
          THEN DivideError
          ELSE [error |-> FALSE,
                q |-> IF opposed THEN Negated(u.q) ELSE u.q,
                r |-> IF Negative(h) THEN Negated(u.r) ELSE u.r]
  BY <1>4, <1>5, Zenon DEF DivS16, m
<1> HIDE DEF u
<1>7. ~wrong => ~u.error
  BY <1>5
<1>8. QED
  BY <1>3, <1>6, <1>7, MagnitudeType DEF DivideError

----------------------------------------------------------------------------
(***************************************************************************)
(* Type correctness: whatever is run, registers are pairs of bytes and the *)
(* flags are flags (cpu8088_step).                                         *)
(***************************************************************************)
LEMMA PairType == \A n \in Word16 : Pair(n) \in Value
<1> SUFFICES ASSUME NEW n \in Word16 PROVE Pair(n) \in Value
  OBVIOUS
<1>1. n \in Int /\ n \div 256 \in Int
  BY WordFacts DEF Byte
<1>2. QED
  BY <1>1, ByteOf DEF Pair, Value

LEMMA WordType == \A v \in Value : Word(v) \in Word16
<1> SUFFICES ASSUME NEW v \in Value PROVE Word(v) \in Word16
  OBVIOUS
<1>1. /\ v.lo \in Int /\ 0 <= v.lo /\ v.lo <= 255
      /\ v.hi \in Int /\ 0 <= v.hi /\ v.hi <= 255
  BY InByte DEF Value
<1>2. \A h, k \in Int : 0 <= h /\ h <= 255 /\ 0 <= k /\ k <= 255
        => /\ 256 * h + k \in Int /\ 0 <= 256 * h + k /\ 256 * h + k <= W - 1
  BY DEF W
<1>3. QED
  BY <1>1, <1>2, InWord16 DEF Word

LEMMA InitType == Init => TypeOK
<1> SUFFICES ASSUME Init PROVE TypeOK
  OBVIOUS
<1>1. /\ began.code \in Seq(Instructions) /\ began.cf \in BOOLEAN
      /\ began.ax \in Word16 /\ began.dx \in Word16 /\ began.operand \in Word16
  BY ArithmeticAssumption DEF Init
<1>2. ax \in Value /\ dx \in Value /\ operand \in Value
  BY <1>1, PairType DEF Init
<1>3. alu_operation \in 0 .. 7 /\ status \in {"ok", "interrupt", "invalid"}
  BY DEF Init, ADD
<1>4. flags \in Flags
  BY <1>1, Zenon DEF Init, Flags
<1>5. alu_preserve_cf \in BOOLEAN /\ alu_saved_cf \in BOOLEAN
  BY DEF Init
<1>6. began \in Programs /\ code \in Seq(Instructions) /\ last_opcode = <<>>
  BY <1>1 DEF Init
<1>7. QED
  BY <1>2, <1>3, <1>4, <1>5, <1>6, Zenon DEF TypeOK

\* What an action finds once its instruction is fetched.
LEMMA FetchedType ==
  ASSUME TypeOK, NEW kind, Fetched(kind)
  PROVE  /\ i \in Instructions /\ i.op \in 0 .. 7 /\ i.wide \in BOOLEAN
         /\ i.count \in Byte /\ i.kind = kind
         /\ ax \in Value /\ dx \in Value /\ operand \in Value /\ flags \in Flags
         /\ Operand(ax) \in Value /\ Operand(operand) \in Value
         /\ began' \in Programs /\ code' \in Seq(Instructions)
         /\ last_opcode'[1] \in Instructions /\ operand' \in Value
<1>1. i \in Instructions /\ code' \in Seq(Instructions)
  BY DEF TypeOK, Fetched, i
<1>2. i.op \in 0 .. 7 /\ i.wide \in BOOLEAN /\ i.count \in Byte
  BY <1>1 DEF Instructions
<1>3. Operand(ax) \in Value /\ Operand(operand) \in Value
  BY DEF TypeOK, Operand, Low, Value, Byte
<1>4. QED
  BY <1>1, <1>2, <1>3 DEF TypeOK, Fetched, i

LEMMA StoredType ==
  ASSUME TypeOK, NEW v \in Value
  PROVE  Stored(v) \in Value
  BY DEF TypeOK, Stored, Value

\* What is left to show of an action.
LEMMA StepType ==
  ASSUME TypeOK, NEW kind, Fetched(kind),
         ax' \in Value, dx' \in Value, flags' \in Flags, alu_operation' \in 0 .. 7,
         alu_preserve_cf' \in BOOLEAN, alu_saved_cf' \in BOOLEAN,
         status' \in {"ok", "interrupt", "invalid"}
  PROVE  TypeOK'
  BY FetchedType, Zenon DEF TypeOK

LEMMA TestedType == TypeOK /\ i \in Instructions => Tested \in Flags
  BY AluFlagsType DEF Tested

LEMMA PreservingType ==
  ASSUME TypeOK, NEW f \in Flags
  PROVE  Preserving(f) \in Flags
  BY DEF TypeOK, Preserving, Flags

LEMMA AluStep == TypeOK /\ Alu => TypeOK'
<1> SUFFICES ASSUME TypeOK, Alu PROVE TypeOK'
  OBVIOUS
<1> DEFINE x == AluExecute(i.op, Operand(ax), Operand(operand), i.wide, flags.CF)
<1>1. Fetched("alu")
  BY DEF Alu
<1>2. i.op \in 0 .. 7 /\ flags.CF \in BOOLEAN /\ ax \in Value /\ dx \in Value
  BY <1>1, FetchedType DEF Flags
<1>3. x.value \in Value /\ x.carry \in BOOLEAN
  BY <1>1, <1>2, FetchedType, AluExecuteType
<1>4. flags' \in Flags
  BY <1>3, AluFlagsType DEF Alu
<1>5. ax' \in Value
  BY <1>2, <1>3, StoredType DEF Alu
<1>6. dx' \in Value /\ alu_operation' \in 0 .. 7 /\ alu_preserve_cf' \in BOOLEAN
      /\ alu_saved_cf' \in BOOLEAN /\ status' \in {"ok", "interrupt", "invalid"}
  BY <1>2 DEF Alu, Left, Ok, TypeOK
<1>7. QED
  BY <1>1, <1>4, <1>5, <1>6, StepType

LEMMA TestStep == TypeOK /\ (Test \/ Group3Test \/ Group3Not) => TypeOK'
<1> SUFFICES ASSUME TypeOK, Test \/ Group3Test \/ Group3Not PROVE TypeOK'
  OBVIOUS
<1>1. CASE Test
  <2>1. Fetched("test") /\ AND \in 0 .. 7
    BY <1>1 DEF Test, AND
  <2>2. flags' \in Flags
    BY <1>1, <2>1, FetchedType, TestedType DEF Test
  <2>3. QED
    BY <1>1, <2>1, <2>2, StepType DEF Test, Left, Ok, TypeOK
<1>2. CASE Group3Test
  <2>1. Fetched("group3_test") /\ AND \in 0 .. 7
    BY <1>2 DEF Group3Test, AND
  <2>2. flags' \in Flags
    BY <1>2, <2>1, FetchedType, TestedType, PreservingType DEF Group3Test
  <2>3. QED
    BY <1>2, <2>1, <2>2, StepType DEF Group3Test, Ok, TypeOK
<1>3. CASE Group3Not
  <2>1. Fetched("group3_not")
    BY <1>3 DEF Group3Not
  <2>2. [lo |-> 255 - ax.lo, hi |-> 255 - ax.hi] \in Value
    <3>1. ax.lo \in Byte /\ ax.hi \in Byte
      BY DEF TypeOK, Value
    <3>2. \A b \in Byte : 255 - b \in Byte
      BY DEF Byte
    <3>3. QED
      BY <3>1, <3>2 DEF Value
  <2>3. ax' \in Value
    BY <1>3, <2>2, StoredType DEF Group3Not
  <2>4. QED
    BY <1>3, <2>1, <2>3, StepType DEF Group3Not, Ok, TypeOK, scratchVars
<1>4. QED
  BY <1>1, <1>2, <1>3

LEMMA IncDecStep ==
  ASSUME TypeOK, NEW kind, NEW op \in 0 .. 7, IncDec(kind, op)
  PROVE  TypeOK'
<1> DEFINE one == [lo |-> 1, hi |-> 0]
           x   == AluExecute(op, Operand(ax), one, i.wide, flags.CF)
<1>1. Fetched(kind)
  BY DEF IncDec
<1>2. flags.CF \in BOOLEAN /\ one \in Value /\ Operand(ax) \in Value /\ i.wide \in BOOLEAN
  BY <1>1, FetchedType DEF Flags, Value, Byte
<1>3. x.value \in Value /\ x.carry \in BOOLEAN
  BY <1>2, AluExecuteType
<1>4. AluFlags(op, Operand(ax), one, x.value, i.wide, x.carry) \in Flags
  BY <1>3, AluFlagsType
<1>5. flags' \in Flags
  BY <1>2, <1>4 DEF IncDec, Flags
<1>6. ax' \in Value
  BY <1>3, StoredType DEF IncDec
<1>7. QED
  BY <1>1, <1>2, <1>5, <1>6, StepType DEF IncDec, Ok, TypeOK

LEMMA ShiftStep == TypeOK /\ ShiftOne => TypeOK'
<1> SUFFICES ASSUME TypeOK, ShiftOne PROVE TypeOK'
  OBVIOUS
<1>1. Fetched("shift") /\ AND \in 0 .. 7
  BY DEF ShiftOne, AND
<1>2. CASE i.count = 0
  BY <1>1, <1>2, StepType DEF ShiftOne, Ok, TypeOK, scratchVars
<1>3. CASE i.count # 0
  <2> DEFINE x == Shift(i.op, Operand(ax), i.wide, i.count, flags.CF)
  <2>1. /\ i.wide \in BOOLEAN /\ i.count \in Byte /\ Operand(ax) \in Value
        /\ flags \in Flags /\ flags.CF \in BOOLEAN
    BY <1>1, FetchedType DEF Flags
  <2>2. x.value \in Value /\ x.carry \in BOOLEAN /\ x.overflow \in BOOLEAN
    BY <2>1, ShiftType
  <2>3. Stored(x.value) \in Value
    BY <2>2, StoredType
  <2>4. ax' \in Value
    BY <1>3, <2>3 DEF ShiftOne, TypeOK
  <2>5. [flags EXCEPT !.CF = x.carry, !.OF = x.overflow] \in Flags
    BY <2>1, <2>2 DEF Flags
  <2>6. AluFlags(AND, ax, ax, x.value, i.wide, x.carry) \in Flags
    BY <2>2, AluFlagsType
  <2>7. [AluFlags(AND, ax, ax, x.value, i.wide, x.carry) EXCEPT !.OF = x.overflow] \in Flags
    BY <2>2, <2>6 DEF Flags
  <2>8. flags' \in Flags
    BY <1>3, <2>5, <2>7 DEF ShiftOne
  <2>9. QED
    BY <1>1, <1>3, <2>4, <2>8, StepType DEF ShiftOne, Left, Ok, TypeOK, scratchVars
<1>4. QED
  BY <1>2, <1>3

LEMMA DecimalStep ==
  ASSUME TypeOK, NEW kind, NEW al \in Byte, Decimal(kind, al)
  PROVE  TypeOK'
<1>1. Fetched(kind) /\ AND \in 0 .. 7
  BY DEF Decimal, AND
<1>2. ax \in Value /\ flags \in Flags /\ flags.CF \in BOOLEAN /\ flags.AF \in BOOLEAN
  BY DEF TypeOK, Flags
<1>3. PICK c \in BOOLEAN :
        c = IF alu_preserve_cf THEN flags.CF ELSE HighAdjusted(ax.lo, flags)
  BY <1>2 DEF HighAdjusted
<1>4. PICK a \in BOOLEAN : a = LowAdjusted(ax.lo, flags)
  BY DEF LowAdjusted
<1>5. AluFlags(AND, ax, ax, [lo |-> al, hi |-> 0], FALSE, c) \in Flags
  BY AluFlagsType
<1>6. flags' = [AluFlags(AND, ax, ax, [lo |-> al, hi |-> 0], FALSE, c) EXCEPT !.AF = a]
  BY <1>3, <1>4, Zenon DEF Decimal
<1>7. flags' \in Flags
  BY <1>5, <1>6 DEF Flags
<1>8. ax' \in Value
  BY <1>2 DEF Decimal, Value
<1>9. QED
  BY <1>1, <1>2, <1>7, <1>8, StepType DEF Decimal, Ok, TypeOK

LEMMA AdjustedType ==
  ASSUME NEW al \in Byte, NEW f
  PROVE  DecimalAdd(al, f) \in Byte /\ DecimalSubtract(al, f) \in Byte
<1>1. Adjustment(al, f) \in Int
  BY DEF Adjustment
<1>2. al + Adjustment(al, f) \in Int /\ al - Adjustment(al, f) \in Int
  BY <1>1 DEF Byte
<1>3. QED
  BY <1>2, ByteOf DEF DecimalAdd, DecimalSubtract

\* AAM divides a byte by a byte that is not 0; AAD multiplies and adds bytes.
LEMMA DigitsType ==
  ASSUME NEW a \in Byte, NEW b \in Byte, NEW c \in Byte
  PROVE  /\ b # 0 => a % b \in Byte /\ a \div b \in Byte
         /\ (c * b + a) % 256 \in Byte
<1>1. a \in Int /\ 0 <= a /\ a <= 255 /\ b \in Int /\ 0 <= b /\ b <= 255 /\ c \in Int
  BY InByte
<1>2. ASSUME b # 0 PROVE a % b \in Byte /\ a \div b \in Byte
  <2>1. b > 0
    BY <1>1, <1>2
  <2>2. /\ a % b \in Int /\ 0 <= a % b /\ a % b < b
        /\ a \div b \in Int /\ a = b * (a \div b) + (a % b)
    BY <1>1, <2>1
  <2>3. \A m, n, q \in Int : n > 0 /\ m >= 0 /\ m < n /\ q < 0 => n * q + m < 0
    OBVIOUS
  <2>4. a \div b >= 0
    BY <1>1, <2>1, <2>2, <2>3
  <2>5. \A m, n, q \in Int : n > 0 /\ m >= 0 /\ q >= 0 => n * q + m >= q
    OBVIOUS
  <2>6. a \div b <= a
    BY <1>1, <2>1, <2>2, <2>4, <2>5
  <2>7. QED
    BY <1>1, <2>2, <2>4, <2>6, InByte
<1>3. \A x, y, z \in Int : x * y + z \in Int
  OBVIOUS
<1>4. c * b + a \in Int
  BY <1>1, <1>3
<1>5. QED
  BY <1>2, <1>4, ByteOf

LEMMA AamAadStep == TypeOK /\ (Aam \/ Aad) => TypeOK'
<1> SUFFICES ASSUME TypeOK, Aam \/ Aad PROVE TypeOK'
  OBVIOUS
<1>1. ax.lo \in Byte /\ ax.hi \in Byte /\ operand.lo \in Byte /\ flags \in Flags
  BY DEF TypeOK, Value
<1>2. CASE Aam
  <2>1. Fetched("aam")
    BY <1>2 DEF Aam
  <2>2. CASE operand.lo = 0
    BY <1>2, <2>1, <2>2, StepType DEF Aam, TypeOK, scratchVars
  <2>3. CASE operand.lo # 0
    <3>1. ax' = [lo |-> ax.lo % operand.lo, hi |-> ax.lo \div operand.lo]
      BY <1>2, <2>3 DEF Aam
    <3>2. ax' \in Value /\ ax'.lo \in Byte
      BY <1>1, <2>3, <3>1, DigitsType DEF Value
    <3>3. flags' \in Flags
      BY <1>1, <1>2, <2>3, <3>2, ByteResultFlagsType DEF Aam
    <3>4. QED
      BY <1>2, <2>1, <2>3, <3>2, <3>3, StepType DEF Aam, Ok, TypeOK, scratchVars
  <2>4. QED
    BY <2>2, <2>3
<1>3. CASE Aad
  <2>1. Fetched("aad")
    BY <1>3 DEF Aad
  <2>2. ax' \in Value /\ ax'.lo \in Byte
    <3>1. ax' = [lo |-> (ax.hi * operand.lo + ax.lo) % 256, hi |-> 0]
      BY <1>3 DEF Aad
    <3>2. (ax.hi * operand.lo + ax.lo) % 256 \in Byte /\ 0 \in Byte
      BY <1>1, DigitsType, InByte
    <3>3. QED
      BY <3>1, <3>2 DEF Value
  <2>3. flags' \in Flags
    BY <1>1, <1>3, <2>2, ByteResultFlagsType DEF Aad
  <2>4. QED
    BY <1>3, <2>1, <2>2, <2>3, StepType DEF Aad, Ok, TypeOK, scratchVars
<1>4. QED
  BY <1>2, <1>3

LEMMA MultipliedType ==
  ASSUME TypeOK, i \in Instructions, NEW x, x.ax \in Word16, x.carry \in BOOLEAN,
         Multiplied(x)
  PROVE  /\ ax' \in Value /\ flags' \in Flags /\ alu_operation' \in 0 .. 7
         /\ alu_preserve_cf' \in BOOLEAN /\ alu_saved_cf' \in BOOLEAN
         /\ status' \in {"ok", "interrupt", "invalid"}
<1> DEFINE f == AluFlags(AND, ax, ax, Pair(x.ax), i.wide, x.carry)
<1>1. ax' \in Value
  BY PairType DEF Multiplied
<1>2. f \in Flags
  BY AluFlagsType
<1>3. [f EXCEPT !.OF = x.carry] \in Flags
  BY <1>2 DEF Flags
<1>4. flags' \in Flags
  BY <1>3, PreservingType DEF Multiplied
<1>5. QED
  BY <1>1, <1>4 DEF Multiplied, TypeOK, Ok, AND

\* The registers that operands are made of.
LEMMA OperandTypes ==
  ASSUME TypeOK
  PROVE  /\ ax.lo \in Byte /\ operand.lo \in Byte
         /\ Word(ax) \in Word16 /\ Word(dx) \in Word16 /\ Word(operand) \in Word16
<1>1. ax \in Value /\ dx \in Value /\ operand \in Value
  BY DEF TypeOK
<1>2. QED
  BY <1>1, WordType DEF Value

LEMMA MultiplyStep ==
  ASSUME TypeOK, NEW kind, NEW bytes, NEW words, Multiply(kind, bytes, words),
         bytes.ax \in Word16, bytes.carry \in BOOLEAN,
         words.ax \in Word16, words.dx \in Word16, words.carry \in BOOLEAN
  PROVE  TypeOK'
<1>1. Fetched(kind)
  BY DEF Multiply
<1>2. i \in Instructions /\ dx \in Value
  BY <1>1, FetchedType DEF TypeOK
<1>3. CASE i.wide
  <2>1. Multiplied(words) /\ dx' = Pair(words.dx)
    BY <1>3 DEF Multiply
  <2>2. dx' \in Value
    BY <2>1, PairType
  <2>3. QED
    BY <1>1, <1>2, <2>1, <2>2, MultipliedType, StepType
<1>4. CASE ~i.wide
  <2>1. Multiplied(bytes) /\ dx' = dx
    BY <1>4 DEF Multiply
  <2>2. QED
    BY <1>1, <1>2, <2>1, MultipliedType, StepType
<1>5. QED
  BY <1>3, <1>4

LEMMA DividedType ==
  ASSUME TypeOK, NEW x, Divided(x), UNCHANGED <<flags, scratchVars>>,
         NEW kind, Fetched(kind), x.error \in BOOLEAN,
         ~x.error => x.q \in (IF i.wide THEN Word16 ELSE Byte)
                       /\ x.r \in (IF i.wide THEN Word16 ELSE Byte)
  PROVE  TypeOK'
<1>1. ax \in Value /\ dx \in Value
  BY DEF TypeOK
<1>2. ax' \in Value /\ dx' \in Value
  BY <1>1, PairType DEF Divided, Value
<1>3. status' \in {"ok", "interrupt", "invalid"}
  BY DEF Divided, Ok
<1>4. QED
  BY <1>2, <1>3, StepType DEF TypeOK, scratchVars

LEMMA DivideStep ==
  ASSUME TypeOK, NEW kind, NEW bytes, NEW words, Divide(kind, bytes, words),
         bytes.error \in BOOLEAN, words.error \in BOOLEAN,
         ~bytes.error => bytes.q \in Byte /\ bytes.r \in Byte,
         ~words.error => words.q \in Word16 /\ words.r \in Word16
  PROVE  TypeOK'
<1>1. Fetched(kind) /\ UNCHANGED <<flags, scratchVars>>
  BY DEF Divide
<1>2. CASE i.wide
  <2>1. Divided(words)
    BY <1>2 DEF Divide
  <2>2. QED
    BY <1>1, <1>2, <2>1, DividedType
<1>3. CASE ~i.wide
  <2>1. Divided(bytes)
    BY <1>3 DEF Divide
  <2>2. QED
    BY <1>1, <1>3, <2>1, DividedType
<1>4. QED
  BY <1>2, <1>3

LEMMA SignStep == TypeOK /\ (Cbw \/ Cwd) => TypeOK'
<1> SUFFICES ASSUME TypeOK, Cbw \/ Cwd PROVE TypeOK'
  OBVIOUS
<1>1. \A b : Sign(b) \in Byte
  BY DEF Sign, Byte
<1>2. ax \in Value /\ dx \in Value
  BY DEF TypeOK
<1>3. CASE Cbw
  <2>1. ax' \in Value
    BY <1>1, <1>2, <1>3 DEF Cbw, Value
  <2>2. QED
    BY <1>2, <1>3, <2>1, StepType DEF Cbw, Ok, TypeOK, scratchVars
<1>4. CASE Cwd
  <2>1. dx' \in Value
    BY <1>1, <1>4 DEF Cwd, Value
  <2>2. QED
    BY <1>2, <1>4, <2>1, StepType DEF Cwd, Ok, TypeOK, scratchVars
<1>5. QED
  BY <1>3, <1>4

LEMMA SetCarryStep ==
  ASSUME TypeOK, NEW kind, NEW c \in BOOLEAN, SetCarry(kind, c)
  PROVE  TypeOK'
<1>1. flags' \in Flags
  BY DEF SetCarry, TypeOK, Flags
<1>2. QED
  BY <1>1, StepType DEF SetCarry, Ok, TypeOK, scratchVars

(***************************************************************************)
(* Registers stay pairs of bytes and flags stay flags, in every opcode     *)
(* group of step.s that Arithmetic has.                                    *)
(***************************************************************************)
THEOREM TypeCorrect == Spec => []TypeOK
<1>1. TypeOK /\ [Next]_vars => TypeOK'
  <2> SUFFICES ASSUME TypeOK, [Next]_vars PROVE TypeOK'
    OBVIOUS
  <2>1. CASE UNCHANGED vars
    BY <2>1 DEF vars, scratchVars, TypeOK
  <2>2. CASE Alu
    BY <2>2, AluStep
  <2>3. CASE Test \/ Group3Test \/ Group3Not
    BY <2>3, TestStep
  <2>4. CASE IncDec("inc", ADD) \/ IncDec("dec", SUB)
    BY <2>4, IncDecStep DEF ADD, SUB
  <2>5. CASE ShiftOne
    BY <2>5, ShiftStep
  <2>6. CASE \/ Decimal("daa", DecimalAdd(ax.lo, flags))
             \/ Decimal("das", DecimalSubtract(ax.lo, flags))
    <3>1. ax.lo \in Byte
      BY DEF TypeOK, Value
    <3>2. QED
      BY <2>6, <3>1, AdjustedType, DecimalStep
  <2>7. CASE Aam \/ Aad
    BY <2>7, AamAadStep
  <2>8. CASE \/ Multiply("mul", MulU8(ax.lo, operand.lo), MulU16(Word(ax), Word(operand)))
             \/ Multiply("imul", MulS8(ax.lo, operand.lo), MulS16(Word(ax), Word(operand)))
    BY <2>8, OperandTypes, MultiplyType, MultiplyStep
  <2>9. CASE \/ Divide("div", DivU8(Word(ax), operand.lo),
                             DivU16(Word(dx), Word(ax), Word(operand)))
             \/ Divide("idiv", DivS8(Word(ax), operand.lo),
                              DivS16(Word(dx), Word(ax), Word(operand)))
    BY <2>9, OperandTypes, DivU8Type, DivU16Type, DivS8Type, DivS16Type, DivideStep
  <2>10. CASE Cbw \/ Cwd
    BY <2>10, SignStep
  <2>11. CASE \/ SetCarry("clc", FALSE) \/ SetCarry("stc", TRUE)
              \/ SetCarry("cmc", ~flags.CF)
    <3>1. PICK c \in BOOLEAN : c = ~flags.CF
      OBVIOUS
    <3>2. \/ SetCarry("clc", FALSE) \/ SetCarry("stc", TRUE) \/ SetCarry("cmc", c)
      BY <2>11, <3>1, Zenon
    <3>3. QED
      BY <3>2, SetCarryStep
  <2>12. QED
    BY <2>1, <2>2, <2>3, <2>4, <2>5, <2>6, <2>7, <2>8, <2>9, <2>10, <2>11 DEF Next
<1>2. QED
  BY <1>1, InitType, PTL DEF Spec

----------------------------------------------------------------------------
(***************************************************************************)
(* Sums and differences of numbers, and what the flags say of them.        *)
(***************************************************************************)
Width(wide)     == IF wide THEN W ELSE 256
Sizes           == {256, W}
Number(v, wide) == IF wide THEN Word(v) ELSE v.lo

LEMMA NumberIs ==
  ASSUME NEW v \in Value, NEW wide \in BOOLEAN
  PROVE  /\ Number(v, wide) \in Int /\ 0 <= Number(v, wide)
         /\ Number(v, wide) < Width(wide)
<1>1. PICK k \in Int, h \in Int :
        k = v.lo /\ h = v.hi /\ 0 <= k /\ k <= 255 /\ 0 <= h /\ h <= 255
  BY InByte DEF Value
<1>2. CASE wide
  <2>1. Number(v, wide) = 256 * h + k /\ Width(wide) = 65536
    BY <1>1, <1>2 DEF Number, Width, Word, W
  <2>2. 256 * h + k \in Int /\ 0 <= 256 * h + k /\ 256 * h + k < 65536
    BY <1>1
  <2>3. QED
    BY <2>1, <2>2
<1>3. CASE ~wide
  BY <1>1, <1>3 DEF Number, Width
<1>4. QED
  BY <1>2, <1>3

LEMMA SignIs ==
  ASSUME NEW v \in Value, NEW wide \in BOOLEAN, wide \/ v.hi = 0
  PROVE  /\ Minus(v, wide) <=> Number(v, wide) >= Width(wide) \div 2
         /\ v.lo = 0 /\ v.hi = 0 <=> Number(v, wide) = 0
<1>1. PICK k \in Int, h \in Int :
        k = v.lo /\ h = v.hi /\ 0 <= k /\ k <= 255 /\ 0 <= h /\ h <= 255
  BY InByte DEF Value
<1>2. CASE wide
  <2>1. Number(v, wide) = 256 * h + k /\ Width(wide) \div 2 = 32768
    BY <1>1, <1>2 DEF Number, Width, Word, W
  <2>2. Minus(v, wide) <=> h >= 128
    BY <1>1, <1>2 DEF Minus, BitSeven, SignByte
  <2>3. (h >= 128 <=> 256 * h + k >= 32768) /\ (k = 0 /\ h = 0 <=> 256 * h + k = 0)
    BY <1>1
  <2>4. QED
    BY <1>1, <2>1, <2>2, <2>3
<1>3. CASE ~wide
  <2>1. Number(v, wide) = k /\ Width(wide) \div 2 = 128
    BY <1>1, <1>3 DEF Number, Width
  <2>2. Minus(v, wide) <=> k >= 128
    BY <1>1, <1>3 DEF Minus, BitSeven, SignByte
  <2>3. QED
    BY <1>1, <1>3, <2>1, <2>2
<1>4. QED
  BY <1>2, <1>3

LEMMA NumIs == \A c \in BOOLEAN : Num(c) \in Int /\ 0 <= Num(c) /\ Num(c) <= 1
  BY DEF Num

AdcFollows(a, b, c, x) ==
  /\ x.byte = (a + b + Num(c)) % 256
  /\ x.carry <=> a + b + Num(c) > 255
  /\ x.carry \in BOOLEAN
  /\ x.byte \in Int

LEMMA AdcIs ==
  ASSUME NEW a \in Byte, NEW b \in Byte, NEW c \in BOOLEAN
  PROVE  AdcFollows(a, b, c, Adc(a, b, c))
<1>1. PICK t \in Int : t = a + b + Num(c)
  BY NumIs, InByte
<1>2. Adc(a, b, c) = [byte |-> t % 256, carry |-> t > 255]
  BY <1>1, Zenon DEF Adc
<1>3. Adc(a, b, c).byte = t % 256 /\ t % 256 \in Int
  BY <1>2
<1>4. Adc(a, b, c).carry <=> t > 255
  <2>1. CASE t > 255
    <3>1. Adc(a, b, c) = [byte |-> t % 256, carry |-> TRUE]
      BY <1>2, <2>1, Zenon
    <3>2. QED
      BY <2>1, <3>1
  <2>2. CASE ~(t > 255)
    <3>1. (t > 255) = FALSE
      BY <2>2
    <3>2. Adc(a, b, c) = [byte |-> t % 256, carry |-> FALSE]
      BY <1>2, <3>1, Zenon
    <3>3. QED
      BY <2>2, <3>2
  <2>3. QED
    BY <2>1, <2>2
<1>5. Adc(a, b, c).carry \in BOOLEAN
  BY <1>2
<1>6. QED
  BY <1>1, <1>3, <1>4, <1>5, Zenon DEF AdcFollows

LEMMA SumIs ==
  ASSUME NEW l \in Value, NEW r \in Value, NEW wide \in BOOLEAN, NEW c \in BOOLEAN
  PROVE  /\ Number(AluAdd(l, r, wide, c).value, wide)
              = (Number(l, wide) + Number(r, wide) + Num(c)) % Width(wide)
         /\ AluAdd(l, r, wide, c).carry
              <=> Number(l, wide) + Number(r, wide) + Num(c) >= Width(wide)
         /\ AluAdd(l, r, wide, c).value.lo = (l.lo + r.lo + Num(c)) % 256
         /\ ~wide => AluAdd(l, r, wide, c).value.hi = 0
<1>1. PICK x : x = AluAdd(l, r, wide, c)
  OBVIOUS
<1>2. PICK a \in Int, h \in Int :
        a = l.lo /\ h = l.hi /\ 0 <= a /\ a <= 255 /\ 0 <= h /\ h <= 255
  BY InByte DEF Value
<1>3. PICK b \in Int, g \in Int :
        b = r.lo /\ g = r.hi /\ 0 <= b /\ b <= 255 /\ 0 <= g /\ g <= 255
  BY InByte DEF Value
<1>4. PICK d \in Int : d = Num(c) /\ 0 <= d /\ d <= 1
  BY NumIs
<1>5. l.lo \in Byte /\ l.hi \in Byte /\ r.lo \in Byte /\ r.hi \in Byte
  BY DEF Value
<1>6. AdcFollows(l.lo, r.lo, c, Adc(l.lo, r.lo, c))
  BY <1>5, AdcIs, Zenon
<1>7. PICK low \in Int, m \in BOOLEAN :
        low = Adc(l.lo, r.lo, c).byte /\ m = Adc(l.lo, r.lo, c).carry
  BY <1>6, Zenon DEF AdcFollows
<1>8. PICK t \in Int, k \in Int : t = a + b + d /\ k = Num(m)
  BY NumIs
<1>9. low = t % 256 /\ (m <=> t > 255)
  <2>1. /\ Adc(l.lo, r.lo, c).byte = (l.lo + r.lo + Num(c)) % 256
        /\ Adc(l.lo, r.lo, c).carry <=> l.lo + r.lo + Num(c) > 255
    BY <1>6, Zenon DEF AdcFollows
  <2>2. l.lo + r.lo + Num(c) = t
    BY <1>2, <1>3, <1>4, <1>8
  <2>3. QED
    BY <1>7, <2>1, <2>2
<1>10. k = IF t > 255 THEN 1 ELSE 0
  BY <1>8, <1>9 DEF Num
<1>11. low = (l.lo + r.lo + Num(c)) % 256
  BY <1>2, <1>3, <1>4, <1>8, <1>9
<1>12. CASE ~wide
  <2>1. x = [value |-> [lo |-> low, hi |-> 0], carry |-> m]
    BY <1>1, <1>7, <1>12, Zenon DEF AluAdd
  <2>2. Number(l, wide) + Number(r, wide) + Num(c) = t /\ Width(wide) = 256
    BY <1>2, <1>3, <1>4, <1>8, <1>12, Zenon DEF Number, Width
  <2>3. Number(x.value, wide) = low /\ x.value.lo = low /\ x.value.hi = 0 /\ x.carry = m
    BY <1>12, <2>1 DEF Number
  <2>4. m <=> t >= 256
    BY <1>9
  <2>5. QED
    BY <1>1, <1>9, <1>11, <1>12, <2>2, <2>3, <2>4
<1>13. CASE wide
  <2>1. AdcFollows(l.hi, r.hi, m, Adc(l.hi, r.hi, m))
    BY <1>7, <1>5, AdcIs, Zenon
  <2>2. PICK high \in Int, o \in BOOLEAN :
          high = Adc(l.hi, r.hi, m).byte /\ o = Adc(l.hi, r.hi, m).carry
    BY <2>1, Zenon DEF AdcFollows
  <2>3. PICK z \in Int, j \in Int : z = h + g + k /\ j = IF z > 255 THEN 1 ELSE 0
    OBVIOUS
  <2>4. high = z % 256 /\ (o <=> z > 255)
    <3>1. /\ Adc(l.hi, r.hi, m).byte = (l.hi + r.hi + Num(m)) % 256
          /\ Adc(l.hi, r.hi, m).carry <=> l.hi + r.hi + Num(m) > 255
      BY <2>1, Zenon DEF AdcFollows
    <3>2. l.hi + r.hi + Num(m) = z
      BY <1>2, <1>3, <1>8, <2>3
    <3>3. QED
      BY <2>2, <3>1, <3>2
  <2>5. PICK u \in Int, v \in Int : u = t % 256 /\ v = z % 256
    OBVIOUS
  <2>6. 0 <= t /\ t <= 511
    BY <1>2, <1>3, <1>4, <1>8
  <2>7. u = t - 256 * k /\ 0 <= u /\ u <= 255
    BY <1>10, <2>6, <2>5
  <2>8. 0 <= z /\ z <= 511
    BY <1>2, <1>3, <1>10, <2>3
  <2>9. v = z - 256 * j /\ 0 <= v /\ v <= 255
    BY <2>3, <2>5, <2>8
  <2>10. PICK n \in Int : n = (256 * h + a) + (256 * g + b) + d
    OBVIOUS
  <2>11. n = 65536 * j + (256 * v + u)
    BY <1>8, <2>3, <2>7, <2>9, <2>10
  <2>12. n % 65536 = 256 * v + u
    BY <2>3, <2>7, <2>9, <2>11
  <2>13. z > 255 <=> n >= 65536
    BY <2>3, <2>7, <2>9, <2>11
  <2>14. x = [value |-> [lo |-> low, hi |-> high], carry |-> o]
    BY <1>1, <1>7, <1>13, <2>2, Zenon DEF AluAdd
  <2>15. Number(l, wide) + Number(r, wide) + Num(c) = n /\ Width(wide) = 65536
    BY <1>2, <1>3, <1>4, <1>13, <2>10 DEF Number, Width, Word, W
  <2>16. Number(x.value, wide) = 256 * v + u
    BY <1>9, <1>13, <2>4, <2>5, <2>14 DEF Number, Word
  <2>17. x.value.lo = low /\ x.carry = o
    BY <2>14
  <2>18. Number(x.value, wide) = n % Width(wide)
    BY <2>12, <2>15, <2>16
  <2>19. x.carry <=> n >= Width(wide)
    BY <2>4, <2>13, <2>15, <2>17
  <2>20. QED
    <3>1. Number(x.value, wide) = (Number(l, wide) + Number(r, wide) + Num(c)) % Width(wide)
      BY <2>15, <2>18
    <3>2. x.carry <=> Number(l, wide) + Number(r, wide) + Num(c) >= Width(wide)
      BY <2>15, <2>19
    <3>3. x.value.lo = (l.lo + r.lo + Num(c)) % 256
      BY <1>11, <2>17
    <3>4. QED
      BY <1>1, <1>13, <3>1, <3>2, <3>3, Zenon
<1>14. QED
  BY <1>12, <1>13

\* A difference is the sum with the complement.
Complement(v) == [lo |-> 255 - v.lo, hi |-> 255 - v.hi]

LEMMA ComplementIs ==
  ASSUME NEW v \in Value, NEW wide \in BOOLEAN
  PROVE  /\ Complement(v) \in Value
         /\ Number(Complement(v), wide) = Width(wide) - 1 - Number(v, wide)
<1>1. PICK k \in Int, h \in Int :
        k = v.lo /\ h = v.hi /\ 0 <= k /\ k <= 255 /\ 0 <= h /\ h <= 255
  BY InByte DEF Value
<1>2. Complement(v) = [lo |-> 255 - k, hi |-> 255 - h]
  BY <1>1, Zenon DEF Complement
<1>3. 255 - k \in Byte /\ 255 - h \in Byte
  BY <1>1 DEF Byte
<1>4. Complement(v) \in Value
  BY <1>2, <1>3 DEF Value
<1>5. CASE wide
  <2>1. Number(Complement(v), wide) = 256 * (255 - h) + (255 - k)
    BY <1>2, <1>5 DEF Number, Word
  <2>2. Width(wide) = 65536 /\ Number(v, wide) = 256 * h + k
    BY <1>1, <1>5 DEF Number, Word, Width, W
  <2>3. 256 * (255 - h) + (255 - k) = 65536 - 1 - (256 * h + k)
    BY <1>1
  <2>4. QED
    BY <1>4, <2>1, <2>2, <2>3
<1>6. CASE ~wide
  <2>1. Number(Complement(v), wide) = 255 - k /\ Width(wide) = 256 /\ Number(v, wide) = k
    BY <1>1, <1>2, <1>6 DEF Number, Width
  <2>2. QED
    BY <1>1, <1>4, <2>1
<1>7. QED
  BY <1>5, <1>6

LEMMA WrappedDifference ==
  ASSUME NEW n \in Int, NEW m \in Int, NEW d \in Int, NEW s \in Sizes
  PROVE  /\ (n + (s - 1 - m) + (1 - d)) % s = (n - m - d) % s
         /\ n + (s - 1 - m) + (1 - d) >= s <=> ~(n - m - d < 0)
<1>1. PICK t \in Int : t = n - m - d
  BY DEF Sizes, W
<1>2. n + (s - 1 - m) + (1 - d) = t + s
  BY <1>1 DEF Sizes, W
<1>3. (t + s) % s = t % s
  BY DEF Sizes, W
<1>4. t + s >= s <=> ~(t < 0)
  BY DEF Sizes, W
<1>5. QED
  BY <1>1, <1>2, <1>3, <1>4 DEF Sizes, W

LEMMA DifferenceIs ==
  ASSUME NEW l \in Value, NEW r \in Value, NEW wide \in BOOLEAN, NEW b \in BOOLEAN
  PROVE  /\ Number(AluSubtract(l, r, wide, ~b).value, wide)
              = (Number(l, wide) - Number(r, wide) - Num(b)) % Width(wide)
         /\ AluSubtract(l, r, wide, ~b).carry
              <=> Number(l, wide) - Number(r, wide) - Num(b) < 0
         /\ AluSubtract(l, r, wide, ~b).value.lo = (l.lo - r.lo - Num(b)) % 256
         /\ ~wide => AluSubtract(l, r, wide, ~b).value.hi = 0
<1> DEFINE x == AluSubtract(l, r, wide, ~b)
           n == Number(l, wide) - Number(r, wide) - Num(b)
           y == AluAdd(l, Complement(r), wide, ~b)
<1>1. x.value = y.value /\ (x.carry <=> ~y.carry)
  BY DEF AluSubtract, AluAdd, Sbc, Complement
<1>2. PICK c \in BOOLEAN : c = ~b
  OBVIOUS
<1>3. Num(c) = 1 - Num(b)
  <2>1. CASE b
    <3>1. Num(c) = 0 /\ Num(b) = 1
      BY <1>2, <2>1, Zenon DEF Num
    <3>2. QED
      BY <3>1
  <2>2. CASE ~b
    <3>1. Num(c) = 1 /\ Num(b) = 0
      BY <1>2, <2>2, Zenon DEF Num
    <3>2. QED
      BY <3>1
  <2>3. QED
    BY <2>1, <2>2
<1>4. y = AluAdd(l, Complement(r), wide, c)
  BY <1>2, Zenon
<1> HIDE DEF x, n, y
<1>5. PICK p \in Int, q \in Int, d \in Int, s \in Sizes :
        p = Number(l, wide) /\ q = Number(r, wide) /\ d = Num(b) /\ s = Width(wide)
  BY NumberIs, NumIs DEF Width, Sizes
<1>6. /\ Number(y.value, wide) = (p + (s - 1 - q) + (1 - d)) % s
      /\ y.carry <=> p + (s - 1 - q) + (1 - d) >= s
      /\ y.value.lo = (l.lo + Complement(r).lo + (1 - d)) % 256
      /\ ~wide => y.value.hi = 0
  <2>1. Complement(r) \in Value /\ Number(Complement(r), wide) = s - 1 - q
    BY <1>5, ComplementIs
  <2>2. PICK m : m = Number(l, wide) + Number(Complement(r), wide) + Num(c)
    OBVIOUS
  <2>3. m = p + (s - 1 - q) + (1 - d)
    BY <1>3, <1>5, <2>1, <2>2
  <2>4. /\ Number(y.value, wide) = m % Width(wide)
        /\ y.carry <=> m >= Width(wide)
        /\ y.value.lo = (l.lo + Complement(r).lo + Num(c)) % 256
        /\ ~wide => y.value.hi = 0
    BY <1>4, <2>1, <2>2, SumIs
  <2>5. QED
    BY <1>3, <1>5, <2>3, <2>4
<1>7. PICK e \in Int, f \in Int : e = l.lo /\ f = r.lo
  BY InByte DEF Value
<1>8. Complement(r).lo = 256 - 1 - f
  BY <1>7 DEF Complement
<1>9. (e + (256 - 1 - f) + (1 - d)) % 256 = (e - f - d) % 256
  BY WrappedDifference
<1>10. /\ (p + (s - 1 - q) + (1 - d)) % s = (p - q - d) % s
       /\ p + (s - 1 - q) + (1 - d) >= s <=> ~(p - q - d < 0)
  BY WrappedDifference
<1>11. QED
  <2>1. n = p - q - d
    BY <1>5 DEF n
  <2>2. x.value.lo = (l.lo - r.lo - Num(b)) % 256
    BY <1>1, <1>5, <1>6, <1>7, <1>8, <1>9
  <2>3. x.carry <=> n < 0
    <3>1. y.carry <=> ~(p - q - d < 0)
      BY <1>6, <1>10
    <3>2. n < 0 <=> p - q - d < 0
      BY <2>1
    <3>3. QED
      BY <1>1, <3>1, <3>2
  <2>4. Number(x.value, wide) = n % Width(wide) /\ (~wide => x.value.hi = 0)
    BY <1>1, <1>5, <1>6, <1>10, <2>1
  <2>5. QED
    BY <2>2, <2>3, <2>4 DEF x, n

\* The auxiliary carry, from the digits: 16 q + s is a byte's lower five bits.
LEMMA FifthBit ==
  ASSUME NEW a \in Int, 0 <= a, a <= 255
  PROVE  \E p \in Int, q \in Int, s \in Int :
           /\ a = 32 * p + 16 * q + s /\ 0 <= q /\ q <= 1 /\ 0 <= s /\ s <= 15
           /\ (a \div 16) % 2 = q /\ a % 16 = s
<1>1. PICK e \in Int, s \in Int : e = a \div 16 /\ s = a % 16
  OBVIOUS
<1>2. a = 16 * e + s /\ 0 <= s /\ s <= 15
  BY <1>1
<1>3. PICK p \in Int, q \in Int : p = e \div 2 /\ q = e % 2
  OBVIOUS
<1>4. e = 2 * p + q /\ 0 <= q /\ q <= 1
  BY <1>3
<1>5. a = 32 * p + 16 * q + s
  BY <1>2, <1>4
<1>6. QED
  BY <1>1, <1>2, <1>3, <1>4, <1>5

\* t is a sum, or a difference, of bytes; u is the sum of their lower digits.
LEMMA DigitCarry ==
  ASSUME NEW p \in Int, NEW q \in Int, NEW k \in Int, NEW u \in Int,
         NEW t \in Int, t = 32 * p + 16 * q + u, 0 <= u - 16 * k, u - 16 * k <= 15
  PROVE  ((t % 256) \div 16) % 2 = (q + k) % 2
<1>1. PICK e \in Int : t = 256 * e + (t % 256)
  <2>1. t = 256 * (t \div 256) + (t % 256) /\ t \div 256 \in Int
    OBVIOUS
  <2>2. QED
    BY <2>1
<1>2. PICK x \in Int : x = t % 256
  OBVIOUS
<1>3. x = 16 * (2 * p - 16 * e + q + k) + (u - 16 * k)
  BY <1>1, <1>2
<1>4. x \div 16 = 2 * p - 16 * e + q + k
  BY <1>3
<1>5. (2 * p - 16 * e + q + k) % 2 = (q + k) % 2
  OBVIOUS
<1>6. QED
  BY <1>2, <1>4, <1>5

LEMMA AuxIs ==
  ASSUME NEW a \in Int, 0 <= a, a <= 255, NEW b \in Int, 0 <= b, b <= 255,
         NEW d \in Int, 0 <= d, d <= 1
  PROVE  /\ AuxCarry(a, b, (a + b + d) % 256) <=> (a % 16) + (b % 16) + d > 15
         /\ AuxCarry(a, b, (a - b - d) % 256) <=> (a % 16) - (b % 16) - d < 0
<1>1. PICK p \in Int, q \in Int, s \in Int :
        /\ a = 32 * p + 16 * q + s /\ 0 <= q /\ q <= 1 /\ 0 <= s /\ s <= 15
        /\ (a \div 16) % 2 = q /\ a % 16 = s
  BY FifthBit
<1>2. PICK p2 \in Int, q2 \in Int, s2 \in Int :
        /\ b = 32 * p2 + 16 * q2 + s2 /\ 0 <= q2 /\ q2 <= 1 /\ 0 <= s2 /\ s2 <= 15
        /\ (b \div 16) % 2 = q2 /\ b % 16 = s2
  BY FifthBit
<1>3. (q + q2 + ((((a + b + d) % 256) \div 16) % 2)) % 2 = 1 <=> s + s2 + d > 15
  <2>1. PICK k \in Int : k = IF s + s2 + d > 15 THEN 1 ELSE 0
    OBVIOUS
  <2>2. PICK t \in Int, u \in Int, m \in Int, j \in Int :
          t = a + b + d /\ u = s + s2 + d /\ m = p + p2 /\ j = q + q2
    OBVIOUS
  <2>3. t = 32 * m + 16 * j + u /\ 0 <= u - 16 * k /\ u - 16 * k <= 15
    BY <1>1, <1>2, <2>1, <2>2
  <2>4. ((t % 256) \div 16) % 2 = (j + k) % 2
    BY <2>3, DigitCarry
  <2>5. (j + ((j + k) % 2)) % 2 = 1 <=> k = 1
    BY <2>1
  <2>6. QED
    BY <2>1, <2>2, <2>4, <2>5
<1>4. (q + q2 + ((((a - b - d) % 256) \div 16) % 2)) % 2 = 1 <=> s - s2 - d < 0
  <2>1. PICK k \in Int : k = IF s - s2 - d < 0 THEN -1 ELSE 0
    OBVIOUS
  <2>2. PICK t \in Int, u \in Int, m \in Int, j \in Int :
          t = a - b - d /\ u = s - s2 - d /\ m = p - p2 /\ j = q - q2
    OBVIOUS
  <2>3. t = 32 * m + 16 * j + u /\ 0 <= u - 16 * k /\ u - 16 * k <= 15
    BY <1>1, <1>2, <2>1, <2>2
  <2>4. ((t % 256) \div 16) % 2 = (j + k) % 2
    BY <2>3, DigitCarry
  <2>5. (q + q2 + ((j + k) % 2)) % 2 = 1 <=> k = -1
    BY <2>1, <2>2
  <2>6. QED
    BY <2>1, <2>2, <2>4, <2>5
<1>5. QED
  BY <1>1, <1>2, <1>3, <1>4 DEF AuxCarry, Bit4

\* The overflow, from the signs: a and b are numbers below s, x and y the same as
\* signed numbers, d is the carry.
Signs(s, a, b, d, h, x, y) ==
  /\ s \in Sizes /\ a \in Int /\ 0 <= a /\ a < s /\ b \in Int /\ 0 <= b /\ b < s
  /\ d \in Int /\ 0 <= d /\ d <= 1
  /\ h \in Int /\ h = s \div 2
  /\ x \in Int /\ x = (IF a >= h THEN a - s ELSE a)
  /\ y \in Int /\ y = (IF b >= h THEN b - s ELSE b)
SumOverflows(s, a, b, d, h, x, y) ==
  ~((a + b + d) % s >= h <=> a >= h) /\ (a >= h <=> b >= h)
    <=> ~(-h <= x + y + d /\ x + y + d < h)
DifferenceOverflows(s, a, b, d, h, x, y) ==
  ~((a - b - d) % s >= h <=> a >= h) /\ ~(a >= h <=> b >= h)
    <=> ~(-h <= x - y - d /\ x - y - d < h)

LEMMA OverflowIs ==
  ASSUME NEW s, NEW a, NEW b, NEW d, NEW h, NEW x, NEW y, Signs(s, a, b, d, h, x, y)
  PROVE  SumOverflows(s, a, b, d, h, x, y) /\ DifferenceOverflows(s, a, b, d, h, x, y)
<1> USE DEF Signs
<1>1. s = 2 * h /\ h > 0
  BY DEF Sizes, W
<1>2. PICK j \in Int : j = IF a + b + d >= s THEN 1 ELSE 0
  BY DEF Sizes, W
<1>3. PICK k \in Int : k = IF a - b - d < 0 THEN 1 ELSE 0
  BY DEF Sizes, W
<1>4. \A n \in Int : 0 <= n /\ n < s => n % s = n
  BY DEF Sizes, W
<1>5. (a + b + d) % s = a + b + d - j * s
  <2>1. CASE a + b + d >= s
    <3>1. (a + b + d) % s = (a + b + d - s) % s
      BY DEF Sizes, W
    <3>2. 0 <= a + b + d - s /\ a + b + d - s < s
      BY <2>1 DEF Sizes, W
    <3>3. QED
      BY <1>2, <1>4, <2>1, <3>1, <3>2 DEF Sizes, W
  <2>2. CASE ~(a + b + d >= s)
    BY <1>2, <1>4, <2>2 DEF Sizes, W
  <2>3. QED
    BY <2>1, <2>2 DEF Sizes, W
<1>6. (a - b - d) % s = a - b - d + k * s
  <2>1. CASE a - b - d < 0
    <3>1. (a - b - d) % s = (a - b - d + s) % s
      BY DEF Sizes, W
    <3>2. 0 <= a - b - d + s /\ a - b - d + s < s
      BY <2>1 DEF Sizes, W
    <3>3. QED
      BY <1>3, <1>4, <2>1, <3>1, <3>2 DEF Sizes, W
  <2>2. CASE ~(a - b - d < 0)
    BY <1>3, <1>4, <2>2 DEF Sizes, W
  <2>3. QED
    BY <2>1, <2>2 DEF Sizes, W
<1>7. QED
  BY <1>1, <1>2, <1>3, <1>5, <1>6 DEF Sizes, W, SumOverflows, DifferenceOverflows

(***************************************************************************)
(* The flags of a sum and of a difference.                                 *)
(***************************************************************************)
High(v, wide) == Number(v, wide) >= Width(wide) \div 2

FlagsFollow(op, l, r, v, wide, carry, f) ==
  /\ f.CF = carry
  /\ f.ZF <=> Number(v, wide) = 0
  /\ f.SF <=> High(v, wide)
  /\ f.AF <=> AuxCarry(l.lo, r.lo, v.lo)
  /\ op \in {ADD, ADC} =>
       (f.OF <=> ~(High(v, wide) <=> High(l, wide)) /\ (High(l, wide) <=> High(r, wide)))
  /\ op \notin {ADD, ADC} =>
       (f.OF <=> ~(High(v, wide) <=> High(l, wide)) /\ ~(High(l, wide) <=> High(r, wide)))

LEMMA FlagsAre ==
  ASSUME NEW op \in 0 .. 7, op \notin Logical, NEW l \in Value, NEW r \in Value,
         NEW v \in Value, NEW wide \in BOOLEAN, NEW carry \in BOOLEAN,
         wide \/ (l.hi = 0 /\ r.hi = 0 /\ v.hi = 0)
  PROVE  FlagsFollow(op, l, r, v, wide, carry, AluFlags(op, l, r, v, wide, carry))
<1> DEFINE f == AluFlags(op, l, r, v, wide, carry)
<1>1. PICK ml \in BOOLEAN, mr \in BOOLEAN, mv \in BOOLEAN :
        ml = Minus(l, wide) /\ mr = Minus(r, wide) /\ mv = Minus(v, wide)
  <2>1. Minus(l, wide) \in BOOLEAN /\ Minus(r, wide) \in BOOLEAN /\ Minus(v, wide) \in BOOLEAN
    BY DEF Minus, BitSeven, SignByte, Value, Byte
  <2>2. QED
    BY <2>1, Zenon
<1>2. (ml <=> High(l, wide)) /\ (mr <=> High(r, wide)) /\ (mv <=> High(v, wide))
  BY <1>1, SignIs DEF High
<1>3. v.lo = 0 /\ v.hi = 0 <=> Number(v, wide) = 0
  BY SignIs
<1>4. PICK o \in BOOLEAN, x \in BOOLEAN, z \in BOOLEAN :
        /\ o = (op \notin Logical /\ Overflow(op, l, r, v, wide))
        /\ x = (op \notin Logical /\ AuxCarry(l.lo, r.lo, v.lo))
        /\ z = (v.lo = 0 /\ v.hi = 0)
  OBVIOUS
<1>5. f = [CF |-> carry, ZF |-> z, SF |-> mv, PF |-> EvenParity(v.lo), AF |-> x, OF |-> o]
  BY <1>1, <1>4, Zenon DEF AluFlags
<1> HIDE DEF f
<1>6. f.SF = mv /\ f.CF = carry /\ f.ZF = z /\ f.AF = x /\ f.OF = o
  BY <1>5
<1>7. f.AF <=> AuxCarry(l.lo, r.lo, v.lo)
  BY <1>4, <1>6
<1>8. op \in {ADD, ADC} => (f.OF <=> ~(mv <=> ml) /\ (ml <=> mr))
  <2> SUFFICES ASSUME op \in {ADD, ADC} PROVE f.OF <=> ~(mv <=> ml) /\ (ml <=> mr)
    OBVIOUS
  <2>1. (op \in {ADD, ADC}) = TRUE
    OBVIOUS
  <2>2. o = (op \notin Logical /\ mv # ml /\ TRUE = (ml = mr))
    BY <1>1, <1>4, <2>1, Zenon DEF Overflow
  <2>3. QED
    BY <1>6, <2>2
<1>9. op \notin {ADD, ADC} => (f.OF <=> ~(mv <=> ml) /\ ~(ml <=> mr))
  <2> SUFFICES ASSUME op \notin {ADD, ADC} PROVE f.OF <=> ~(mv <=> ml) /\ ~(ml <=> mr)
    OBVIOUS
  <2>1. (op \in {ADD, ADC}) = FALSE
    OBVIOUS
  <2>2. o = (op \notin Logical /\ mv # ml /\ FALSE = (ml = mr))
    BY <1>1, <1>4, <2>1, Zenon DEF Overflow
  <2>3. QED
    BY <1>6, <2>2
<1>10. QED
  <2>1. FlagsFollow(op, l, r, v, wide, carry, f)
    BY <1>2, <1>3, <1>4, <1>6, <1>7, <1>8, <1>9 DEF FlagsFollow
  <2>2. QED
    BY <2>1 DEF f

\* A sum or difference v and its flags f follow from n, of the numbers, m, of
\* the signed numbers, and e, of the lowest digits.
SumFollows(v, wide, s, f, n, m, e) ==
  /\ Number(v, wide) = n % s
  /\ f.CF <=> n \notin 0 .. s - 1
  /\ f.OF <=> ~Representable(m, s)
  /\ f.AF <=> e \notin 0 .. 15
  /\ f.ZF <=> n % s = 0
  /\ f.SF <=> n % s >= s \div 2

SignedNumber(v, wide) == SignedOf(Number(v, wide), Width(wide))

LEMMA SumFlags ==
  ASSUME NEW op \in {ADD, ADC}, NEW l \in Value, NEW r \in Value, NEW wide \in BOOLEAN,
         NEW c \in BOOLEAN, wide \/ (l.hi = 0 /\ r.hi = 0)
  PROVE  SumFollows(AluAdd(l, r, wide, c).value, wide, Width(wide),
           AluFlags(op, l, r, AluAdd(l, r, wide, c).value, wide, AluAdd(l, r, wide, c).carry),
           Number(l, wide) + Number(r, wide) + Num(c),
           SignedNumber(l, wide) + SignedNumber(r, wide) + Num(c),
           (l.lo % 16) + (r.lo % 16) + Num(c))
<1>1. PICK a \in Int, b \in Int, d \in Int, s \in Sizes :
        a = Number(l, wide) /\ b = Number(r, wide) /\ d = Num(c) /\ s = Width(wide)
  BY NumberIs, NumIs DEF Width, Sizes
<1>2. PICK v \in Value, carry \in BOOLEAN : v = AluAdd(l, r, wide, c).value /\ carry = AluAdd(l, r, wide, c).carry
  <2>1. AluAdd(l, r, wide, c).value \in Value /\ AluAdd(l, r, wide, c).carry \in BOOLEAN
    BY AluAddType
  <2>2. QED
    BY <2>1, Zenon
<1>3. PICK f : f = AluFlags(op, l, r, v, wide, carry)
  OBVIOUS
<1>4. /\ Number(v, wide) = (a + b + d) % s /\ (carry <=> a + b + d >= s)
      /\ v.lo = (l.lo + r.lo + d) % 256 /\ (~wide => v.hi = 0)
  BY <1>1, <1>2, SumIs
<1>5. op \in 0 .. 7 /\ op \notin Logical
  BY DEF ADD, ADC, Logical, OR, AND, XOR
<1>6. PICK h \in Int : h = s \div 2
  <2>1. s \div 2 \in Int
    BY DEF Sizes, W
  <2>2. QED
    BY <2>1, Zenon
<1>7. PICK x \in Int, y \in Int :
        h = s \div 2 /\ x = (IF a >= h THEN a - s ELSE a) /\ y = (IF b >= h THEN b - s ELSE b)
  <2>1. (IF a >= h THEN a - s ELSE a) \in Int /\ (IF b >= h THEN b - s ELSE b) \in Int
    BY DEF Sizes, W
  <2>2. QED
    BY <1>6, <2>1, Zenon
<1>8. 0 <= a /\ a < s /\ 0 <= b /\ b < s /\ 0 <= d /\ d <= 1
  BY <1>1, NumberIs, NumIs
<1>9. /\ f.CF = carry
      /\ f.ZF <=> (a + b + d) % s = 0
      /\ f.SF <=> (a + b + d) % s >= h
      /\ f.AF <=> AuxCarry(l.lo, r.lo, v.lo)
      /\ f.OF <=> ~((a + b + d) % s >= h <=> a >= h) /\ (a >= h <=> b >= h)
  <2>1. wide \/ (l.hi = 0 /\ r.hi = 0 /\ v.hi = 0)
    BY <1>4
  <2>2. op \in {ADD, ADC} <=> TRUE
    OBVIOUS
  <2>3. FlagsFollow(op, l, r, v, wide, carry, f)
    BY <1>5, <1>3, <2>1, FlagsAre
  <2>4. /\ f.CF = carry /\ (f.ZF <=> Number(v, wide) = 0) /\ (f.SF <=> High(v, wide))
        /\ f.AF <=> AuxCarry(l.lo, r.lo, v.lo)
        /\ f.OF <=> ~(High(v, wide) <=> High(l, wide)) /\ (High(l, wide) <=> High(r, wide))
    BY <2>2, <2>3 DEF FlagsFollow
  <2>5. QED
    BY <1>1, <1>4, <1>7, <2>4 DEF High
<1>10. f.OF <=> ~(-h <= x + y + d /\ x + y + d < h)
  <2>1. Signs(s, a, b, d, h, x, y)
    BY <1>7, <1>8, Zenon DEF Signs
  <2>2. SumOverflows(s, a, b, d, h, x, y)
    BY <2>1, OverflowIs, Zenon
  <2>3. QED
    BY <1>9, <2>2, Zenon DEF SumOverflows
<1>11. Representable(SignedOf(a, s) + SignedOf(b, s) + d, s) <=> -h <= x + y + d /\ x + y + d < h
  BY <1>7 DEF Representable, SignedOf
<1>12. f.AF <=> (l.lo % 16) + (r.lo % 16) + d \notin 0 .. 15
  <2>1. PICK e \in Int, g \in Int :
          e = l.lo /\ g = r.lo /\ 0 <= e /\ e <= 255 /\ 0 <= g /\ g <= 255
    BY InByte DEF Value
  <2>2. f.AF <=> AuxCarry(e, g, (e + g + d) % 256)
    BY <1>4, <1>9, <2>1
  <2>3. f.AF <=> (e % 16) + (g % 16) + d > 15
    <3>1. AuxCarry(e, g, (e + g + d) % 256) <=> (e % 16) + (g % 16) + d > 15
      <4>1. 0 <= d /\ d <= 1
        BY <1>8
      <4>2. QED
        BY <2>1, <4>1, AuxIs
    <3>2. QED
      BY <2>2, <3>1
  <2>4. (e % 16) + (g % 16) + d > 15 <=> (e % 16) + (g % 16) + d \notin 0 .. 15
    BY <1>8
  <2>5. QED
    BY <2>1, <2>3, <2>4
<1>13. f.CF <=> a + b + d \notin 0 .. s - 1
  BY <1>4, <1>8, <1>9 DEF Sizes, W
<1>14. f.ZF <=> (a + b + d) % s = 0
  BY <1>9
<1>15. f.SF <=> (a + b + d) % s >= s \div 2
  BY <1>7, <1>9
<1>16. f.OF <=> ~Representable(SignedOf(a, s) + SignedOf(b, s) + d, s)
  BY <1>10, <1>11
<1>17. SumFollows(v, wide, s, f, a + b + d, SignedOf(a, s) + SignedOf(b, s) + d,
                  (l.lo % 16) + (r.lo % 16) + d)
  BY <1>4, <1>12, <1>13, <1>14, <1>15, <1>16, Zenon DEF SumFollows
<1>18. QED
  <2>1. a + b + d = Number(l, wide) + Number(r, wide) + Num(c)
    BY <1>1, Zenon
  <2>2. SignedOf(a, s) + SignedOf(b, s) + d = SignedNumber(l, wide) + SignedNumber(r, wide) + Num(c)
    BY <1>1, Zenon DEF SignedNumber
  <2>3. (l.lo % 16) + (r.lo % 16) + d = (l.lo % 16) + (r.lo % 16) + Num(c)
    BY <1>1, Zenon
  <2>4. PICK n, m, e : /\ n = a + b + d /\ m = SignedOf(a, s) + SignedOf(b, s) + d
                       /\ e = (l.lo % 16) + (r.lo % 16) + d
    BY Zenon
  <2>5. SumFollows(v, wide, Width(wide), f, n, m, e)
    BY <1>1, <1>17, <2>4, Zenon
  <2>6. QED
    BY <1>2, <1>3, <2>1, <2>2, <2>3, <2>4, <2>5

LEMMA DifferenceFlags ==
  ASSUME NEW op \in {SUB, SBB, CMP}, NEW l \in Value, NEW r \in Value, NEW wide \in BOOLEAN,
         NEW c \in BOOLEAN, wide \/ (l.hi = 0 /\ r.hi = 0)
  PROVE  SumFollows(AluSubtract(l, r, wide, ~c).value, wide, Width(wide),
           AluFlags(op, l, r, AluSubtract(l, r, wide, ~c).value, wide, AluSubtract(l, r, wide, ~c).carry),
           Number(l, wide) - Number(r, wide) - Num(c),
           SignedNumber(l, wide) - SignedNumber(r, wide) - Num(c),
           (l.lo % 16) - (r.lo % 16) - Num(c))
<1>1. PICK a \in Int, b \in Int, d \in Int, s \in Sizes :
        a = Number(l, wide) /\ b = Number(r, wide) /\ d = Num(c) /\ s = Width(wide)
  BY NumberIs, NumIs DEF Width, Sizes
<1>2. PICK v \in Value, carry \in BOOLEAN : v = AluSubtract(l, r, wide, ~c).value /\ carry = AluSubtract(l, r, wide, ~c).carry
  <2>1. \A o \in BOOLEAN : /\ AluSubtract(l, r, wide, o).value \in Value
                           /\ AluSubtract(l, r, wide, o).carry \in BOOLEAN
    BY AluAddType
  <2>2. ~c = TRUE \/ ~c = FALSE
    OBVIOUS
  <2>3. /\ AluSubtract(l, r, wide, ~c).value \in Value
        /\ AluSubtract(l, r, wide, ~c).carry \in BOOLEAN
    BY <2>1, <2>2, Zenon
  <2>4. QED
    BY <2>3, Zenon
<1>3. PICK f : f = AluFlags(op, l, r, v, wide, carry)
  OBVIOUS
<1>4. /\ Number(v, wide) = (a - b - d) % s /\ (carry <=> a - b - d < 0)
      /\ v.lo = (l.lo - r.lo - d) % 256 /\ (~wide => v.hi = 0)
  BY <1>1, <1>2, DifferenceIs
<1>5. op \in 0 .. 7 /\ op \notin Logical /\ op \notin {ADD, ADC}
  BY DEF ADD, ADC, SUB, SBB, CMP, Logical, OR, AND, XOR
<1>6. PICK h \in Int : h = s \div 2
  <2>1. s \div 2 \in Int
    BY DEF Sizes, W
  <2>2. QED
    BY <2>1, Zenon
<1>7. PICK x \in Int, y \in Int :
        h = s \div 2 /\ x = (IF a >= h THEN a - s ELSE a) /\ y = (IF b >= h THEN b - s ELSE b)
  <2>1. (IF a >= h THEN a - s ELSE a) \in Int /\ (IF b >= h THEN b - s ELSE b) \in Int
    BY DEF Sizes, W
  <2>2. QED
    BY <1>6, <2>1, Zenon
<1>8. 0 <= a /\ a < s /\ 0 <= b /\ b < s /\ 0 <= d /\ d <= 1
  BY <1>1, NumberIs, NumIs
<1>9. /\ f.CF = carry
      /\ f.ZF <=> (a - b - d) % s = 0
      /\ f.SF <=> (a - b - d) % s >= h
      /\ f.AF <=> AuxCarry(l.lo, r.lo, v.lo)
      /\ f.OF <=> ~((a - b - d) % s >= h <=> a >= h) /\ ~(a >= h <=> b >= h)
  <2>1. wide \/ (l.hi = 0 /\ r.hi = 0 /\ v.hi = 0)
    BY <1>4
  <2>2. op \in {ADD, ADC} <=> FALSE
    BY <1>5
  <2>3. FlagsFollow(op, l, r, v, wide, carry, f)
    BY <1>5, <1>3, <2>1, FlagsAre
  <2>4. /\ f.CF = carry /\ (f.ZF <=> Number(v, wide) = 0) /\ (f.SF <=> High(v, wide))
        /\ f.AF <=> AuxCarry(l.lo, r.lo, v.lo)
        /\ f.OF <=> ~(High(v, wide) <=> High(l, wide)) /\ ~(High(l, wide) <=> High(r, wide))
    BY <2>2, <2>3 DEF FlagsFollow
  <2>5. QED
    BY <1>1, <1>4, <1>7, <2>4 DEF High
<1>10. f.OF <=> ~(-h <= x - y - d /\ x - y - d < h)
  <2>1. Signs(s, a, b, d, h, x, y)
    BY <1>7, <1>8, Zenon DEF Signs
  <2>2. DifferenceOverflows(s, a, b, d, h, x, y)
    BY <2>1, OverflowIs, Zenon
  <2>3. QED
    BY <1>9, <2>2, Zenon DEF DifferenceOverflows
<1>11. Representable(SignedOf(a, s) - SignedOf(b, s) - d, s) <=> -h <= x - y - d /\ x - y - d < h
  BY <1>7 DEF Representable, SignedOf
<1>12. f.AF <=> (l.lo % 16) - (r.lo % 16) - d \notin 0 .. 15
  <2>1. PICK e \in Int, g \in Int :
          e = l.lo /\ g = r.lo /\ 0 <= e /\ e <= 255 /\ 0 <= g /\ g <= 255
    BY InByte DEF Value
  <2>2. f.AF <=> AuxCarry(e, g, (e - g - d) % 256)
    BY <1>4, <1>9, <2>1
  <2>3. f.AF <=> (e % 16) - (g % 16) - d < 0
    <3>1. AuxCarry(e, g, (e - g - d) % 256) <=> (e % 16) - (g % 16) - d < 0
      <4>1. 0 <= d /\ d <= 1
        BY <1>8
      <4>2. QED
        BY <2>1, <4>1, AuxIs
    <3>2. QED
      BY <2>2, <3>1
  <2>4. (e % 16) - (g % 16) - d < 0 <=> (e % 16) - (g % 16) - d \notin 0 .. 15
    BY <1>8
  <2>5. QED
    BY <2>1, <2>3, <2>4
<1>13. f.CF <=> a - b - d \notin 0 .. s - 1
  BY <1>4, <1>8, <1>9 DEF Sizes, W
<1>14. f.ZF <=> (a - b - d) % s = 0
  BY <1>9
<1>15. f.SF <=> (a - b - d) % s >= s \div 2
  BY <1>7, <1>9
<1>16. f.OF <=> ~Representable(SignedOf(a, s) - SignedOf(b, s) - d, s)
  BY <1>10, <1>11
<1>17. SumFollows(v, wide, s, f, a - b - d, SignedOf(a, s) - SignedOf(b, s) - d,
                  (l.lo % 16) - (r.lo % 16) - d)
  BY <1>4, <1>12, <1>13, <1>14, <1>15, <1>16, Zenon DEF SumFollows
<1>18. QED
  <2>1. a - b - d = Number(l, wide) - Number(r, wide) - Num(c)
    BY <1>1, Zenon
  <2>2. SignedOf(a, s) - SignedOf(b, s) - d = SignedNumber(l, wide) - SignedNumber(r, wide) - Num(c)
    BY <1>1, Zenon DEF SignedNumber
  <2>3. (l.lo % 16) - (r.lo % 16) - d = (l.lo % 16) - (r.lo % 16) - Num(c)
    BY <1>1, Zenon
  <2>4. PICK n, m, e : /\ n = a - b - d /\ m = SignedOf(a, s) - SignedOf(b, s) - d
                       /\ e = (l.lo % 16) - (r.lo % 16) - d
    BY Zenon
  <2>5. SumFollows(v, wide, Width(wide), f, n, m, e)
    BY <1>1, <1>17, <2>4, Zenon
  <2>6. QED
    BY <1>2, <1>3, <2>1, <2>2, <2>3, <2>4, <2>5

(***************************************************************************)
(* The actions' operands and results as numbers.                           *)
(***************************************************************************)
LEMMA OperandIs ==
  ASSUME NEW v \in Value, i.wide \in BOOLEAN
  PROVE  /\ Operand(v) \in Value /\ Operand(v).lo = v.lo
         /\ i.wide \/ Operand(v).hi = 0
         /\ Number(Operand(v), i.wide) = Unsigned(v)
         /\ SignedNumber(Operand(v), i.wide) = Signed(v)
         /\ Width(i.wide) = Size
<1>1. Low(v) = [lo |-> v.lo, hi |-> 0] /\ v.lo \in Byte /\ 0 \in Byte
  BY DEF Low, Value, Byte
<1>2. Low(v) \in Value /\ Low(v).lo = v.lo /\ Low(v).hi = 0
  BY <1>1 DEF Value
<1>3. Operand(v) \in Value /\ Operand(v).lo = v.lo /\ (i.wide \/ Operand(v).hi = 0)
  BY <1>2 DEF Operand
<1>4. Number(Operand(v), i.wide) = Unsigned(v) /\ Width(i.wide) = Size
  BY <1>2 DEF Operand, Number, Unsigned, Width, Size
<1>5. SignedNumber(Operand(v), i.wide) = Signed(v)
  BY <1>4, Zenon DEF SignedNumber, Signed
<1>6. QED
  BY <1>3, <1>4, <1>5

LEMMA StoredIs ==
  ASSUME NEW v \in Value, ax \in Value, i.wide \in BOOLEAN, ax' = Stored(v)
  PROVE  Unsigned(ax') = Number(v, i.wide)
  BY DEF Stored, Unsigned, Number, Value

\* What SumRight says, of a result v and its flags f.
LEMMA RightIfFollows ==
  ASSUME NEW r, NEW sign, NEW c, NEW carries \in BOOLEAN, NEW v, NEW f \in Flags,
         ax' = Stored(v) \/ i.op = CMP, ax' = Stored(v) => Unsigned(ax') = Number(v, i.wide),
         flags' = (IF carries THEN f ELSE [f EXCEPT !.CF = flags.CF]),
         SumFollows(v, i.wide, Size, f,
                    Unsigned(ax) + sign * (Unsigned(r) + c),
                    Signed(ax) + sign * (Signed(r) + c),
                    (ax.lo % 16) + sign * ((r.lo % 16) + c))
  PROVE  SumRight(r, sign, c, carries)
<1>1. PICK n, m, d : /\ n = Unsigned(ax) + sign * (Unsigned(r) + c)
                     /\ m = Signed(ax) + sign * (Signed(r) + c)
                     /\ d = (ax.lo % 16) + sign * ((r.lo % 16) + c)
  OBVIOUS
<1>2. SumFollows(v, i.wide, Size, f, n, m, d)
  BY <1>1, Zenon
<1>3. /\ flags'.OF = f.OF /\ flags'.AF = f.AF /\ flags'.ZF = f.ZF /\ flags'.SF = f.SF
      /\ flags'.CF = IF carries THEN f.CF ELSE flags.CF
  BY DEF Flags
<1>4. i.op # CMP => Unsigned(ax') = n % Size
  BY <1>2 DEF SumFollows
<1>5. flags'.CF <=> IF carries THEN n \notin 0 .. Size - 1 ELSE flags.CF
  <2>1. CASE carries
    BY <1>2, <1>3, <2>1 DEF SumFollows
  <2>2. CASE ~carries
    BY <1>3, <2>2
  <2>3. QED
    BY <2>1, <2>2
<1>6. /\ flags'.OF <=> ~Representable(m, Size)
      /\ flags'.AF <=> d \notin 0 .. 15
      /\ flags'.ZF <=> n % Size = 0
      /\ flags'.SF <=> n % Size >= Size \div 2
  BY <1>2, <1>3, Zenon DEF SumFollows
<1>7. QED
  BY <1>1, <1>4, <1>5, <1>6, Zenon DEF SumRight

LEMMA Times ==
  ASSUME NEW a \in Int, NEW b \in Int, NEW c \in Int
  PROVE  a + 1 * (b + c) = a + b + c /\ a + (-1) * (b + c) = a - b - c
  OBVIOUS

LEMMA NumbersAre ==
  ASSUME NEW v \in Value, i.wide \in BOOLEAN
  PROVE  Unsigned(v) \in Int /\ Signed(v) \in Int /\ v.lo % 16 \in Int
<1>1. Number(Operand(v), i.wide) \in Int /\ Number(Operand(v), i.wide) = Unsigned(v)
  BY OperandIs, NumberIs
<1>2. Unsigned(v) \in Int
  BY <1>1
<1>3. Size \in Int
  BY DEF Size, W
<1>4. \A n \in Int, m \in Int : SignedOf(n, m) \in Int
  BY DEF SignedOf
<1>5. Signed(v) \in Int
  BY <1>2, <1>3, <1>4, Zenon DEF Signed
<1>6. v.lo % 16 \in Int
  BY InByte DEF Value
<1>7. QED
  BY <1>2, <1>5, <1>6

\* A sum, and a difference, with an operand r that has no high byte unless the
\* instruction is wide.
LEMMA SumStep ==
  ASSUME i.wide \in BOOLEAN, ax \in Value, NEW op \in {ADD, ADC}, NEW r \in Value,
         NEW q \in Value, q = Operand(r), NEW c \in BOOLEAN, NEW carries \in BOOLEAN,
         NEW x, x = AluAdd(Operand(ax), q, i.wide, c),
         NEW f, f = AluFlags(op, Operand(ax), q, x.value, i.wide, x.carry),
         flags' = (IF carries THEN f ELSE [f EXCEPT !.CF = flags.CF]),
         ax' = Stored(x.value) \/ i.op = CMP
  PROVE  SumRight(r, 1, Num(c), carries)
<1>1. x.value \in Value /\ x.carry \in BOOLEAN
  BY OperandIs, AluAddType
<1>2. f \in Flags
  <2>1. op \in 0 .. 7
    BY DEF ADD, ADC
  <2>2. QED
    BY <1>1, <2>1, OperandIs, AluFlagsType
<1>3. SumFollows(x.value, i.wide, Width(i.wide), f,
                 Number(Operand(ax), i.wide) + Number(q, i.wide) + Num(c),
                 SignedNumber(Operand(ax), i.wide) + SignedNumber(q, i.wide) + Num(c),
                 (Operand(ax).lo % 16) + (q.lo % 16) + Num(c))
  <2>1. i.wide \/ (Operand(ax).hi = 0 /\ q.hi = 0)
    BY OperandIs
  <2>2. Operand(ax) \in Value
    BY OperandIs
  <2>3. SumFollows(AluAdd(Operand(ax), q, i.wide, c).value, i.wide, Width(i.wide),
          AluFlags(op, Operand(ax), q, AluAdd(Operand(ax), q, i.wide, c).value, i.wide,
                   AluAdd(Operand(ax), q, i.wide, c).carry),
          Number(Operand(ax), i.wide) + Number(q, i.wide) + Num(c),
          SignedNumber(Operand(ax), i.wide) + SignedNumber(q, i.wide) + Num(c),
          (Operand(ax).lo % 16) + (q.lo % 16) + Num(c))
    BY <2>1, <2>2, SumFlags, SMTT(30)
  <2>4. QED
    BY <2>3
<1>4. SumFollows(x.value, i.wide, Size, f, Unsigned(ax) + Unsigned(r) + Num(c),
                 Signed(ax) + Signed(r) + Num(c), (ax.lo % 16) + (r.lo % 16) + Num(c))
  BY <1>3, OperandIs
<1>5. /\ Unsigned(ax) + 1 * (Unsigned(r) + Num(c)) = Unsigned(ax) + Unsigned(r) + Num(c)
      /\ Signed(ax) + 1 * (Signed(r) + Num(c)) = Signed(ax) + Signed(r) + Num(c)
      /\ (ax.lo % 16) + 1 * ((r.lo % 16) + Num(c)) = (ax.lo % 16) + (r.lo % 16) + Num(c)
  BY NumbersAre, NumIs, Times
<1>6. SumFollows(x.value, i.wide, Size, f, Unsigned(ax) + 1 * (Unsigned(r) + Num(c)),
                 Signed(ax) + 1 * (Signed(r) + Num(c)),
                 (ax.lo % 16) + 1 * ((r.lo % 16) + Num(c)))
  BY <1>4, <1>5
<1>7. ax' = Stored(x.value) => Unsigned(ax') = Number(x.value, i.wide)
  BY <1>1, StoredIs
<1>8. QED
  BY <1>2, <1>6, <1>7, RightIfFollows

LEMMA DifferenceStep ==
  ASSUME i.wide \in BOOLEAN, ax \in Value, NEW op \in {SUB, SBB, CMP}, NEW r \in Value,
         NEW q \in Value, q = Operand(r), NEW c \in BOOLEAN, NEW carries \in BOOLEAN,
         NEW x, x = AluSubtract(Operand(ax), q, i.wide, ~c),
         NEW f, f = AluFlags(op, Operand(ax), q, x.value, i.wide, x.carry),
         flags' = (IF carries THEN f ELSE [f EXCEPT !.CF = flags.CF]),
         ax' = Stored(x.value) \/ i.op = CMP
  PROVE  SumRight(r, -1, Num(c), carries)
<1>1. x.value \in Value /\ x.carry \in BOOLEAN
  <2>1. \A o \in BOOLEAN : /\ AluSubtract(Operand(ax), q, i.wide, o).value \in Value
                           /\ AluSubtract(Operand(ax), q, i.wide, o).carry \in BOOLEAN
    BY OperandIs, AluAddType
  <2>2. ~c = TRUE \/ ~c = FALSE
    OBVIOUS
  <2>3. QED
    BY <2>1, <2>2, Zenon
<1>2. f \in Flags
  <2>1. op \in 0 .. 7
    BY DEF SUB, SBB, CMP
  <2>2. QED
    BY <1>1, <2>1, OperandIs, AluFlagsType
<1>3. SumFollows(x.value, i.wide, Width(i.wide), f,
                 Number(Operand(ax), i.wide) - Number(q, i.wide) - Num(c),
                 SignedNumber(Operand(ax), i.wide) - SignedNumber(q, i.wide) - Num(c),
                 (Operand(ax).lo % 16) - (q.lo % 16) - Num(c))
  <2>1. i.wide \/ (Operand(ax).hi = 0 /\ q.hi = 0)
    BY OperandIs
  <2>2. Operand(ax) \in Value
    BY OperandIs
  <2>3. SumFollows(AluSubtract(Operand(ax), q, i.wide, ~c).value, i.wide, Width(i.wide),
          AluFlags(op, Operand(ax), q, AluSubtract(Operand(ax), q, i.wide, ~c).value, i.wide,
                   AluSubtract(Operand(ax), q, i.wide, ~c).carry),
          Number(Operand(ax), i.wide) - Number(q, i.wide) - Num(c),
          SignedNumber(Operand(ax), i.wide) - SignedNumber(q, i.wide) - Num(c),
          (Operand(ax).lo % 16) - (q.lo % 16) - Num(c))
    BY <2>1, <2>2, DifferenceFlags, SMTT(30)
  <2>4. QED
    BY <2>3
<1>4. SumFollows(x.value, i.wide, Size, f, Unsigned(ax) - Unsigned(r) - Num(c),
                 Signed(ax) - Signed(r) - Num(c), (ax.lo % 16) - (r.lo % 16) - Num(c))
  BY <1>3, OperandIs
<1>5. /\ Unsigned(ax) + (-1) * (Unsigned(r) + Num(c)) = Unsigned(ax) - Unsigned(r) - Num(c)
      /\ Signed(ax) + (-1) * (Signed(r) + Num(c)) = Signed(ax) - Signed(r) - Num(c)
      /\ (ax.lo % 16) + (-1) * ((r.lo % 16) + Num(c)) = (ax.lo % 16) - (r.lo % 16) - Num(c)
  BY NumbersAre, NumIs, Times
<1>6. SumFollows(x.value, i.wide, Size, f, Unsigned(ax) + (-1) * (Unsigned(r) + Num(c)),
                 Signed(ax) + (-1) * (Signed(r) + Num(c)),
                 (ax.lo % 16) + (-1) * ((r.lo % 16) + Num(c)))
  BY <1>4, <1>5
<1>7. ax' = Stored(x.value) => Unsigned(ax') = Number(x.value, i.wide)
  BY <1>1, StoredIs
<1>8. QED
  BY <1>2, <1>6, <1>7, RightIfFollows
(***************************************************************************)
(* Every sum and difference is right, with its flags, for every operand    *)
(* and carry: @alu_execute, @alu_flags, and INC and DEC, which leave CF.   *)
(***************************************************************************)
Sum ==
  /\ i.kind = "alu" /\ i.op \in {ADD, ADC} =>
       SumRight(operand, 1, Num(i.op = ADC /\ flags.CF), TRUE)
  /\ i.kind = "alu" /\ i.op \in {SUB, SBB, CMP} =>
       SumRight(operand, -1, Num(i.op = SBB /\ flags.CF), TRUE)
  /\ i.kind = "inc" => SumRight([lo |-> 1, hi |-> 0], 1, 0, FALSE)
  /\ i.kind = "dec" => SumRight([lo |-> 1, hi |-> 0], -1, 0, FALSE)

LEMMA AluSum == TypeOK /\ Alu => Sum
<1> SUFFICES ASSUME TypeOK, Alu PROVE Sum
  OBVIOUS
<1>1. /\ i.wide \in BOOLEAN /\ i.kind = "alu" /\ ax \in Value /\ operand \in Value
      /\ flags.CF \in BOOLEAN /\ Operand(operand) \in Value
  <2>1. Fetched("alu")
    BY DEF Alu
  <2>2. QED
    BY <2>1, FetchedType DEF Flags
<1>2. PICK x : x = AluExecute(i.op, Operand(ax), Operand(operand), i.wide, flags.CF)
  OBVIOUS
<1>3. /\ flags' = AluFlags(i.op, Operand(ax), Operand(operand), x.value, i.wide, x.carry)
      /\ ax' = Stored(x.value) \/ i.op = CMP
  BY <1>2 DEF Alu
<1>4. ASSUME i.op \in {ADD, ADC}
      PROVE  SumRight(operand, 1, Num(i.op = ADC /\ flags.CF), TRUE)
  <2>1. PICK c \in BOOLEAN : c = (i.op = ADC /\ flags.CF)
    OBVIOUS
  <2>2. x = AluAdd(Operand(ax), Operand(operand), i.wide, c)
    <3>1. i.op \notin Logical /\ i.op \in {ADD, ADC}
      BY <1>4 DEF Logical, ADD, ADC, OR, AND, XOR
    <3>2. QED
      BY <1>2, <2>1, <3>1, Zenon DEF AluExecute
  <2>3. SumRight(operand, 1, Num(c), TRUE)
    BY <1>1, <1>3, <1>4, <2>2, SumStep
  <2>4. QED
    BY <2>1, <2>3
<1>5. ASSUME i.op \in {SUB, SBB, CMP}
      PROVE  SumRight(operand, -1, Num(i.op = SBB /\ flags.CF), TRUE)
  <2>1. PICK c \in BOOLEAN : c = (i.op = SBB /\ flags.CF)
    OBVIOUS
  <2>2. x = AluSubtract(Operand(ax), Operand(operand), i.wide, ~c)
    <3>1. i.op \notin Logical /\ i.op \notin {ADD, ADC}
      BY <1>5 DEF Logical, ADD, ADC, OR, AND, XOR, SUB, SBB, CMP
    <3>2. (i.op = SBB => ~flags.CF) = ~c
      BY <1>1, <2>1
    <3>3. QED
      BY <1>2, <3>1, <3>2, Zenon DEF AluExecute
  <2>3. SumRight(operand, -1, Num(c), TRUE)
    BY <1>1, <1>3, <1>5, <2>2, DifferenceStep
  <2>4. QED
    BY <2>1, <2>3
<1>6. QED
  BY <1>1, <1>4, <1>5, Zenon DEF Sum

LEMMA IncDecSum == TypeOK /\ (IncDec("inc", ADD) \/ IncDec("dec", SUB)) => Sum
<1> SUFFICES ASSUME TypeOK, IncDec("inc", ADD) \/ IncDec("dec", SUB) PROVE Sum
  OBVIOUS
<1>1. PICK one : one = [lo |-> 1, hi |-> 0]
  OBVIOUS
<1>2. one \in Value /\ one = Operand(one)
  BY <1>1 DEF Value, Byte, Operand, Low
<1>3. \A kind : Fetched(kind) => /\ i.wide \in BOOLEAN /\ i.kind = kind /\ ax \in Value
                                 /\ flags.CF \in BOOLEAN
  BY FetchedType DEF Flags
<1>4. Num(FALSE) = 0
  BY DEF Num
<1>5. CASE IncDec("inc", ADD)
  <2>1. i.wide \in BOOLEAN /\ i.kind = "inc" /\ ax \in Value /\ flags.CF \in BOOLEAN
    BY <1>3, <1>5 DEF IncDec
  <2>2. PICK x : x = AluExecute(ADD, Operand(ax), one, i.wide, flags.CF)
    OBVIOUS
  <2>3. /\ flags' = [AluFlags(ADD, Operand(ax), one, x.value, i.wide, x.carry)
                       EXCEPT !.CF = flags.CF]
        /\ ax' = Stored(x.value)
    BY <1>1, <1>5, <2>2 DEF IncDec
  <2>4. x = AluAdd(Operand(ax), one, i.wide, FALSE)
    <3>1. ADD \notin Logical /\ ADD \in {ADD, ADC} /\ ADD # ADC
      BY DEF Logical, ADD, ADC, OR, AND, XOR
    <3>2. (ADD = ADC /\ flags.CF) = FALSE
      BY <3>1
    <3>3. QED
      BY <2>2, <3>1, <3>2, Zenon DEF AluExecute
  <2>5. SumRight(one, 1, Num(FALSE), FALSE)
    BY <1>2, <2>1, <2>3, <2>4, SumStep
  <2>6. QED
    BY <1>1, <1>4, <2>1, <2>5 DEF Sum
<1>6. CASE IncDec("dec", SUB)
  <2>1. i.wide \in BOOLEAN /\ i.kind = "dec" /\ ax \in Value /\ flags.CF \in BOOLEAN
    BY <1>3, <1>6 DEF IncDec
  <2>2. PICK x : x = AluExecute(SUB, Operand(ax), one, i.wide, flags.CF)
    OBVIOUS
  <2>3. /\ flags' = [AluFlags(SUB, Operand(ax), one, x.value, i.wide, x.carry)
                       EXCEPT !.CF = flags.CF]
        /\ ax' = Stored(x.value)
    BY <1>1, <1>6, <2>2 DEF IncDec
  <2>4. x = AluSubtract(Operand(ax), one, i.wide, ~FALSE)
    <3>1. SUB \notin Logical /\ SUB \notin {ADD, ADC} /\ SUB # SBB
      BY DEF Logical, ADD, ADC, OR, AND, XOR, SUB, SBB
    <3>2. (SUB = SBB => ~flags.CF) = ~FALSE
      BY <3>1
    <3>3. QED
      BY <2>2, <3>1, <3>2, Zenon DEF AluExecute
  <2>5. SumRight(one, -1, Num(FALSE), FALSE)
    BY <1>2, <2>1, <2>3, <2>4, DifferenceStep
  <2>6. QED
    BY <1>1, <1>4, <2>1, <2>5 DEF Sum
<1>7. QED
  BY <1>5, <1>6

\* What the other actions have fetched.
OtherKinds == {"test", "group3_test", "group3_not", "shift", "daa", "das", "aam", "aad",
               "mul", "imul", "div", "idiv", "cbw", "cwd", "clc", "stc", "cmc"}

LEMMA Others ==
  Next => \/ Alu
          \/ IncDec("inc", ADD) \/ IncDec("dec", SUB)
          \/ \E kind \in OtherKinds : Fetched(kind)
  BY DEF Next, OtherKinds, Test, Group3Test, Group3Not, ShiftOne, Decimal, Aam, Aad,
         Multiply, Divide, Cbw, Cwd, SetCarry

(***************************************************************************)
(* ADD, ADC, SUB, SBB, CMP, INC and DEC of whatever operands give the      *)
(* result and the flags of the sum (@alu_execute, @alu_flags).             *)
(***************************************************************************)
THEOREM SumsCorrect == Spec => SumsRight
<1>1. TypeOK /\ [Next]_vars => [Sum]_vars
  <2> SUFFICES ASSUME TypeOK, Next PROVE Sum
    OBVIOUS
  <2>1. CASE \E kind \in OtherKinds : Fetched(kind)
    <3>1. i.kind \in OtherKinds
      BY <2>1, FetchedType
    <3>2. QED
      BY <3>1 DEF Sum, OtherKinds
  <2>2. QED
    BY <2>1, Others, AluSum, IncDecSum
<1>2. QED
  BY <1>1, TypeCorrect, PTL DEF Spec, SumsRight, Sum

(***************************************************************************)
(* The branches after a comparison.                                        *)
(***************************************************************************)
LEMMA ConditionIs ==
  ASSUME NEW f \in Flags
  PROVE  /\ ConditionTrue(2, f)  <=> f.CF
         /\ ConditionTrue(3, f)  <=> ~f.CF
         /\ ConditionTrue(4, f)  <=> f.ZF
         /\ ConditionTrue(5, f)  <=> ~f.ZF
         /\ ConditionTrue(6, f)  <=> f.CF \/ f.ZF
         /\ ConditionTrue(7, f)  <=> ~(f.CF \/ f.ZF)
         /\ ConditionTrue(12, f) <=> ~(f.SF <=> f.OF)
         /\ ConditionTrue(13, f) <=> (f.SF <=> f.OF)
<1>1. /\ Conditions(f)[2] = f.CF
      /\ Conditions(f)[3] = f.ZF
      /\ Conditions(f)[4] = (f.CF \/ f.ZF)
      /\ Conditions(f)[7] = (f.SF # f.OF)
  BY DEF Conditions
<1>2. f.CF \in BOOLEAN /\ f.ZF \in BOOLEAN /\ f.SF \in BOOLEAN /\ f.OF \in BOOLEAN
  BY DEF Flags
<1>3. /\ (2 \div 2) + 1 = 2 /\ (3 \div 2) + 1 = 2 /\ (4 \div 2) + 1 = 3 /\ (5 \div 2) + 1 = 3
      /\ (6 \div 2) + 1 = 4 /\ (7 \div 2) + 1 = 4 /\ (12 \div 2) + 1 = 7 /\ (13 \div 2) + 1 = 7
      /\ (2 % 2 = 1) = FALSE /\ (3 % 2 = 1) = TRUE /\ (4 % 2 = 1) = FALSE
      /\ (5 % 2 = 1) = TRUE /\ (6 % 2 = 1) = FALSE /\ (7 % 2 = 1) = TRUE
      /\ (12 % 2 = 1) = FALSE /\ (13 % 2 = 1) = TRUE
  OBVIOUS
<1>4. (ConditionTrue(2, f) <=> f.CF) /\ (ConditionTrue(3, f) <=> ~f.CF)
  BY <1>1, <1>2, <1>3 DEF ConditionTrue
<1>5. (ConditionTrue(4, f) <=> f.ZF) /\ (ConditionTrue(5, f) <=> ~f.ZF)
  BY <1>1, <1>2, <1>3 DEF ConditionTrue
<1>6. (ConditionTrue(6, f) <=> f.CF \/ f.ZF) /\ (ConditionTrue(7, f) <=> ~(f.CF \/ f.ZF))
  BY <1>1, <1>2, <1>3 DEF ConditionTrue
<1>7. (ConditionTrue(12, f) <=> ~(f.SF <=> f.OF)) /\ (ConditionTrue(13, f) <=> (f.SF <=> f.OF))
  BY <1>1, <1>2, <1>3 DEF ConditionTrue
<1>8. QED
  BY <1>4, <1>5, <1>6, <1>7

\* Sign and overflow of the difference of a and b, below s, order them as signed
\* numbers x and y.
LEMMA OrderIs ==
  ASSUME NEW s, NEW a, NEW b, NEW h, NEW x, NEW y, Signs(s, a, b, 0, h, x, y)
  PROVE  /\ ~((a - b) % s >= h <=> ~(-h <= x - y /\ x - y < h)) <=> x < y
         /\ (a - b) % s = 0 <=> a = b
         /\ a - b \notin 0 .. s - 1 <=> a < b
<1> USE DEF Signs
<1>1. s = 2 * h /\ h > 0
  BY DEF Sizes, W
<1>2. \A n \in Int : 0 <= n /\ n < s => n % s = n
  BY DEF Sizes, W
<1>3. PICK k \in Int : k = IF a - b < 0 THEN 1 ELSE 0
  BY DEF Sizes, W
<1>4. (a - b) % s = a - b + k * s
  <2>1. CASE a - b < 0
    <3>1. (a - b) % s = (a - b + s) % s
      BY DEF Sizes, W
    <3>2. 0 <= a - b + s /\ a - b + s < s
      BY <2>1 DEF Sizes, W
    <3>3. QED
      BY <1>2, <1>3, <2>1, <3>1, <3>2 DEF Sizes, W
  <2>2. CASE ~(a - b < 0)
    BY <1>2, <1>3, <2>2 DEF Sizes, W
  <2>3. QED
    BY <2>1, <2>2 DEF Sizes, W
<1>5. QED
  BY <1>1, <1>3, <1>4 DEF Sizes, W

\* f are the flags of the comparison of a and b, as signed numbers x and y.
Ordered(f, a, b, x, y) ==
  /\ f.CF <=> a < b
  /\ f.ZF <=> a = b
  /\ ~(f.SF <=> f.OF) <=> x < y

LEMMA ComparisonIs ==
  ASSUME TypeOK, Alu, i.op = CMP
  PROVE  Ordered(flags', Unsigned(ax), Unsigned(operand), Signed(ax), Signed(operand))
<1>1. /\ i.wide \in BOOLEAN /\ ax \in Value /\ operand \in Value /\ i.kind = "alu"
  <2>1. Fetched("alu")
    BY DEF Alu
  <2>2. QED
    BY <2>1, FetchedType
<1>2. PICK a \in Int, b \in Int, s \in Sizes :
        /\ a = Unsigned(ax) /\ b = Unsigned(operand) /\ s = Size
        /\ 0 <= a /\ a < s /\ 0 <= b /\ b < s
  BY <1>1, OperandIs, NumberIs DEF Width, Sizes
<1>3. PICK h \in Int : h = s \div 2
  BY DEF Sizes, W
<1>4. PICK x \in Int, y \in Int : x = Signed(ax) /\ y = Signed(operand)
  BY <1>1, NumbersAre
<1>5. Signs(s, a, b, 0, h, x, y)
  <2>1. x = (IF a >= h THEN a - s ELSE a) /\ y = (IF b >= h THEN b - s ELSE b)
    BY <1>2, <1>3, <1>4, Zenon DEF Signed, SignedOf
  <2>2. 0 \in Int /\ 0 <= 0 /\ 0 <= 1
    OBVIOUS
  <2>3. QED
    BY <1>2, <1>3, <2>1, <2>2, Zenon DEF Signs
<1>6. SumRight(operand, -1, 0, TRUE)
  <2>1. Sum
    BY AluSum
  <2>2. Num(i.op = SBB /\ flags.CF) = 0 /\ i.op \in {SUB, SBB, CMP}
    BY DEF Num, SBB, CMP
  <2>3. QED
    BY <1>1, <2>1, <2>2 DEF Sum
<1>7. /\ Unsigned(ax) + (-1) * (Unsigned(operand) + 0) = a - b
      /\ Signed(ax) + (-1) * (Signed(operand) + 0) = x - y
  BY <1>2, <1>4
<1>8. /\ flags'.CF <=> a - b \notin 0 .. s - 1
      /\ flags'.OF <=> ~Representable(x - y, s)
      /\ flags'.ZF <=> (a - b) % s = 0
      /\ flags'.SF <=> (a - b) % s >= s \div 2
  BY <1>2, <1>6, <1>7 DEF SumRight
<1>9. Representable(x - y, s) <=> -h <= x - y /\ x - y < h
  BY <1>3 DEF Representable
<1>10. /\ ~((a - b) % s >= h <=> ~(-h <= x - y /\ x - y < h)) <=> x < y
       /\ (a - b) % s = 0 <=> a = b
       /\ a - b \notin 0 .. s - 1 <=> a < b
  BY <1>5, OrderIs
<1>11. Ordered(flags', a, b, x, y)
  BY <1>3, <1>8, <1>9, <1>10, Zenon DEF Ordered
<1>12. QED
  BY <1>2, <1>4, <1>11, Zenon

(***************************************************************************)
(* After a CMP of whatever operands every conditional jump but JLE and JG  *)
(* is taken as its name says (@condition_true).                            *)
(***************************************************************************)
THEOREM BranchesCorrect == Spec => []BranchesRight
<1>1. Init => BranchesRight
  BY DEF Init, BranchesRight, Compared
<1>2. TypeOK /\ BranchesRight /\ [Next]_vars => BranchesRight'
  <2> SUFFICES ASSUME TypeOK, BranchesRight, [Next]_vars PROVE BranchesRight'
    OBVIOUS
  <2>1. CASE UNCHANGED vars
    BY <2>1 DEF vars, BranchesRight, Compared, Sides
  <2>2. CASE Alu
    <3>1. /\ last_opcode' = <<i>> /\ operand' = operand /\ i.kind = "alu"
          /\ i.wide \in BOOLEAN /\ flags' \in Flags
      <4>1. Fetched("alu")
        BY <2>2 DEF Alu
      <4>2. flags' \in Flags
        BY <2>2, AluStep DEF TypeOK
      <4>3. QED
        BY <4>1, <4>2, FetchedType DEF Fetched, i
    <3>2. CASE i.op # CMP
      BY <3>1, <3>2 DEF BranchesRight, Compared
    <3>3. CASE i.op = CMP
      <4>1. ax' = ax
        BY <2>2, <3>3 DEF Alu
      <4>2. PICK a, b, x, y : /\ a = Unsigned(ax) /\ b = Unsigned(operand)
                              /\ x = Signed(ax) /\ y = Signed(operand)
        OBVIOUS
      <4>3. Sides' = [l |-> a, r |-> b, sl |-> x, sr |-> y]
        <5>1. last_opcode'[1].wide = i.wide
          BY <3>1
        <5>2. QED
          BY <3>1, <4>1, <4>2, <5>1 DEF Sides, Unsigned, Signed, Size
      <4>4. Ordered(flags', a, b, x, y)
        BY <2>2, <3>3, <4>2, ComparisonIs
      <4>5. a \in Int /\ b \in Int /\ x \in Int /\ y \in Int
        BY <3>1, <4>2, NumbersAre DEF TypeOK
      <4>6. /\ Sides'.l = a /\ Sides'.r = b /\ Sides'.sl = x /\ Sides'.sr = y
        BY <4>3
      <4>7. QED
        BY <3>1, <4>4, <4>5, <4>6, ConditionIs DEF BranchesRight, Ordered
    <3>4. QED
      BY <3>2, <3>3
  <2>3. CASE IncDec("inc", ADD) \/ IncDec("dec", SUB) \/ \E kind \in OtherKinds : Fetched(kind)
    <3>1. PICK kind : Fetched(kind) /\ kind # "alu"
      BY <2>3 DEF IncDec, OtherKinds
    <3>2. last_opcode' = <<i>> /\ i.kind # "alu"
      BY <3>1 DEF Fetched, i
    <3>3. QED
      BY <3>2 DEF BranchesRight, Compared
  <2>4. QED
    BY <2>1, <2>2, <2>3, Others
<1>3. QED
  BY <1>1, <1>2, TypeCorrect, PTL DEF Spec

----------------------------------------------------------------------------
(***************************************************************************)
(* Double words as numbers.                                                *)
(***************************************************************************)
LongNum(p) == p.lo + W * p.hi
Limit      == W * W

LEMMA DivModW ==
  /\ W \in Int /\ W > 0 /\ W = 65536 /\ Limit = W * W /\ Limit \in Int
  /\ \A n \in Int : /\ n \div W \in Int /\ n % W \in Int
                    /\ 0 <= n % W /\ n % W < W /\ n = W * (n \div W) + (n % W)
  /\ \A n \in Int : 0 <= n /\ n < W => n % W = n /\ n \div W = 0
  BY DEF W, Limit

LEMMA HalfOf ==
  ASSUME NEW k \in Int, k >= 0
  PROVE  /\ k % 2 \in {0, 1} /\ k \div 2 \in Int
         /\ k = 2 * (k \div 2) + (k % 2) /\ 0 <= k \div 2
  OBVIOUS

LEMMA LongIs ==
  ASSUME NEW p \in Long
  PROVE  /\ p.lo \in Int /\ 0 <= p.lo /\ p.lo < W
         /\ p.hi \in Int /\ 0 <= p.hi /\ p.hi < W
         /\ LongNum(p) \in Int /\ 0 <= LongNum(p) /\ LongNum(p) < Limit
<1>1. /\ p.lo \in Int /\ 0 <= p.lo /\ p.lo < W
      /\ p.hi \in Int /\ 0 <= p.hi /\ p.hi < W
  <2>1. p.lo \in Word16 /\ p.hi \in Word16
    BY DEF Long
  <2> QED
    BY <2>1, InWord16, DivModW
<1> QED
  BY <1>1 DEF LongNum, Limit, W

LEMMA LongSame ==
  ASSUME NEW p \in Long, NEW q \in Long, LongNum(p) = LongNum(q)
  PROVE  p = q
<1>1. p.lo = q.lo /\ p.hi = q.hi
  BY LongIs DEF LongNum, W
<1> QED
  BY <1>1 DEF Long

LEMMA LongAddIs ==
  ASSUME NEW p \in Long, NEW q \in Long, LongNum(p) + LongNum(q) < Limit
  PROVE  LongAdd(p, q) \in Long /\ LongNum(LongAdd(p, q)) = LongNum(p) + LongNum(q)
<1>1. PICK a \in Int, b \in Int, c \in Int, d \in Int :
        /\ a = p.lo /\ b = p.hi /\ c = q.lo /\ d = q.hi
        /\ 0 <= a /\ a < W /\ 0 <= b /\ b < W /\ 0 <= c /\ c < W /\ 0 <= d /\ d < W
  BY LongIs
<1>2. a + c + W * (b + d) < Limit
  BY <1>1 DEF LongNum, W
<1>3. PICK n \in Int : n = a + c
  BY <1>1
<1>4. PICK e \in Int, f \in Int :
        /\ e = n \div W /\ f = n % W
        /\ 0 <= f /\ f < W /\ n = W * e + f
  BY DivModW
<1>6. 0 <= e /\ b + d + e < W /\ f + W * (b + d + e) = a + c + W * (b + d)
  BY <1>1, <1>2, <1>3, <1>4, SMTT(30) DEF W, Limit
<1>7. PICK m \in Int : m = b + d + e /\ 0 <= m /\ m < W
  BY <1>1, <1>4, <1>6
<1>8. m % W = m
  BY <1>7, DivModW
<1>9. LongAdd(p, q) = [lo |-> f, hi |-> m]
  BY <1>1, <1>3, <1>4, <1>7, <1>8 DEF LongAdd
<1>5. LongNum(LongAdd(p, q)) = a + c + W * (b + d)
  BY <1>6, <1>7, <1>9 DEF LongNum
<1> QED
  BY <1>1, <1>5, LongType DEF LongNum, W

\* Facts about products of integers.
LEMMA TimesFacts ==
  /\ \A a, b \in Int : a * b \in Int /\ a * b = b * a
  /\ \A a, b, c \in Int : a <= b /\ c >= 0 => a * c <= b * c
  /\ \A a, b \in Int : a >= 0 /\ b >= 0 => a * b >= 0
  /\ \A a, b, c \in Int : (a + b) * c = a * c + b * c
  /\ \A a : a \in Int => 0 * a = 0 /\ 1 * a = a /\ a * 0 = 0 /\ a * 1 = a
<1>1. \A a, b \in Int : a * b \in Int /\ a * b = b * a
  OBVIOUS
<1>2. \A a, b, c \in Int : a <= b /\ c >= 0 => a * c <= b * c
  OBVIOUS
<1>3. \A a, b \in Int : a >= 0 /\ b >= 0 => a * b >= 0
  OBVIOUS
<1>4. \A a, b, c \in Int : (a + b) * c = a * c + b * c
  OBVIOUS
<1>5. \A a : a \in Int => 0 * a = 0 /\ 1 * a = a /\ a * 0 = 0 /\ a * 1 = a
  OBVIOUS
<1> QED
  BY <1>1, <1>2, <1>3, <1>4, <1>5

----------------------------------------------------------------------------
(***************************************************************************)
(* Multiplication.  What is owed stays the same from round to round: the   *)
(* product so far and what the rest of the multiplier will add.  The       *)
(* multiplicand may overflow only when nothing of the multiplier is left.  *)
(***************************************************************************)
Owed(s) == LongNum(s.product) + LongNum(s.multiplicand) * s.multiplier

Halves(f, n) ==
  /\ f \in [MulState -> MulState]
  /\ \A s \in MulState :
       Owed(s) < Limit => /\ Owed(f[s]) = Owed(s)
                          /\ f[s].multiplier = s.multiplier \div n

LEMMA MulRoundHalves == Halves(MulRound, 2)
<1> SUFFICES ASSUME NEW s \in MulState, Owed(s) < Limit
             PROVE  /\ Owed(MulRound[s]) = Owed(s)
                    /\ MulRound[s].multiplier = s.multiplier \div 2
  BY MulRoundType DEF Halves
<1> DEFINE t == MulRound[s]
           double == LongAdd(s.multiplicand, s.multiplicand)
<1>1. s.product \in Long /\ s.multiplicand \in Long /\ s.multiplier \in Word16
  BY DEF MulState
<1>2. PICK p \in Int, m \in Int, k \in Int, h \in Int, b \in {0, 1} :
        /\ p = LongNum(s.product) /\ m = LongNum(s.multiplicand)
        /\ k = s.multiplier /\ h = k \div 2 /\ b = k % 2
        /\ k = 2 * h + b /\ 0 <= h /\ 0 <= p /\ 0 <= m
  <2>1. s.multiplier \in Int /\ 0 <= s.multiplier
    BY <1>1, InWord16
  <2>2. PICK k \in Int, h \in Int, b \in {0, 1} :
          /\ k = s.multiplier /\ h = k \div 2 /\ b = k % 2
          /\ k = 2 * h + b /\ 0 <= h
    BY <2>1, HalfOf
  <2>3. /\ LongNum(s.product) \in Int /\ LongNum(s.multiplicand) \in Int
        /\ 0 <= LongNum(s.product) /\ 0 <= LongNum(s.multiplicand)
    BY <1>1, LongIs
  <2> QED
    BY <2>2, <2>3
<1>3. p + m * (2 * h + b) < Limit /\ Owed(s) = p + m * (2 * h + b)
  BY <1>2 DEF Owed
<1>4. m * (2 * h + b) = (2 * m) * h + m * b
  BY <1>2
<1>5. (2 * m) * h >= 0 /\ m * b >= 0 /\ (2 * m) * h \in Int /\ m * b \in Int
  <2>1. 2 * m \in Int /\ 2 * m >= 0 /\ b \in Int /\ b >= 0
    BY <1>2
  <2>2. \A u, v \in Int : u >= 0 /\ v >= 0 => u * v >= 0 /\ u * v \in Int
    BY TimesFacts
  <2> QED
    BY <1>2, <2>1, <2>2
<1>6. /\ t.product = IF b = 1 THEN LongAdd(s.product, s.multiplicand) ELSE s.product
      /\ t.multiplicand = double
      /\ t.multiplier = h
  BY <1>2 DEF MulRound
<1>7. LongNum(t.product) = p + m * b
  <2>1. CASE b = 1
    <3>1. m * b = m /\ Limit \in Int
      BY <2>1, <1>2 DEF Limit, W
    <3>2. p + m < Limit
      BY <1>2, <1>3, <1>4, <1>5, <3>1
    <3> QED
      BY <1>1, <1>2, <1>6, <2>1, <3>1, <3>2, LongAddIs
  <2>2. CASE b = 0
    <3>1. m * b = 0
      BY <1>2, <2>2
    <3>2. t.product = s.product
      BY <1>6, <2>2
    <3> QED
      BY <1>2, <3>1, <3>2
  <2> QED
    BY <1>2, <2>1, <2>2
<1>8. LongNum(double) * h = (2 * m) * h
  <2>1. CASE h = 0
    <3>1. LongNum(double) \in Int
      BY <1>1, LongType, LongIs
    <3> QED
      BY <1>2, <2>1, <3>1
  <2>2. CASE h # 0
    <3>1. (2 * m) * h >= 2 * m
      <4>1. 1 <= h /\ 2 * m >= 0 /\ 2 * m \in Int
        BY <1>2, <2>2
      <4>2. \A x, y, z \in Int : x <= y /\ z >= 0 => x * z <= y * z
        BY TimesFacts
      <4>3. 1 * (2 * m) <= h * (2 * m)
        BY <1>2, <4>1, <4>2, SMTT(30)
      <4> QED
        BY <1>2, <4>1, <4>3
    <3>2. m + m < Limit
      BY <1>2, <1>3, <1>4, <1>5, <3>1 DEF Limit, W
    <3>3. LongNum(double) = m + m
      BY <1>1, <1>2, <3>2, LongAddIs
    <3> QED
      BY <1>2, <3>3
  <2> QED
    BY <2>1, <2>2
<1>9. Owed(t) = p + m * b + (2 * m) * h
  BY <1>6, <1>7, <1>8 DEF Owed
<1>10. Owed(t) = Owed(s)
  <2>1. PICK u \in Int, v \in Int : u = m * b /\ v = (2 * m) * h
    BY <1>5
  <2>2. Owed(s) = p + (v + u) /\ Owed(t) = p + u + v
    BY <1>3, <1>4, <1>9, <2>1
  <2> QED
    BY <1>2, <2>1, <2>2
<1> QED
  BY <1>2, <1>6, <1>10

LEMMA HalvesTwice ==
  ASSUME NEW f, NEW n \in {2, 4, 16, 256}, Halves(f, n)
  PROVE  Halves(Twice(f), n * n)
<1>1. f \in [MulState -> MulState] /\ Twice(f) \in [MulState -> MulState]
  BY TwiceType DEF Halves
<1> SUFFICES ASSUME NEW s \in MulState, Owed(s) < Limit
             PROVE  /\ Owed(Twice(f)[s]) = Owed(s)
                    /\ Twice(f)[s].multiplier = s.multiplier \div (n * n)
  BY <1>1 DEF Halves
<1>2. Twice(f)[s] = f[f[s]] /\ f[s] \in MulState
  BY <1>1 DEF Twice
<1>3. Owed(f[s]) = Owed(s) /\ f[s].multiplier = s.multiplier \div n
  BY DEF Halves
<1>4. Owed(f[f[s]]) = Owed(s) /\ f[f[s]].multiplier = (s.multiplier \div n) \div n
  BY <1>2, <1>3 DEF Halves
<1>5. s.multiplier \in Int
  BY WordFacts DEF MulState
<1>6. \A k \in Int : /\ (k \div 2) \div 2 = k \div 4 /\ (k \div 4) \div 4 = k \div 16
                     /\ (k \div 16) \div 16 = k \div 256
                     /\ (k \div 256) \div 256 = k \div 65536
  OBVIOUS
<1>7. \/ n = 2 /\ n * n = 4
      \/ n = 4 /\ n * n = 16
      \/ n = 16 /\ n * n = 256
      \/ n = 256 /\ n * n = 65536
  OBVIOUS
<1> QED
  BY <1>2, <1>4, <1>5, <1>6, <1>7

LEMMA LoopsHalve == Halves(Eight(MulRound), 256) /\ Halves(Sixteen(MulRound), 65536)
<1>1. Halves(Twice(MulRound), 4)
  BY MulRoundHalves, HalvesTwice
<1>2. Halves(Twice(Twice(MulRound)), 16)
  BY <1>1, HalvesTwice
<1>3. Halves(Eight(MulRound), 256)
  BY <1>2, HalvesTwice DEF Eight
<1>4. Halves(Sixteen(MulRound), 65536)
  BY <1>3, HalvesTwice DEF Sixteen
<1> QED
  BY <1>3, <1>4

LEMMA ProductBound ==
  ASSUME NEW x \in Int, NEW y \in Int, NEW m \in Nat, NEW n \in Nat,
         0 <= x, x <= m, 0 <= y, y <= n
  PROVE  x * y \in Int /\ 0 <= x * y /\ x * y <= m * n
<1>1. x * y <= m * y /\ y * m <= n * m /\ 0 <= x * y
  BY TimesFacts
<1> QED
  BY <1>1, TimesFacts

LEMMA ProductIs ==
  ASSUME NEW x \in Word16, NEW y \in Word16
  PROVE  LET eight   == Eight(MulRound)[MulStart(x, y)].product
             sixteen == Sixteen(MulRound)[MulStart(x, y)].product
         IN  /\ sixteen \in Long /\ LongNum(sixteen) = x * y
             /\ y < 256 => eight \in Long /\ LongNum(eight) = x * y
<1> DEFINE s == MulStart(x, y)
<1>1. x \in Int /\ y \in Int /\ 0 <= x /\ x <= W - 1 /\ 0 <= y /\ y <= W - 1 /\ 0 \in Word16
  <2>1. 0 \in Int /\ 0 <= W - 1
    BY DEF W
  <2> QED
    BY <2>1, InWord16
<1>2. s \in MulState
  BY <1>1 DEF MulStart, MulState, Long
<1>3. Owed(s) = x * y /\ s.multiplier = y
  <2>1. Owed(s) = (0 + W * 0) + (x + W * 0) * y /\ s.multiplier = y
    BY DEF Owed, MulStart, LongNum
  <2> QED
    BY <1>1, <2>1 DEF W
<1>4. Owed(s) < Limit
  <2>1. x * y <= (W - 1) * (W - 1) /\ x * y \in Int
    BY <1>1, ProductBound DEF W
  <2> QED
    BY <1>3, <2>1 DEF W, Limit
<1> HIDE DEF s
<1>5. ASSUME NEW t \in MulState, Owed(t) = x * y, t.multiplier = 0
      PROVE  t.product \in Long /\ LongNum(t.product) = x * y
  <2>1. t.product \in Long /\ t.multiplicand \in Long
    BY DEF MulState
  <2>2. LongNum(t.product) \in Int /\ LongNum(t.multiplicand) \in Int
    BY <2>1, LongIs
  <2> QED
    BY <1>5, <2>1, <2>2 DEF Owed
<1>6. ASSUME NEW f, NEW n, Halves(f, n)
      PROVE  f[s] \in MulState /\ Owed(f[s]) = x * y /\ f[s].multiplier = y \div n
  BY <1>2, <1>3, <1>4, <1>6 DEF Halves
<1>8. /\ Sixteen(MulRound)[s] \in MulState /\ Owed(Sixteen(MulRound)[s]) = x * y
      /\ Sixteen(MulRound)[s].multiplier = y \div 65536
  BY <1>6, LoopsHalve
<1>9. /\ Eight(MulRound)[s] \in MulState /\ Owed(Eight(MulRound)[s]) = x * y
      /\ Eight(MulRound)[s].multiplier = y \div 256
  BY <1>6, LoopsHalve
<1>7. y \div 65536 = 0 /\ (y < 256 => y \div 256 = 0)
  BY <1>1 DEF W
<1> QED
  BY <1>5, <1>7, <1>8, <1>9 DEF s

LEMMA BytesOf ==
  ASSUME NEW x \in Word16
  PROVE  \E h \in Int, l \in Int :
           /\ h = x \div 256 /\ l = x % 256 /\ x = 256 * h + l
           /\ 0 <= h /\ h <= 255 /\ 0 <= l /\ l <= 255
<1>1. x \in Int /\ 0 <= x /\ x <= 65535
  BY InWord16 DEF W
<1>2. \A n \in Int : 0 <= n /\ n <= 65535 =>
        /\ n \div 256 \in Int /\ n % 256 \in Int /\ n = 256 * (n \div 256) + (n % 256)
        /\ 0 <= n \div 256 /\ n \div 256 <= 255 /\ 0 <= n % 256 /\ n % 256 <= 255
  OBVIOUS
<1> QED
  BY <1>1, <1>2

\* The product of words put together from products of bytes.
LEMMA LongProductIs ==
  ASSUME NEW x \in Word16, NEW y \in Word16
  PROVE  LongProduct(x, y) \in Long /\ LongNum(LongProduct(x, y)) = x * y
<1>1. PICK a \in Int, b \in Int :
        /\ a = x \div 256 /\ b = x % 256 /\ x = 256 * a + b
        /\ 0 <= a /\ a <= 255 /\ 0 <= b /\ b <= 255
  BY BytesOf
<1>2. PICK c \in Int, d \in Int :
        /\ c = y \div 256 /\ d = y % 256 /\ y = 256 * c + d
        /\ 0 <= c /\ c <= 255 /\ 0 <= d /\ d <= 255
  BY BytesOf
<1>3. PICK ac \in Int, ad \in Int, bc \in Int, bd \in Int :
        /\ ac = a * c /\ ad = a * d /\ bc = b * c /\ bd = b * d
        /\ 0 <= ac /\ ac <= 65025 /\ 0 <= ad /\ ad <= 65025
        /\ 0 <= bc /\ bc <= 65025 /\ 0 <= bd /\ bd <= 65025
  <2>1. \A u, v \in Int : 0 <= u /\ u <= 255 /\ 0 <= v /\ v <= 255
          => u * v \in Int /\ 0 <= u * v /\ u * v <= 255 * 255
    BY ProductBound
  <2> QED
    BY <1>1, <1>2, <2>1
<1>4. x * y = 65536 * ac + 256 * (bc + ad) + bd
  <2>1. x * y = (256 * a + b) * (256 * c + d)
    BY <1>1, <1>2
  <2>2. (256 * a + b) * (256 * c + d)
          = 65536 * (a * c) + 256 * ((b * c) + (a * d)) + (b * d)
    BY <1>1, <1>2
  <2> QED
    BY <1>3, <2>1, <2>2
<1>5. PICK middle \in Int : middle = bc + ad
  BY <1>3
<1>6. PICK mh \in Int, ml \in Int :
        mh = middle \div 256 /\ ml = middle % 256 /\ middle = 256 * mh + ml /\ 0 <= ml /\ ml <= 255
  OBVIOUS
<1>7. PICK sum \in Int : sum = bd + 256 * ml
  BY <1>3, <1>6
<1>8. PICK sh \in Int, sl \in Int :
        sh = sum \div W /\ sl = sum % W /\ sum = W * sh + sl /\ 0 <= sl /\ sl < W
  BY DivModW
<1>9. PICK hi \in Int : hi = ac + mh + sh
  BY <1>3, <1>6, <1>8
<1>10. LongProduct(x, y) = [lo |-> sl, hi |-> hi]
  <2>1. middle = b * c + a * d
    BY <1>3, <1>5
  <2>2. sum = b * d + 256 * (middle % 256)
    BY <1>3, <1>6, <1>7
  <2>3. hi = a * c + (middle \div 256) + (sum \div W)
    <3>1. ac = a * c /\ mh = middle \div 256 /\ sh = sum \div W
      BY <1>3, <1>6, <1>8
    <3> QED
      BY <1>9, <3>1
  <2> DEFINE mid == (x % 256) * (y \div 256) + (x \div 256) * (y % 256)
             all == (x % 256) * (y % 256) + 256 * (mid % 256)
             top == (x \div 256) * (y \div 256) + (mid \div 256) + (all \div W)
  <2>4. LongProduct(x, y) = [lo |-> all % W, hi |-> top]
    BY DEF LongProduct
  <2>5. mid = b * c + a * d
    BY <1>1, <1>2, ZenonT(60)
  <2>6. all = b * d + 256 * (mid % 256)
    BY <1>1, <1>2, ZenonT(60)
  <2>7. top = a * c + (mid \div 256) + (all \div W)
    BY <1>1, <1>2, ZenonT(60)
  <2> HIDE DEF mid, all, top
  <2>8. middle = mid /\ sum = all
    BY <2>1, <2>2, <2>5, <2>6, Zenon
  <2>9. hi = top /\ sl = all % W
    BY <1>8, <2>3, <2>7, <2>8, Zenon
  <2> QED
    BY <2>4, <2>9, Zenon
<1>11. sl + W * hi = x * y
  BY <1>3, <1>4, <1>5, <1>6, <1>7, <1>8, <1>9 DEF W
<1>12. 0 <= hi
  BY <1>3, <1>5, <1>6, <1>7, <1>8, <1>9 DEF W
<1>13. hi < W
  BY <1>3, <1>5, <1>6, <1>7, <1>8, <1>9 DEF W
<1>14. sl \in Word16 /\ hi \in Word16
  BY <1>8, <1>12, <1>13, InWord16, DivModW
<1> QED
  BY <1>10, <1>11, <1>14 DEF LongNum, Long

LEMMA WordPair == \A n \in Word16 : Word(Pair(n)) = n /\ Pair(n) \in Value
<1> SUFFICES ASSUME NEW n \in Word16 PROVE Word(Pair(n)) = n
  BY PairType
<1>1. PICK h \in Int, l \in Int :
        /\ h = n \div 256 /\ l = n % 256 /\ n = 256 * h + l
        /\ 0 <= h /\ h <= 255 /\ 0 <= l /\ l <= 255
  BY BytesOf
<1>2. h % 256 = h
  BY <1>1
<1> QED
  BY <1>1, <1>2 DEF Word, Pair

LEMMA MulU8Is ==
  ASSUME NEW a \in Byte, NEW b \in Byte
  PROVE  /\ MulU8(a, b).ax \in Word16 /\ MulU8(a, b).ax = a * b
         /\ MulU8(a, b).carry = (a * b > 255)
<1> DEFINE p == Eight(MulRound)[MulStart(a, b)].product
<1>1. a \in Word16 /\ b \in Word16 /\ b < 256
  BY InByte, InWord16 DEF W
<1>2. p \in Long /\ LongNum(p) = a * b
  BY <1>1, ProductIs
<1>3. a * b \in Int /\ 0 <= a * b /\ a * b <= 255 * 255
  BY InByte, ProductBound
<1>4. MulU8(a, b) = [ax |-> p.lo, carry |-> p.lo \div 256 # 0]
  BY DEF MulU8
<1> HIDE DEF p
<1>5. p.lo = a * b /\ p.lo \in Word16
  <2>1. p.lo = a * b
    BY <1>2, <1>3, LongIs DEF LongNum, W
  <2> QED
    BY <1>2, <2>1 DEF Long
<1>6. \A n \in Int : 0 <= n => (n \div 256 # 0 <=> n > 255)
  OBVIOUS
<1>7. (p.lo \div 256 # 0) = (a * b > 255)
  BY <1>3, <1>5, <1>6
<1> QED
  BY <1>4, <1>5, <1>7

\* A byte's magnitude and sign.
LEMMA ByteSign ==
  ASSUME NEW a \in Byte
  PROVE  /\ ByteMagnitude(a) \in Byte /\ ByteMagnitude(a) <= 128
         /\ a >= 128 => SignedOf(a, 256) = -ByteMagnitude(a) /\ ByteMagnitude(a) > 0
         /\ a < 128 => SignedOf(a, 256) = ByteMagnitude(a) /\ ByteMagnitude(a) <= 127
  BY DEF Byte, ByteMagnitude, SignedOf

\* The product of signed bytes, of magnitude p.
LEMMA SignedByteProduct ==
  ASSUME NEW p \in Int, 0 <= p, p <= 16384
  PROVE  /\ SignedOf(p, W) = p /\ SignedOf(Negated(p), W) = -p
         /\ p \div 256 # (IF p % 256 >= 128 THEN 255 ELSE 0) <=> ~Representable(p, 256)
         /\ Negated(p) \div 256 # (IF Negated(p) % 256 >= 128 THEN 255 ELSE 0)
              <=> ~Representable(-p, 256)
<1>1. Negated(p) = IF p = 0 THEN 0 ELSE 65536 - p
  BY DEF Negated, W
<1>2. SignedOf(p, W) = p /\ SignedOf(Negated(p), W) = -p
  BY <1>1 DEF SignedOf, W
<1>3. /\ Representable(p, 256) <=> p < 128
      /\ Representable(-p, 256) <=> p <= 128
  BY DEF Representable
<1>4. p \div 256 # (IF p % 256 >= 128 THEN 255 ELSE 0) <=> ~(p < 128)
  OBVIOUS
<1>5. p > 0 => ((65536 - p) \div 256 # (IF (65536 - p) % 256 >= 128 THEN 255 ELSE 0)
                  <=> ~(p <= 128))
  OBVIOUS
<1>6. Negated(p) \div 256 # (IF Negated(p) % 256 >= 128 THEN 255 ELSE 0) <=> ~(p <= 128)
  <2>1. CASE p = 0
    BY <1>1, <2>1
  <2>2. CASE p > 0
    BY <1>1, <1>5, <2>2
  <2> QED
    BY <2>1, <2>2
<1> QED
  BY <1>2, <1>3, <1>4, <1>6

LEMMA MulS8Is ==
  ASSUME NEW a \in Byte, NEW b \in Byte
  PROVE  LET n == SignedOf(a, 256) * SignedOf(b, 256)
         IN  /\ MulS8(a, b).ax \in Word16 /\ SignedOf(MulS8(a, b).ax, W) = n
             /\ MulS8(a, b).carry = ~Representable(n, 256)
<1> DEFINE p == MulU8(ByteMagnitude(a), ByteMagnitude(b)).ax
           n == SignedOf(a, 256) * SignedOf(b, 256)
           opposed == (a >= 128) # (b >= 128)
           v == IF opposed THEN Negated(p) ELSE p
<1>1. PICK x \in Int, y \in Int :
        /\ x = ByteMagnitude(a) /\ y = ByteMagnitude(b)
        /\ 0 <= x /\ x <= 128 /\ 0 <= y /\ y <= 128
  BY ByteSign, InByte
<1>2. p = x * y /\ p \in Word16 /\ x * y \in Int /\ 0 <= x * y /\ x * y <= 128 * 128
  BY <1>1, ByteSign, MulU8Is, ProductBound
<1>3. n = IF opposed THEN -(x * y) ELSE x * y
  <2>1. a \in Int /\ b \in Int
    BY InByte
  <2>2. \A u, w \in Int : /\ (-u) * w = -(u * w) /\ u * (-w) = -(u * w) /\ (-u) * (-w) = u * w
    OBVIOUS
  <2>3. CASE a >= 128 /\ b >= 128
    BY <1>1, <2>2, <2>3, ByteSign
  <2>4. CASE a >= 128 /\ ~(b >= 128)
    BY <1>1, <2>1, <2>2, <2>4, ByteSign
  <2>5. CASE ~(a >= 128) /\ b >= 128
    BY <1>1, <2>1, <2>2, <2>5, ByteSign
  <2>6. CASE ~(a >= 128) /\ ~(b >= 128)
    BY <1>1, <2>1, <2>6, ByteSign
  <2> QED
    BY <2>3, <2>4, <2>5, <2>6
<1>4. MulS8(a, b) = [ax |-> v,
                     carry |-> v \div 256 # (IF v % 256 >= 128 THEN 255 ELSE 0)]
  BY DEF MulS8
<1>5. v \in Word16
  BY <1>2, MagnitudeType
<1> HIDE DEF p, opposed, n
<1>6. p \in Int /\ 0 <= p /\ p <= 16384
  BY <1>2
<1>7. CASE opposed
  <2>1. v = Negated(p) /\ n = -p
    BY <1>2, <1>3, <1>7
  <2> HIDE DEF v
  <2>2. SignedOf(v, W) = n
    BY <1>6, <2>1, SignedByteProduct
  <2>3. v \div 256 # (IF v % 256 >= 128 THEN 255 ELSE 0) <=> ~Representable(n, 256)
    BY <1>6, <2>1, SignedByteProduct
  <2> QED
    BY <1>4, <1>5, <2>2, <2>3 DEF n
<1>8. CASE ~opposed
  <2>1. v = p /\ n = p
    BY <1>2, <1>3, <1>8
  <2> HIDE DEF v
  <2>2. SignedOf(v, W) = n
    BY <1>6, <2>1, SignedByteProduct
  <2>3. v \div 256 # (IF v % 256 >= 128 THEN 255 ELSE 0) <=> ~Representable(n, 256)
    BY <1>6, <2>1, SignedByteProduct
  <2> QED
    BY <1>4, <1>5, <2>2, <2>3 DEF n
<1> QED
  BY <1>7, <1>8

LEMMA MulU16Is ==
  ASSUME NEW a \in Word16, NEW b \in Word16
  PROVE  LET x == MulU16(a, b)
         IN  /\ x.ax \in Word16 /\ x.dx \in Word16
             /\ [lo |-> x.ax, hi |-> x.dx] = LongProduct(a, b)
             /\ x.carry = (x.dx # 0)
<1> DEFINE p == Sixteen(MulRound)[MulStart(a, b)].product
<1>1. p \in Long /\ LongNum(p) = a * b
  BY ProductIs
<1>2. MulU16(a, b) = [ax |-> p.lo, dx |-> p.hi, carry |-> p.hi # 0]
  BY DEF MulU16
<1> HIDE DEF p
<1>3. p = LongProduct(a, b)
  BY <1>1, LongProductIs, LongSame
<1>4. p.lo \in Word16 /\ p.hi \in Word16 /\ [lo |-> p.lo, hi |-> p.hi] = p
  BY <1>1 DEF Long
<1> QED
  BY <1>2, <1>3, <1>4

\* A word's magnitude.
LEMMA WordMagnitude ==
  ASSUME NEW a \in Word16
  PROVE  /\ Magnitude(a) \in Word16 /\ Magnitude(a) \in Int
         /\ 0 <= Magnitude(a) /\ Magnitude(a) <= 32768
         /\ ~Negative(a) => Magnitude(a) < 32768
         /\ Negative(a) => 0 < Magnitude(a)
<1>1. a \in Int /\ 0 <= a /\ a <= 65535
  BY InWord16 DEF W
<1>2. Magnitude(a) = IF a >= 32768 THEN 65536 - a ELSE a
  BY <1>1 DEF Magnitude, Negative, Negated, W
<1> QED
  BY <1>1, <1>2, MagnitudeType DEF Negative, W

\* The upper half of a product of magnitudes is more than the sign of the
\* lower exactly when the signed product does not fit a word.
LEMMA SignedWordProduct ==
  ASSUME NEW m \in Long, LongNum(m) <= 1073741824
  PROVE  LET n == LongNegated(m)
         IN  /\ n.hi # (IF Negative(n.lo) THEN W - 1 ELSE 0)
                  <=> m.hi # 0 \/ m.lo > W \div 2
             /\ m.hi # (IF Negative(m.lo) THEN W - 1 ELSE 0)
                  <=> m.hi # 0 \/ m.lo > (W \div 2) - 1
<1> DEFINE n == LongNegated(m)
<1>1. PICK l \in Int, h \in Int :
        l = m.lo /\ h = m.hi /\ 0 <= l /\ l < 65536 /\ 0 <= h /\ h < 65536
  BY LongIs DEF W
<1>2. h <= 16384
  BY <1>1 DEF LongNum, W
<1>3. n.lo = (IF l = 0 THEN 0 ELSE 65536 - l)
  BY <1>1 DEF LongNegated, Negated, W
<1>4. n.hi = (IF l = 0 THEN IF h = 0 THEN 0 ELSE 65536 - h ELSE 65535 - h)
  BY <1>1 DEF LongNegated, Negated, W
<1>5. W \div 2 = 32768 /\ W = 65536
  BY DEF W
<1>6. h # (IF l >= 32768 THEN 65535 ELSE 0) <=> h # 0 \/ l > 32767
  BY <1>1, <1>2
<1>7. n.hi # (IF n.lo >= 32768 THEN 65535 ELSE 0) <=> h # 0 \/ l > 32768
  <2>1. CASE l = 0
    BY <1>1, <1>3, <1>4, <2>1
  <2>2. CASE l # 0
    BY <1>1, <1>2, <1>3, <1>4, <2>2
  <2> QED
    BY <2>1, <2>2
<1> HIDE DEF n
<1> QED
  BY <1>1, <1>5, <1>6, <1>7 DEF Negative, n

LEMMA MulS16Is ==
  ASSUME NEW a \in Word16, NEW b \in Word16
  PROVE  LET x == MulS16(a, b)
             m == LongProduct(Magnitude(a), Magnitude(b))
             opposed == Negative(a) # Negative(b)
         IN  /\ x.ax \in Word16 /\ x.dx \in Word16
             /\ [lo |-> x.ax, hi |-> x.dx] = IF opposed THEN LongNegated(m) ELSE m
             /\ x.carry = (m.hi # 0 \/ m.lo > (IF opposed THEN W \div 2
                                                          ELSE (W \div 2) - 1))
<1> DEFINE p == Sixteen(MulRound)[MulStart(Magnitude(a), Magnitude(b))].product
           m == LongProduct(Magnitude(a), Magnitude(b))
           opposed == Negative(a) # Negative(b)
           v == IF opposed THEN LongNegated(p) ELSE p
<1>1. /\ Magnitude(a) \in Word16 /\ Magnitude(b) \in Word16
      /\ Magnitude(a) \in Int /\ 0 <= Magnitude(a) /\ Magnitude(a) <= 32768
      /\ Magnitude(b) \in Int /\ 0 <= Magnitude(b) /\ Magnitude(b) <= 32768
  BY WordMagnitude
<1>2. /\ p \in Long /\ m \in Long /\ LongNum(p) = LongNum(m)
      /\ LongNum(m) = Magnitude(a) * Magnitude(b)
  BY <1>1, ProductIs, LongProductIs
<1>3. p = m
  BY <1>2, LongSame
<1>4. Magnitude(a) * Magnitude(b) <= 32768 * 32768
  BY <1>1, ProductBound
<1>5. LongNum(m) <= 1073741824
  BY <1>2, <1>4
<1>6. MulS16(a, b) = [ax |-> v.lo, dx |-> v.hi,
                      carry |-> v.hi # (IF Negative(v.lo) THEN W - 1 ELSE 0)]
  BY DEF MulS16
<1>7. v \in Long /\ v = IF opposed THEN LongNegated(m) ELSE m
  BY <1>2, <1>3, LongType
<1> HIDE DEF p, opposed, m, v
<1>8. v.lo \in Word16 /\ v.hi \in Word16 /\ [lo |-> v.lo, hi |-> v.hi] = v
  BY <1>7 DEF Long
<1>9. v.hi # (IF Negative(v.lo) THEN W - 1 ELSE 0)
        <=> m.hi # 0 \/ m.lo > (IF opposed THEN W \div 2 ELSE (W \div 2) - 1)
  <2>1. CASE opposed
    BY <1>2, <1>5, <1>7, <2>1, SignedWordProduct
  <2>2. CASE ~opposed
    BY <1>2, <1>5, <1>7, <2>2, SignedWordProduct
  <2> QED
    BY <2>1, <2>2
<1>10. MulS16(a, b).carry = (m.hi # 0 \/ m.lo > (IF opposed THEN W \div 2
                                                            ELSE (W \div 2) - 1))
  BY <1>6, <1>9
<1> QED
  BY <1>6, <1>7, <1>8, <1>10 DEF m, opposed

\* What @group3_multiply makes of a product.
LEMMA MultipliedIs ==
  ASSUME TypeOK, i.wide \in BOOLEAN, NEW x, x.ax \in Word16, x.carry \in BOOLEAN,
         Multiplied(x)
  PROVE  /\ Word(ax') = x.ax
         /\ flags'.OF = x.carry
         /\ ~alu_preserve_cf => flags'.CF = flags'.OF
<1> DEFINE f == AluFlags(AND, ax, ax, Pair(x.ax), i.wide, x.carry)
           g == [f EXCEPT !.OF = x.carry]
<1>1. f \in Flags /\ f.CF = x.carry
  BY AluFlagsType DEF AluFlags
<1>2. g \in Flags /\ g.OF = x.carry /\ g.CF = x.carry
  BY <1>1 DEF Flags
<1>3. flags' = IF alu_preserve_cf THEN [g EXCEPT !.CF = alu_saved_cf] ELSE g
  BY DEF Multiplied, Preserving
<1> HIDE DEF f, g
<1>4. flags'.OF = x.carry /\ (~alu_preserve_cf => flags' = g)
  BY <1>2, <1>3 DEF Flags
<1>5. Word(ax') = x.ax
  BY WordPair DEF Multiplied
<1> QED
  BY <1>2, <1>4, <1>5

\* What ProductsRight says of a step.
Product ==
  /\ i.kind = "mul" /\ ~i.wide =>
       /\ Word(ax') = ax.lo * operand.lo
       /\ flags'.OF = (Word(ax') > 255)
  /\ i.kind = "imul" /\ ~i.wide =>
       LET n == Signed(ax) * Signed(operand)
       IN  /\ SignedOf(Word(ax'), W) = n
           /\ flags'.OF = ~Representable(n, 256)
  /\ i.kind = "mul" /\ i.wide =>
       /\ DoubleWord(ax', dx') = LongProduct(Word(ax), Word(operand))
       /\ flags'.OF = (Word(dx') # 0)
  /\ i.kind = "imul" /\ i.wide =>
       LET m == LongProduct(Magnitude(Word(ax)), Magnitude(Word(operand)))
           opposed == Negative(Word(ax)) # Negative(Word(operand))
       IN  /\ DoubleWord(ax', dx') = IF opposed THEN LongNegated(m) ELSE m
           /\ flags'.OF = (m.hi # 0 \/ m.lo > (IF opposed THEN W \div 2
                                                           ELSE (W \div 2) - 1))
  /\ i.kind \in {"mul", "imul"} /\ ~alu_preserve_cf => flags'.CF = flags'.OF

LEMMA MulProduct ==
  ASSUME TypeOK,
         Multiply("mul", MulU8(ax.lo, operand.lo), MulU16(Word(ax), Word(operand)))
  PROVE  Product
<1> DEFINE b == MulU8(ax.lo, operand.lo)
           w == MulU16(Word(ax), Word(operand))
<1>1. i.kind = "mul" /\ i.wide \in BOOLEAN
  BY FetchedType DEF Multiply
<1>2. /\ ax.lo \in Byte /\ operand.lo \in Byte
      /\ Word(ax) \in Word16 /\ Word(operand) \in Word16
  BY OperandTypes
<1>3. CASE ~i.wide
  <2>1. Multiplied(b)
    BY <1>3 DEF Multiply
  <2>2. /\ b.ax \in Word16 /\ b.ax = ax.lo * operand.lo
        /\ b.carry = (ax.lo * operand.lo > 255)
    BY <1>2, MulU8Is
  <2>3. b.carry \in BOOLEAN
    BY <2>2
  <2> HIDE DEF b
  <2>4. /\ Word(ax') = b.ax /\ flags'.OF = b.carry
        /\ ~alu_preserve_cf => flags'.CF = flags'.OF
    BY <1>1, <2>1, <2>2, <2>3, MultipliedIs
  <2> QED
    BY <1>1, <1>3, <2>2, <2>4 DEF Product
<1>4. CASE i.wide
  <2>1. Multiplied(w) /\ dx' = Pair(w.dx)
    BY <1>4 DEF Multiply
  <2>2. /\ w.ax \in Word16 /\ w.dx \in Word16 /\ w.carry = (w.dx # 0)
        /\ [lo |-> w.ax, hi |-> w.dx] = LongProduct(Word(ax), Word(operand))
    BY <1>2, MulU16Is
  <2>3. w.carry \in BOOLEAN
    BY <2>2
  <2> HIDE DEF w
  <2>4. /\ Word(ax') = w.ax /\ flags'.OF = w.carry
        /\ ~alu_preserve_cf => flags'.CF = flags'.OF
    BY <1>1, <2>1, <2>2, <2>3, MultipliedIs
  <2>5. Word(dx') = w.dx
    BY <2>1, <2>2, WordPair
  <2>6. DoubleWord(ax', dx') = LongProduct(Word(ax), Word(operand))
    BY <2>2, <2>4, <2>5 DEF DoubleWord
  <2> QED
    BY <1>1, <1>4, <2>2, <2>4, <2>5, <2>6 DEF Product
<1> QED
  BY <1>1, <1>3, <1>4

LEMMA ImulProduct ==
  ASSUME TypeOK,
         Multiply("imul", MulS8(ax.lo, operand.lo), MulS16(Word(ax), Word(operand)))
  PROVE  Product
<1> DEFINE b == MulS8(ax.lo, operand.lo)
           w == MulS16(Word(ax), Word(operand))
<1>1. i.kind = "imul" /\ i.wide \in BOOLEAN
  BY FetchedType DEF Multiply
<1>2. /\ ax.lo \in Byte /\ operand.lo \in Byte
      /\ Word(ax) \in Word16 /\ Word(operand) \in Word16
  BY OperandTypes
<1>3. CASE ~i.wide
  <2> DEFINE n == Signed(ax) * Signed(operand)
  <2>1. Multiplied(b)
    BY <1>3 DEF Multiply
  <2>2. Signed(ax) = SignedOf(ax.lo, 256) /\ Signed(operand) = SignedOf(operand.lo, 256)
    BY <1>3 DEF Signed, Unsigned, Size
  <2>3. /\ b.ax \in Word16 /\ SignedOf(b.ax, W) = n
        /\ b.carry = ~Representable(n, 256)
    BY <1>2, <2>2, MulS8Is
  <2>4. b.carry \in BOOLEAN
    BY <2>3
  <2> HIDE DEF b, n
  <2>5. /\ Word(ax') = b.ax /\ flags'.OF = b.carry
        /\ ~alu_preserve_cf => flags'.CF = flags'.OF
    BY <1>1, <2>1, <2>3, <2>4, MultipliedIs
  <2> QED
    BY <1>1, <1>3, <2>3, <2>5 DEF Product, n
<1>4. CASE i.wide
  <2> DEFINE m == LongProduct(Magnitude(Word(ax)), Magnitude(Word(operand)))
             opposed == Negative(Word(ax)) # Negative(Word(operand))
             over == m.hi # 0 \/ m.lo > (IF opposed THEN W \div 2 ELSE (W \div 2) - 1)
  <2>1. Multiplied(w) /\ dx' = Pair(w.dx)
    BY <1>4 DEF Multiply
  <2>2. /\ w.ax \in Word16 /\ w.dx \in Word16 /\ w.carry = over
        /\ [lo |-> w.ax, hi |-> w.dx] = IF opposed THEN LongNegated(m) ELSE m
    BY <1>2, MulS16Is
  <2>3. w.carry \in BOOLEAN
    BY <2>2
  <2> HIDE DEF w, over
  <2>4. /\ Word(ax') = w.ax /\ flags'.OF = w.carry
        /\ ~alu_preserve_cf => flags'.CF = flags'.OF
    BY <1>1, <2>1, <2>2, <2>3, MultipliedIs
  <2>5. Word(dx') = w.dx
    BY <2>1, <2>2, WordPair
  <2>6. DoubleWord(ax', dx') = IF opposed THEN LongNegated(m) ELSE m
    BY <2>2, <2>4, <2>5 DEF DoubleWord
  <2>7. flags'.OF = over
    BY <2>2, <2>4
  <2> QED
    BY <1>1, <1>4, <2>4, <2>6, <2>7 DEF Product, over
<1> QED
  BY <1>1, <1>3, <1>4

\* What was fetched by an action that is not the one of that kind.
LEMMA ByKind ==
  ASSUME TypeOK, Next
  PROVE  /\ i.kind \in Kinds
         /\ i.kind = "mul" =>
              Multiply("mul", MulU8(ax.lo, operand.lo), MulU16(Word(ax), Word(operand)))
         /\ i.kind = "imul" =>
              Multiply("imul", MulS8(ax.lo, operand.lo), MulS16(Word(ax), Word(operand)))
         /\ i.kind = "div" =>
              Divide("div", DivU8(Word(ax), operand.lo),
                            DivU16(Word(dx), Word(ax), Word(operand)))
         /\ i.kind = "idiv" =>
              Divide("idiv", DivS8(Word(ax), operand.lo),
                             DivS16(Word(dx), Word(ax), Word(operand)))
         /\ i.kind = "daa" => Decimal("daa", DecimalAdd(ax.lo, flags))
         /\ i.kind = "das" => Decimal("das", DecimalSubtract(ax.lo, flags))
         /\ i.kind = "shift" => ShiftOne
  BY Zenon DEF Next, Alu, IncDec, Test, Group3Test, Group3Not, ShiftOne, Decimal, Aam,
               Aad, Multiply, Divide, Cbw, Cwd, SetCarry, Fetched, i, Kinds

(***************************************************************************)
(* MUL and IMUL of whatever bytes or words give the exact product, and CF  *)
(* and OF say whether its upper half matters (multiply.s).                 *)
(***************************************************************************)
THEOREM ProductsCorrect == Spec => ProductsRight
<1>1. TypeOK /\ [Next]_vars => [Product]_vars
  <2> SUFFICES ASSUME TypeOK, Next PROVE Product
    OBVIOUS
  <2>1. CASE i.kind = "mul"
    BY <2>1, ByKind, MulProduct
  <2>2. CASE i.kind = "imul"
    BY <2>2, ByKind, ImulProduct
  <2>3. CASE i.kind \notin {"mul", "imul"}
    BY <2>3 DEF Product
  <2> QED
    BY <2>1, <2>2, <2>3
<1> QED
  BY <1>1, TypeCorrect, PTL DEF Spec, ProductsRight, Product

----------------------------------------------------------------------------
(***************************************************************************)
(* Division.  Remainder and quotient register are one number, the          *)
(* remainder the upper part; n rounds multiply it by n and take away the   *)
(* part k of the quotient they have found so many times m * d - 1: the     *)
(* divisor from the remainder, and a bit put into the register.            *)
(***************************************************************************)
Joined(s, m) == m * s.r + s.q

Found(s, t, d, e, m, n) ==
  /\ t.r < d
  /\ \E k \in 0 .. n - 1 : Joined(t, m) = n * Joined(s, m) - k * e

Divides(f, S, d, m, n) ==
  f \in [S -> S] /\ \A s \in S : s.r < d => Found(s, f[s], d, m * d - 1, m, n)

LEMMA FoundTwice ==
  ASSUME NEW d \in Int, NEW e \in Int, NEW m, NEW n \in {2, 4, 16, 256},
         NEW s, NEW t, NEW u,
         Joined(s, m) \in Int, Joined(t, m) \in Int, Joined(u, m) \in Int,
         Found(s, t, d, e, m, n), Found(t, u, d, e, m, n)
  PROVE  Found(s, u, d, e, m, n * n)
<1>1. PICK k \in 0 .. n - 1 : Joined(t, m) = n * Joined(s, m) - k * e
  BY DEF Found
<1>2. PICK l \in 0 .. n - 1 : Joined(u, m) = n * Joined(t, m) - l * e
  BY DEF Found
<1>3. PICK x \in Int, y \in Int, z \in Int :
        x = Joined(s, m) /\ y = Joined(t, m) /\ z = Joined(u, m)
  OBVIOUS
<1>4. z = (n * n) * x - (n * k + l) * e
  BY <1>1, <1>2, <1>3
<1>5. n * k + l \in 0 .. n * n - 1
  OBVIOUS
<1>6. u.r < d
  BY DEF Found
<1> QED
  BY <1>3, <1>4, <1>5, <1>6, Zenon DEF Found

LEMMA DividesTwice ==
  ASSUME NEW f, NEW S, NEW d \in Int, NEW m \in {256, 65536}, NEW n \in {2, 4, 16, 256},
         \A s \in S : s.q \in Int /\ s.r \in Int,
         Divides(f, S, d, m, n)
  PROVE  Divides(Twice(f), S, d, m, n * n)
<1>1. f \in [S -> S] /\ Twice(f) \in [S -> S]
  BY TwiceType DEF Divides
<1> SUFFICES ASSUME NEW s \in S, s.r < d
             PROVE  Found(s, Twice(f)[s], d, m * d - 1, m, n * n)
  BY <1>1 DEF Divides
<1>2. Twice(f)[s] = f[f[s]] /\ f[s] \in S /\ f[f[s]] \in S
  BY <1>1 DEF Twice
<1>3. Found(s, f[s], d, m * d - 1, m, n)
  BY DEF Divides
<1>4. f[s].r < d
  BY <1>3 DEF Found
<1>5. Found(f[s], f[f[s]], d, m * d - 1, m, n)
  BY <1>2, <1>4 DEF Divides
<1>6. /\ Joined(s, m) \in Int /\ Joined(f[s], m) \in Int
      /\ Joined(f[f[s]], m) \in Int /\ m * d - 1 \in Int
  <2>1. ASSUME NEW v \in S PROVE Joined(v, m) \in Int
    BY DEF Joined
  <2> QED
    BY <1>2, <2>1
<1> QED
  BY <1>2, <1>3, <1>5, <1>6, FoundTwice

LEMMA LoopsDivide ==
  ASSUME NEW f, NEW S, NEW d \in Int, NEW m \in {256, 65536},
         \A s \in S : s.q \in Int /\ s.r \in Int,
         Divides(f, S, d, m, 2)
  PROVE  Divides(Sixteen(f), S, d, m, 65536)
<1>1. Divides(Twice(f), S, d, m, 4)
  BY DividesTwice
<1>2. Divides(Twice(Twice(f)), S, d, m, 16)
  BY <1>1, DividesTwice
<1>3. Divides(Eight(f), S, d, m, 256)
  BY <1>2, DividesTwice DEF Eight
<1> QED
  BY <1>3, DividesTwice DEF Sixteen

\* A round of bytes goes well as long as the doubled remainder is a byte.
LEMMA Round8Goes ==
  ASSUME NEW d \in Int, 0 < d, d <= 255, NEW s \in DivState8, s.r < d, s.r < 128
  PROVE  Found(s, DivRound8(d)[s], d, 256 * d - 1, 256, 2)
<1> DEFINE doubled == 2 * s.r + (s.q \div 128)
           q       == (2 * s.q) % 256
           taken   == ((IF doubled > 255 THEN s.a ELSE doubled) - d) % 256
           t       == DivRound8(d)[s]
<1>1. s.q \in Int /\ 0 <= s.q /\ s.q <= 255 /\ s.r \in Int /\ 0 <= s.r
  BY InByte DEF DivState8
<1>2. t = IF doubled >= d THEN [q |-> q + 1, r |-> taken, a |-> taken]
                          ELSE [q |-> q, r |-> doubled, a |-> doubled]
  BY DEF DivRound8
<1>3. /\ doubled \in Int /\ q \in Int /\ doubled <= 255
      /\ 256 * doubled + q = 2 * (256 * s.r + s.q)
  <2>1. \A n \in Int : 0 <= n /\ n <= 255 =>
          /\ n \div 128 \in Int /\ n \div 128 <= 1 /\ (2 * n) % 256 \in Int
          /\ 256 * (n \div 128) + ((2 * n) % 256) = 2 * n
    OBVIOUS
  <2>2. PICK x \in Int, y \in Int : x = s.q /\ y = s.r /\ 0 <= x /\ x <= 255 /\ y < 128
    BY <1>1
  <2>3. /\ x \div 128 \in Int /\ x \div 128 <= 1 /\ (2 * x) % 256 \in Int
        /\ 256 * (x \div 128) + ((2 * x) % 256) = 2 * x
    BY <2>1, <2>2
  <2>4. PICK b \in Int : b = x \div 128
    BY <2>3
  <2>5. PICK c \in Int : c = (2 * x) % 256
    BY <2>3
  <2>6. b <= 1 /\ 256 * b + c = 2 * x /\ b = x \div 128 /\ c = (2 * x) % 256
    BY <2>3, <2>4, <2>5
  <2>7. doubled = 2 * y + b /\ q = c
    BY <2>2, <2>6
  <2> HIDE DEF doubled, q
  <2>8. 256 * doubled + q = 2 * (256 * y + x)
    <3>1. \A y1, x1, b1, c1 \in Int : 256 * b1 + c1 = 2 * x1 =>
            256 * (2 * y1 + b1) + c1 = 2 * (256 * y1 + x1)
      OBVIOUS
    <3>2. 256 * (2 * y + b) + c = 2 * (256 * y + x)
      BY <2>6, <3>1
    <3> QED
      BY <2>7, <3>2
  <2>9. doubled \in Int /\ q \in Int /\ doubled <= 255
    BY <2>2, <2>6, <2>7
  <2> QED
    BY <2>2, <2>8, <2>9
<1>4. taken = (doubled - d) % 256
  BY <1>3
<1> HIDE DEF doubled, q, taken, t
<1>5. CASE doubled >= d
  <2>1. doubled < 2 * d
    BY <1>1 DEF doubled
  <2>2. taken = doubled - d
    BY <1>3, <1>4, <1>5, <2>1
  <2>3. t.r = doubled - d /\ t.q = q + 1
    BY <1>2, <1>5, <2>2
  <2>4. 256 * t.r + t.q = 2 * (256 * s.r + s.q) - 1 * (256 * d - 1)
    BY <1>1, <1>3, <2>3
  <2>5. 1 \in 0 .. 2 - 1 /\ t.r < d
    BY <1>3, <2>1, <2>3
  <2> QED
    BY <2>4, <2>5 DEF t, Found, Joined
<1>6. CASE ~(doubled >= d)
  <2>1. t.r = doubled /\ t.q = q
    BY <1>2, <1>6
  <2>2. 256 * t.r + t.q = 2 * (256 * s.r + s.q) - 0 * (256 * d - 1)
    BY <1>1, <1>3, <2>1
  <2>3. 0 \in 0 .. 2 - 1 /\ t.r < d
    BY <1>3, <1>6, <2>1
  <2> QED
    BY <2>2, <2>3 DEF t, Found, Joined
<1> QED
  BY <1>5, <1>6

LEMMA Round16Divides ==
  ASSUME NEW d \in Word16, 0 < d
  PROVE  Divides(DivRound16(d), DivState16, d, 65536, 2)
<1> SUFFICES ASSUME NEW s \in DivState16, s.r < d
             PROVE  Found(s, DivRound16(d)[s], d, 65536 * d - 1, 65536, 2)
  BY DivRound16Type DEF Divides
<1> DEFINE doubled == 2 * s.r + (s.q \div 32768)
           q       == (2 * s.q) % 65536
           taken   == (doubled - d) % 65536
           t       == DivRound16(d)[s]
<1>1. /\ s.q \in Int /\ 0 <= s.q /\ s.q <= 65535 /\ s.r \in Int /\ 0 <= s.r
      /\ d \in Int /\ d <= 65535
  BY InWord16 DEF DivState16, W
<1>2. t = IF doubled >= d THEN [q |-> q + 1, r |-> taken] ELSE [q |-> q, r |-> doubled]
  <2>1. W \div 2 = 32768
    BY DEF W
  <2> QED
    BY <2>1 DEF DivRound16, W
<1>3. /\ doubled \in Int /\ q \in Int /\ doubled < 2 * d
      /\ 65536 * doubled + q = 2 * (65536 * s.r + s.q)
  BY <1>1
<1> HIDE DEF doubled, q, t
<1>5. CASE doubled >= d
  <2>2. taken = doubled - d
    BY <1>1, <1>3, <1>5
  <2> HIDE DEF taken
  <2>3. t.r = doubled - d /\ t.q = q + 1
    BY <1>2, <1>5, <2>2
  <2>4. 65536 * t.r + t.q = 2 * (65536 * s.r + s.q) - 1 * (65536 * d - 1)
    BY <1>1, <1>3, <2>3
  <2>5. 1 \in 0 .. 2 - 1 /\ t.r < d
    BY <1>1, <1>3, <2>3
  <2> QED
    BY <2>4, <2>5 DEF t, Found, Joined
<1>6. CASE ~(doubled >= d)
  <2>1. t.r = doubled /\ t.q = q
    BY <1>2, <1>6
  <2>2. 65536 * t.r + t.q = 2 * (65536 * s.r + s.q) - 0 * (65536 * d - 1)
    BY <1>1, <1>3, <2>1
  <2>3. 0 \in 0 .. 2 - 1 /\ t.r < d
    BY <1>1, <1>3, <1>6, <2>1
  <2> QED
    BY <2>2, <2>3 DEF t, Found, Joined
<1> QED
  BY <1>5, <1>6

IsUnit(e, d, m)   == e = m * d - 1
Makes(v, q, r, d) == v = q * d + r

\* When as many rounds are done as the register has bits, it holds just what
\* was found.
LEMMA FoundAll ==
  ASSUME NEW m \in {256, 65536}, NEW d \in Int, NEW e \in Int, NEW s, NEW t,
         Joined(s, m) \in Int, t.r \in Int, t.q \in Int, 0 <= t.q, t.q < m,
         IsUnit(e, d, m), Found(s, t, d, e, m, m)
  PROVE  t.r < d /\ Makes(Joined(s, m), t.q, t.r, d)
<1>1. PICK k \in 0 .. m - 1 : Joined(t, m) = m * Joined(s, m) - k * e
  BY DEF Found
<1>2. PICK v \in Int, q \in Int, r \in Int :
        v = Joined(s, m) /\ q = t.q /\ r = t.r /\ 0 <= q /\ q < m
  OBVIOUS
<1>3. m * r + q = m * v - k * e
  BY <1>1, <1>2 DEF Joined
<1>4. k \in Int /\ 0 <= k /\ k < m
  OBVIOUS
<1>5. PICK x \in Int : x = k * d
  BY <1>4, TimesFacts
<1>6. k * e = m * x - k
  BY <1>4, <1>5 DEF IsUnit
<1>7. q = k /\ v = x + r
  <2>1. CASE m = 256
    BY <1>2, <1>3, <1>4, <1>6, <2>1
  <2>2. CASE m = 65536
    <3>1. 65536 * r + q = 65536 * v - (65536 * x - k)
      BY <1>3, <1>6, <2>2, SMTT(30)
    <3>2. PICK w \in Int : w = r - v + x
      OBVIOUS
    <3>3. 65536 * w = k - q /\ k < 65536 /\ q < 65536
      BY <1>2, <1>4, <2>2, <3>1, <3>2, SMTT(30)
    <3>4. w = 0
      BY <1>2, <1>4, <3>3
    <3> QED
      BY <1>2, <1>4, <3>2, <3>3, <3>4, SMTT(30)
  <2> QED
    BY <2>1, <2>2
<1> QED
  BY <1>2, <1>5, <1>7 DEF Found, Makes

(***************************************************************************)
(* The rounds of bytes: after those that make p times the dividend, the    *)
(* remainder is that of the dividend's upper bits, whose weight is h.      *)
(***************************************************************************)
Weights == {<<1, 256>>, <<2, 128>>, <<4, 64>>, <<8, 32>>,
            <<16, 16>>, <<32, 8>>, <<64, 4>>, <<128, 2>>}

LEMMA WeightsAre ==
  ASSUME NEW p, NEW h, <<p, h>> \in Weights
  PROVE  /\ p \in {1, 2, 4, 8, 16, 32, 64, 128} /\ h \in {256, 128, 64, 32, 16, 8, 4, 2}
         /\ p * h = 256
BY DEF Weights

\* 256 * x + c is p times the dividend n, c above -p and below 256.
LEMMA UpperBits ==
  ASSUME NEW p, NEW h, <<p, h>> \in Weights, NEW n \in Int, NEW x \in Int, NEW c \in Int,
         p * n = 256 * x + c, -p < c, c < 256
  PROVE  n \div h = x
<1>1. CASE p = 1 /\ h = 256
  BY <1>1
<1>2. CASE p = 2 /\ h = 128
  BY <1>2
<1>3. CASE p = 4 /\ h = 64
  BY <1>3
<1>4. CASE p = 8 /\ h = 32
  BY <1>4
<1>5. CASE p = 16 /\ h = 16
  BY <1>5
<1>6. CASE p = 32 /\ h = 8
  BY <1>6
<1>7. CASE p = 64 /\ h = 4
  BY <1>7
<1>8. CASE p = 128 /\ h = 2
  BY <1>8
<1> QED
  BY <1>1, <1>2, <1>3, <1>4, <1>5, <1>6, <1>7, <1>8 DEF Weights

LEMMA PartialRemainder ==
  ASSUME NEW p, NEW h, <<p, h>> \in Weights, NEW d \in Int, 0 < d,
         NEW start, Joined(start, 256) \in Int, NEW s \in DivState8,
         Found(start, s, d, 256 * d - 1, 256, p)
  PROVE  s.r = (Joined(start, 256) \div h) % d
<1>1. PICK k \in 0 .. p - 1 : Joined(s, 256) = p * Joined(start, 256) - k * (256 * d - 1)
  BY DEF Found
<1>2. s.r < d
  BY DEF Found
<1>3. PICK q \in Int, r \in Int :
        q = s.q /\ r = s.r /\ 0 <= q /\ q <= 255 /\ 0 <= r /\ Joined(s, 256) = 256 * r + q
  BY InByte DEF DivState8, Joined
<1>4. PICK n \in Int : n = Joined(start, 256)
  OBVIOUS
<1>5. PICK v \in Int : v = k * d
  BY <1>1
<1>6. k \in Int /\ 0 <= k /\ k <= p - 1 /\ p \in Int
  BY <1>1, WeightsAre
<1>7. k * (256 * d - 1) = 256 * v - k
  BY <1>5, <1>6
<1>8. p * n = 256 * (r + v) + (q - k)
  <2>1. PICK w \in Int : w = p * n
    BY <1>6
  <2>2. 256 * r + q = w - (256 * v - k)
    BY <1>1, <1>3, <1>4, <1>7, <2>1
  <2> QED
    BY <1>6, <2>1, <2>2
<1>9. n \div h = r + v
  <2>1. PICK x \in Int, c \in Int : x = r + v /\ c = q - k /\ -p < c /\ c < 256
    BY <1>3, <1>6
  <2>2. p * n = 256 * x + c
    BY <1>8, <2>1
  <2> QED
    BY <2>1, <2>2, UpperBits
<1>10. (r + k * d) % d = r
  BY <1>2, <1>3, <1>6
<1> QED
  BY <1>3, <1>4, <1>5, <1>9, <1>10

LEMMA FoundOneMore ==
  ASSUME NEW p \in {1, 2, 4, 8, 16, 32, 64, 128}, NEW d \in Int, NEW e \in Int,
         NEW s, NEW t, NEW u,
         Joined(s, 256) \in Int, Joined(t, 256) \in Int, Joined(u, 256) \in Int,
         Found(s, t, d, e, 256, p), Found(t, u, d, e, 256, 2)
  PROVE  Found(s, u, d, e, 256, 2 * p)
<1>1. PICK k \in 0 .. p - 1 : Joined(t, 256) = p * Joined(s, 256) - k * e
  BY DEF Found
<1>2. PICK l \in 0 .. 2 - 1 : Joined(u, 256) = 2 * Joined(t, 256) - l * e
  BY DEF Found
<1>3. PICK x \in Int, y \in Int, z \in Int :
        x = Joined(s, 256) /\ y = Joined(t, 256) /\ z = Joined(u, 256)
  OBVIOUS
<1>4. z = (2 * p) * x - (2 * k + l) * e
  BY <1>1, <1>2, <1>3
<1>5. 2 * k + l \in 0 .. 2 * p - 1
  OBVIOUS
<1>6. u.r < d
  BY DEF Found
<1> QED
  BY <1>3, <1>4, <1>5, <1>6, Zenon DEF Found

\* Where the rounds that make p times the dividend lead.
Gone(start, s, d, p) == s \in DivState8 /\ Found(start, s, d, 256 * d - 1, 256, p)

LEMMA RoundOfEight ==
  ASSUME NEW d \in Int, 0 < d, d <= 255, NEW start \in DivState8,
         NeverCarries(Joined(start, 256), d),
         NEW p, NEW h, <<p, h>> \in Weights, NEW s, Gone(start, s, d, p), NEW m, m = 2 * p
  PROVE  Gone(start, DivRound8(d)[s], d, m)
<1> USE DEF Gone
<1>1. \A t \in DivState8 : Joined(t, 256) \in Int
  BY InByte DEF DivState8, Joined
<1>2. s.r = (Joined(start, 256) \div h) % d
  BY <1>1, PartialRemainder
<1>3. s.r < 128
  BY <1>2, WeightsAre DEF NeverCarries
<1>4. s.r < d
  BY DEF Found
<1>5. DivRound8(d)[s] \in DivState8
  <2>1. d \in Byte
    BY InByte
  <2> QED
    BY <2>1, DivRound8Type
<1>6. Found(s, DivRound8(d)[s], d, 256 * d - 1, 256, 2)
  BY <1>3, <1>4, Round8Goes
<1> QED
  BY <1>1, <1>5, <1>6, FoundOneMore, WeightsAre

LEMMA EightRounds ==
  ASSUME NEW d \in Int, 0 < d, d <= 255, NEW start \in DivState8, start.r < d,
         NeverCarries(Joined(start, 256), d)
  PROVE  LET last == Eight(DivRound8(d))[start]
         IN  last \in DivState8 /\ Found(start, last, d, 256 * d - 1, 256, 256)
<1>1. PICK f \in [DivState8 -> DivState8] : f = DivRound8(d)
  <2>1. d \in Byte
    BY InByte
  <2> QED
    BY <2>1, DivRound8Type
<1>2. /\ \A s : Gone(start, s, d, 1) => Gone(start, f[s], d, 2)
      /\ \A s : Gone(start, s, d, 2) => Gone(start, f[s], d, 4)
      /\ \A s : Gone(start, s, d, 4) => Gone(start, f[s], d, 8)
      /\ \A s : Gone(start, s, d, 8) => Gone(start, f[s], d, 16)
      /\ \A s : Gone(start, s, d, 16) => Gone(start, f[s], d, 32)
      /\ \A s : Gone(start, s, d, 32) => Gone(start, f[s], d, 64)
      /\ \A s : Gone(start, s, d, 64) => Gone(start, f[s], d, 128)
      /\ \A s : Gone(start, s, d, 128) => Gone(start, f[s], d, 256)
  <2>1. ASSUME NEW p, NEW h, <<p, h>> \in Weights, NEW s, Gone(start, s, d, p),
               NEW m, m = 2 * p
        PROVE  Gone(start, f[s], d, m)
    BY <1>1, <2>1, RoundOfEight
  <2>2. /\ <<1, 256>> \in Weights /\ <<2, 128>> \in Weights /\ <<4, 64>> \in Weights
        /\ <<8, 32>> \in Weights /\ <<16, 16>> \in Weights /\ <<32, 8>> \in Weights
        /\ <<64, 4>> \in Weights /\ <<128, 2>> \in Weights
    BY DEF Weights
  <2>3. /\ 2 = 2 * 1 /\ 4 = 2 * 2 /\ 8 = 2 * 4 /\ 16 = 2 * 8
        /\ 32 = 2 * 16 /\ 64 = 2 * 32 /\ 128 = 2 * 64 /\ 256 = 2 * 128
    OBVIOUS
  <2> QED
    BY <2>1, <2>2, <2>3
<1>3. Gone(start, start, d, 1)
  <2>1. PICK x \in Int : x = Joined(start, 256)
    BY InByte DEF DivState8, Joined
  <2>2. x = 1 * x - 0 * (256 * d - 1) /\ 0 \in 0 .. 1 - 1
    OBVIOUS
  <2> QED
    BY <2>1, <2>2 DEF Gone, Found
<1>4. Gone(start, f[f[f[f[start]]]], d, 16)
  BY <1>2, <1>3
<1>5. Gone(start, f[f[f[f[f[f[start]]]]]], d, 64)
  BY <1>2, <1>4
<1>6. Gone(start, f[f[f[f[f[f[f[f[start]]]]]]]], d, 256)
  <2> DEFINE t == f[f[f[f[f[f[start]]]]]]
  <2> HIDE DEF t
  <2>1. Gone(start, t, d, 64)
    BY <1>5, Zenon DEF t
  <2>2. Gone(start, f[f[t]], d, 256)
    BY <1>2, <2>1
  <2> QED
    BY <2>2, Zenon DEF t
<1>7. Eight(f)[start] = f[f[f[f[f[f[f[f[start]]]]]]]]
  BY EightTimes, Zenon
<1>8. Gone(start, Eight(DivRound8(d))[start], d, 256)
  BY <1>1, <1>6, <1>7, Zenon
<1> QED
  BY <1>8 DEF Gone

\* A divisor that is a signed byte's magnitude lets nothing carry.
LEMMA SmallNeverCarries ==
  ASSUME NEW n \in Int, NEW d \in Int, 0 < d, d <= 128
  PROVE  NeverCarries(n, d)
<1>1. ASSUME NEW h \in {256, 128, 64, 32, 16, 8, 4, 2} PROVE (n \div h) % d < 128
  <2>1. n \div h \in Int
    OBVIOUS
  <2>2. \A m \in Int : m % d \in Int /\ m % d < d
    OBVIOUS
  <2> QED
    BY <2>1, <2>2
<1> QED
  BY <1>1 DEF NeverCarries

LEMMA DivU8Is ==
  ASSUME NEW n \in Word16, NEW d \in Int, 0 <= d, d <= 255
  PROVE  LET u == DivU8(n, d)
         IN  /\ u.error <=> d = 0 \/ n \div 256 >= d
             /\ ~u.error /\ NeverCarries(n, d) =>
                  /\ u.q \in Byte /\ u.r \in Byte
                  /\ n = u.q * d + u.r /\ u.r < d
<1> DEFINE start == [q |-> n % 256, r |-> n \div 256, a |-> 8]
           last  == Eight(DivRound8(d))[start]
<1>1. PICK h \in Int, l \in Int :
        /\ h = n \div 256 /\ l = n % 256 /\ n = 256 * h + l
        /\ 0 <= h /\ h <= 255 /\ 0 <= l /\ l <= 255
  BY BytesOf
<1>2. start \in DivState8 /\ start.r = h /\ start.q = l
  BY <1>1, InByte DEF DivState8
<1>3. DivU8(n, d) = IF d = 0 \/ h >= d
                      THEN DivideError
                      ELSE [error |-> FALSE, q |-> last.q, r |-> last.r]
  BY <1>1 DEF DivU8
<1> HIDE DEF start
<1>4. ASSUME d # 0, h < d, NeverCarries(n, d)
      PROVE  last.q \in Byte /\ last.r \in Byte /\ n = last.q * d + last.r /\ last.r < d
  <2>1. Joined(start, 256) = n /\ n \in Int
    BY <1>1, <1>2 DEF Joined
  <2>2. last \in DivState8 /\ Found(start, last, d, 256 * d - 1, 256, 256)
    BY <1>2, <1>4, <2>1, EightRounds
  <2> HIDE DEF last
  <2>3. last.q \in Byte /\ last.r \in Byte
    BY <2>2 DEF DivState8
  <2>4. last.q \in Int /\ 0 <= last.q /\ last.q < 256 /\ last.r \in Int
    BY <2>3, InByte
  <2>5. PICK e \in Int : e = 256 * d - 1 /\ IsUnit(e, d, 256)
    BY DEF IsUnit
  <2>6. Found(start, last, d, e, 256, 256)
    BY <2>2, <2>5
  <2>7. last.r < d /\ Makes(Joined(start, 256), last.q, last.r, d)
    BY <2>4, <2>1, <2>5, <2>6, FoundAll
  <2> QED
    BY <2>1, <2>3, <2>7 DEF Makes
<1> HIDE DEF last
<1> QED
  BY <1>1, <1>3, <1>4 DEF DivideError

LEMMA DivU16Is ==
  ASSUME NEW h \in Word16, NEW l \in Word16, NEW d \in Word16
  PROVE  LET u == DivU16(h, l, d)
         IN  /\ u.error <=> d = 0 \/ h >= d
             /\ ~u.error => /\ u.q \in Word16 /\ u.r \in Word16
                            /\ W * h + l = u.q * d + u.r /\ u.r < d
<1> DEFINE start == [q |-> l, r |-> h]
           last  == Sixteen(DivRound16(d))[start]
<1>1. /\ h \in Int /\ 0 <= h /\ l \in Int /\ 0 <= l /\ d \in Int /\ 0 <= d
  BY InWord16
<1>2. start \in DivState16 /\ start.r = h /\ start.q = l
  BY DEF DivState16
<1>3. DivU16(h, l, d) = IF d = 0 \/ h >= d
                          THEN DivideError
                          ELSE [error |-> FALSE, q |-> last.q, r |-> last.r]
  BY DEF DivU16
<1> HIDE DEF start
<1>4. ASSUME d # 0, h < d
      PROVE  /\ last.q \in Word16 /\ last.r \in Word16
             /\ W * h + l = last.q * d + last.r /\ last.r < d
  <2>1. \A s \in DivState16 : s.q \in Int /\ s.r \in Int
    BY InWord16 DEF DivState16
  <2>2. 0 < d
    BY <1>1, <1>4
  <2>3. Divides(Sixteen(DivRound16(d)), DivState16, d, 65536, 65536)
    BY <1>1, <2>1, <2>2, Round16Divides, LoopsDivide
  <2>4. last \in DivState16 /\ Found(start, last, d, 65536 * d - 1, 65536, 65536)
    BY <1>2, <1>4, <2>3 DEF Divides
  <2> HIDE DEF last
  <2>5. last.q \in Word16 /\ last.r \in Word16
    BY <2>4 DEF DivState16
  <2>6. last.q \in Int /\ 0 <= last.q /\ last.q < 65536 /\ last.r \in Int
    BY <2>5, InWord16 DEF W
  <2>7. Joined(start, 65536) = W * h + l /\ Joined(start, 65536) \in Int
    BY <1>1, <1>2 DEF Joined, W
  <2>8. PICK e \in Int : e = 65536 * d - 1 /\ IsUnit(e, d, 65536)
    BY <1>1 DEF IsUnit
  <2>9. Found(start, last, d, e, 65536, 65536)
    BY <2>4, <2>8
  <2>10. last.r < d /\ Makes(Joined(start, 65536), last.q, last.r, d)
    BY <1>1, <2>6, <2>7, <2>8, <2>9, FoundAll
  <2> QED
    BY <2>5, <2>7, <2>10 DEF Makes
<1> HIDE DEF last
<1> QED
  BY <1>1, <1>3, <1>4 DEF DivideError

\* The quotient is the only one that leaves less than the divisor.
LEMMA QuotientIs ==
  ASSUME NEW n \in Int, NEW d \in Int, NEW q \in Int, NEW r \in Int,
         Makes(n, q, r, d), 0 <= r, r < d
  PROVE  n \div d = q
<1>1. n = q * d + r
  BY DEF Makes
<1> QED
  BY <1>1

LEMMA DivU8Quotient ==
  ASSUME NEW n \in Word16, NEW d \in Int, 0 <= d, d <= 255
  PROVE  LET u == DivU8(n, d)
         IN  /\ u.error \in BOOLEAN
             /\ u.error <=> d = 0 \/ n \div d > 255
             /\ ~u.error /\ NeverCarries(n, d) =>
                  /\ u.q \in Int /\ 0 <= u.q /\ u.q <= 255
                  /\ u.r \in Int /\ 0 <= u.r /\ u.r < d
                  /\ Makes(n, u.q, u.r, d) /\ n \div d = u.q
<1> DEFINE u == DivU8(n, d)
<1>1. /\ u.error <=> d = 0 \/ n \div 256 >= d
      /\ ~u.error /\ NeverCarries(n, d) => /\ u.q \in Byte /\ u.r \in Byte
                                           /\ n = u.q * d + u.r /\ u.r < d
  BY DivU8Is
<1>2. u.error \in BOOLEAN
  <2>1. d \in Byte
    BY InByte
  <2> QED
    BY <2>1, DivU8Type
<1> HIDE DEF u
<1>3. ASSUME ~u.error, NeverCarries(n, d)
      PROVE  /\ u.q \in Int /\ 0 <= u.q /\ u.q <= 255
             /\ u.r \in Int /\ 0 <= u.r /\ u.r < d /\ Makes(n, u.q, u.r, d)
  BY <1>1, <1>3, InByte DEF Makes
<1>4. n \in Int /\ 0 <= n
  BY InWord16
<1>5. ASSUME ~u.error, NeverCarries(n, d)
      PROVE  n \div d = u.q
  BY <1>3, <1>4, <1>5, QuotientIs
<1>6. ASSUME d # 0, n \div 256 >= d
      PROVE  n \div d > 255
  <2>1. PICK h \in Int, l \in Int : h = n \div 256 /\ n = 256 * h + l /\ 0 <= l
    BY BytesOf
  <2>2. n >= 256 * d
    BY <1>6, <2>1
  <2>3. PICK k \in Int, x \in Int : k = n \div d /\ n = k * d + x /\ 0 <= x /\ x < d
    <3>1. \A m, e \in Int : e > 0 => /\ m \div e \in Int /\ m % e \in Int
                                     /\ 0 <= m % e /\ m % e < e
                                     /\ m = (m \div e) * e + (m % e)
      OBVIOUS
    <3> QED
      BY <1>4, <1>6, <3>1
  <2>4. ASSUME k <= 255 PROVE FALSE
    <3>1. k * d <= 255 * d
      BY <1>6, <2>4, TimesFacts
    <3> QED
      BY <2>2, <2>3, <3>1, TimesFacts
  <2> QED
    BY <2>3, <2>4
<1>7. ASSUME d # 0, n \div 256 < d
      PROVE  n \div d <= 255
  <2>1. PICK h \in Int, l \in Int : h = n \div 256 /\ n = 256 * h + l /\ l <= 255
    BY BytesOf
  <2>2. n < 256 * d
    BY <1>7, <2>1
  <2> QED
    BY <1>4, <1>7, <2>2
<1>8. n \div 256 \in Int /\ (d # 0 => n \div d \in Int)
  BY <1>4
<1>9. u.error <=> d = 0 \/ n \div d > 255
  BY <1>1, <1>2, <1>6, <1>7, <1>8
<1> QED
  BY <1>2, <1>3, <1>5, <1>9 DEF u

\* The limit of a quotient of words, in double words.
LEMMA Fits ==
  ASSUME NEW n \in Long, NEW d \in Word16, NEW c \in Word16
  PROVE  LongLess(n, LongAdd(LongProduct(d, c), [lo |-> d, hi |-> 0]))
           <=> LongNum(n) < (c + 1) * d
<1> DEFINE e == [lo |-> d, hi |-> 0]
           p == LongProduct(d, c)
           s == LongAdd(p, e)
<1>1. /\ d \in Int /\ 0 <= d /\ d <= 65535 /\ c \in Int /\ 0 <= c /\ c <= 65535
      /\ W = 65536 /\ 0 \in Word16
  BY InWord16 DEF W
<1>2. e \in Long /\ LongNum(e) = d
  BY <1>1 DEF Long, LongNum
<1>3. p \in Long /\ LongNum(p) = d * c
  BY LongProductIs
<1>4. d * c \in Int /\ d * c <= 65535 * 65535 /\ (c + 1) * d = d * c + d
  <2>1. d * c \in Int /\ d * c <= 65535 * 65535
    BY <1>1, ProductBound
  <2>2. (c + 1) * d = c * d + 1 * d /\ c * d = d * c /\ 1 * d = d
    BY <1>1, TimesFacts
  <2> QED
    BY <2>1, <2>2
<1> HIDE DEF e, p
<1>5. LongNum(p) + LongNum(e) < Limit
  BY <1>1, <1>2, <1>3, <1>4 DEF Limit
<1>6. s \in Long /\ LongNum(s) = (c + 1) * d
  BY <1>2, <1>3, <1>4, <1>5, LongAddIs
<1> HIDE DEF s
<1>7. LongLess(n, s) <=> LongNum(n) < LongNum(s)
  BY <1>6, LongIs DEF LongLess, LongNum, W
<1> QED
  BY <1>6, <1>7 DEF s, p, e

\* A dividend put together again.
LEMMA Remade ==
  ASSUME NEW n \in Long, NEW q \in Word16, NEW r \in Word16, NEW d \in Word16,
         Makes(LongNum(n), q, r, d)
  PROVE  n = LongAdd(LongProduct(q, d), [lo |-> r, hi |-> 0])
<1> DEFINE e == [lo |-> r, hi |-> 0]
           p == LongProduct(q, d)
<1>1. r \in Int /\ 0 \in Word16 /\ W = 65536
  BY InWord16 DEF W
<1>2. e \in Long /\ LongNum(e) = r
  BY <1>1 DEF Long, LongNum
<1>3. p \in Long /\ LongNum(p) = q * d
  BY LongProductIs
<1> HIDE DEF e, p
<1>4. LongNum(p) + LongNum(e) = LongNum(n)
  BY <1>2, <1>3 DEF Makes
<1>5. LongNum(p) + LongNum(e) < Limit
  BY <1>4, LongIs
<1>6. LongAdd(p, e) \in Long /\ LongNum(LongAdd(p, e)) = LongNum(n)
  BY <1>2, <1>3, <1>4, <1>5, LongAddIs
<1>7. n = LongAdd(p, e)
  BY <1>6, LongSame
<1> QED
  BY <1>7 DEF e, p

\* cpu8088_div_u16 and a limit c to the quotient.
LEMMA DivU16Quotient ==
  ASSUME NEW n \in Long, NEW d \in Word16, NEW c \in Word16
  PROVE  LET u == DivU16(n.hi, n.lo, d)
         IN  /\ u.error \in BOOLEAN
             /\ ~u.error /\ u.q <= c
                  <=> d # 0 /\ LongLess(n, LongAdd(LongProduct(d, c), [lo |-> d, hi |-> 0]))
             /\ ~u.error => /\ u.q \in Word16 /\ u.r \in Word16 /\ u.r < d
                            /\ n = LongAdd(LongProduct(u.q, d), [lo |-> u.r, hi |-> 0])
<1> DEFINE u == DivU16(n.hi, n.lo, d)
<1>1. n.hi \in Word16 /\ n.lo \in Word16
  BY DEF Long
<1>2. /\ u.error <=> d = 0 \/ n.hi >= d
      /\ ~u.error => /\ u.q \in Word16 /\ u.r \in Word16
                     /\ W * n.hi + n.lo = u.q * d + u.r /\ u.r < d
  BY <1>1, DivU16Is
<1>3. u.error \in BOOLEAN
  BY <1>1, DivU16Type
<1> HIDE DEF u
<1>4. /\ d \in Int /\ 0 <= d /\ d <= 65535 /\ c \in Int /\ 0 <= c /\ c <= 65535 /\ W = 65536
      /\ n.hi \in Int /\ n.lo \in Int /\ 0 <= n.lo
  BY <1>1, InWord16 DEF W
<1>5. PICK v \in Int : v = LongNum(n) /\ v = 65536 * n.hi + n.lo
  BY <1>4 DEF LongNum
<1>6. ASSUME ~u.error PROVE Makes(LongNum(n), u.q, u.r, d)
  BY <1>2, <1>4, <1>6 DEF Makes, LongNum
<1>7. ASSUME d # 0, n.hi >= d PROVE ~(v < (c + 1) * d)
  <2>1. (c + 1) * d <= 65536 * d
    BY <1>4, TimesFacts
  <2>2. (c + 1) * d \in Int
    BY <1>4
  <2> QED
    BY <1>4, <1>5, <1>7, <2>1, <2>2
<1>8. ASSUME ~u.error PROVE u.q <= c <=> v < (c + 1) * d
  <2>1. PICK q \in Int, r \in Int : q = u.q /\ r = u.r /\ 0 <= r /\ r < d
    BY <1>2, <1>8, InWord16
  <2>2. v = q * d + r
    BY <1>5, <1>6, <1>8, <2>1 DEF Makes
  <2>3. PICK a \in Int, b \in Int : a = q * d /\ b = (c + 1) * d
    BY <1>4, <2>1
  <2>4. CASE q <= c
    <3>1. (q + 1) * d <= (c + 1) * d /\ (q + 1) * d = q * d + 1 * d /\ 1 * d = d
      BY <1>4, <2>1, <2>4, TimesFacts
    <3> QED
      BY <1>4, <2>1, <2>2, <2>3, <2>4, <3>1
  <2>5. CASE q >= c + 1
    <3>1. (c + 1) * d <= q * d
      BY <1>4, <2>1, <2>5, TimesFacts
    <3> QED
      BY <1>4, <2>1, <2>2, <2>3, <2>5, <3>1
  <2> QED
    BY <1>4, <2>1, <2>4, <2>5
<1>9. ~u.error /\ u.q <= c <=> d # 0 /\ LongNum(n) < (c + 1) * d
  BY <1>2, <1>3, <1>5, <1>7, <1>8
<1>10. ~u.error => n = LongAdd(LongProduct(u.q, d), [lo |-> u.r, hi |-> 0])
  BY <1>2, <1>6, Remade
<1> QED
  BY <1>2, <1>3, <1>9, <1>10, Fits DEF u

\* A magnitude within its limit can be given its sign, in a byte or a word.
LEMMA ByteSigned ==
  ASSUME NEW q \in Int, 0 <= q, NEW opposed \in BOOLEAN,
         q <= (IF opposed THEN 128 ELSE 127)
  PROVE  SignedOf(IF opposed THEN (256 - q) % 256 ELSE q, 256)
           = IF opposed THEN -q ELSE q
  BY DEF SignedOf

LEMMA WordSigned ==
  ASSUME NEW q \in Word16, NEW opposed \in BOOLEAN,
         q <= (IF opposed THEN W \div 2 ELSE (W \div 2) - 1)
  PROVE  LET w == IF opposed THEN Negated(q) ELSE q
         IN  /\ w \in Word16 /\ Magnitude(w) = q
             /\ w # 0 => Negative(w) = opposed
<1>1. q \in Int /\ 0 <= q /\ q <= (IF opposed THEN 32768 ELSE 32767)
  BY InWord16 DEF W
<1>2. Negated(q) = IF q = 0 THEN 0 ELSE 65536 - q
  BY <1>1 DEF Negated, W
<1> DEFINE w == IF opposed THEN Negated(q) ELSE q
<1>3. \A n \in Int : Negative(n) \in BOOLEAN /\ (Negative(n) <=> n >= 32768)
  BY DEF Negative, W
<1>4. /\ w \in Int /\ 0 <= w /\ w <= 65535
      /\ w = (IF opposed /\ q # 0 THEN 65536 - q ELSE q)
  BY <1>1, <1>2
<1> HIDE DEF w
<1>5. w \in Word16
  BY <1>4, InWord16 DEF W
<1>6. w # 0 => Negative(w) = opposed
  <2>1. CASE opposed
    <3>1. w # 0 => w >= 32768
      BY <1>1, <1>4, <2>1
    <3>2. w # 0 => Negative(w) /\ Negative(w) \in BOOLEAN
      BY <1>3, <1>4, <3>1
    <3> QED
      BY <2>1, <3>2, Zenon
  <2>2. CASE ~opposed
    BY <1>1, <1>3, <1>4, <2>2
  <2> QED
    BY <2>1, <2>2
<1>7. Magnitude(w) = q
  <2>1. Negated(w) = IF w = 0 THEN 0 ELSE 65536 - w
    BY <1>4 DEF Negated, W
  <2> QED
    BY <1>1, <1>3, <1>4, <2>1 DEF Magnitude
<1> QED
  BY <1>5, <1>6, <1>7 DEF w

\* Dividend, divisor, quotient and remainder with their signs.
LEMMA SignedMakes ==
  ASSUME NEW n \in Int, NEW d \in Int, NEW q \in Int, NEW r \in Int,
         NEW a \in BOOLEAN, NEW b \in BOOLEAN, Makes(n, q, r, d)
  PROVE  (IF a THEN -n ELSE n)
           = (IF a # b THEN -q ELSE q) * (IF b THEN -d ELSE d) + (IF a THEN -r ELSE r)
<1>1. PICK p \in Int : p = q * d /\ n = p + r
  BY DEF Makes
<1>2. q * (-d) = -p /\ (-q) * d = -p /\ (-q) * (-d) = p
  BY <1>1
<1> QED
  BY <1>1, <1>2

----------------------------------------------------------------------------
LEMMA DivBytes ==
  ASSUME TypeOK, ~i.wide, Divided(DivU8(Word(ax), operand.lo))
  PROVE  UnsignedByte
<1> DEFINE u == DivU8(Word(ax), operand.lo)
<1>1. /\ operand.lo \in Byte /\ Word(ax) \in Word16
      /\ operand.lo \in Int /\ 0 <= operand.lo /\ operand.lo <= 255
  BY OperandTypes, InByte
<1>2. /\ u.error \in BOOLEAN
      /\ u.error <=> operand.lo = 0 \/ Word(ax) \div operand.lo > 255
      /\ ~u.error /\ NeverCarries(Word(ax), operand.lo) =>
           u.r < operand.lo /\ Makes(Word(ax), u.q, u.r, operand.lo)
  BY <1>1, DivU8Quotient
<1>3. Divided(u)
  OBVIOUS
<1> HIDE DEF u
<1>4. CASE u.error
  <2>1. status' = "interrupt" /\ UNCHANGED <<ax, dx>>
    BY <1>3, <1>4 DEF Divided
  <2> QED
    BY <1>2, <1>4, <2>1 DEF UnsignedByte, ByteDivision
<1>5. CASE ~u.error
  <2>1. status' = "ok" /\ ax'.lo = u.q /\ ax'.hi = u.r
    BY <1>3, <1>5 DEF Divided, Ok
  <2> QED
    BY <1>2, <1>5, <2>1 DEF UnsignedByte, ByteDivision, Makes
<1> QED
  BY <1>2, <1>4, <1>5

LEMMA DivWords ==
  ASSUME TypeOK, i.wide, Divided(DivU16(Word(dx), Word(ax), Word(operand)))
  PROVE  UnsignedWord
<1> DEFINE n == DoubleWord(ax, dx)
           d == Word(operand)
           u == DivU16(n.hi, n.lo, d)
           top == W - 1
           fits == LongLess(n, LongAdd(LongProduct(d, top), [lo |-> d, hi |-> 0]))
<1>1. /\ Word(ax) \in Word16 /\ Word(dx) \in Word16 /\ Word(operand) \in Word16
      /\ top \in Word16
  <2>1. W - 1 \in Int /\ 0 <= W - 1
    BY DEF W
  <2> QED
    BY <2>1, OperandTypes, InWord16
<1>2. n \in Long /\ n.lo = Word(ax) /\ n.hi = Word(dx)
  BY <1>1 DEF DoubleWord, Long
<1>3. Divided(u)
  BY <1>2
<1> HIDE DEF n, top
<1>4. /\ u.error \in BOOLEAN
      /\ ~u.error /\ u.q <= top <=> d # 0 /\ fits
      /\ ~u.error => /\ u.q \in Word16 /\ u.r \in Word16 /\ u.r < d
                     /\ n = LongAdd(LongProduct(u.q, d), [lo |-> u.r, hi |-> 0])
  BY <1>1, <1>2, DivU16Quotient
<1> HIDE DEF u, d, fits
<1>5. ~u.error => u.q <= top
  BY <1>4, InWord16 DEF top
<1>6. CASE u.error
  <2>1. status' = "interrupt" /\ UNCHANGED <<ax, dx>>
    BY <1>3, <1>6 DEF Divided
  <2>2. ~(d # 0 /\ fits)
    BY <1>4, <1>6
  <2> QED
    BY <2>1, <2>2 DEF UnsignedWord, WordDivision, n, d, fits, top
<1>7. CASE ~u.error
  <2>1. status' = "ok" /\ ax' = Pair(u.q) /\ dx' = Pair(u.r)
    BY <1>3, <1>7 DEF Divided, Ok
  <2>2. Word(ax') = u.q /\ Word(dx') = u.r
    BY <1>4, <1>7, <2>1, WordPair
  <2>3. d # 0 /\ fits
    BY <1>4, <1>5, <1>7
  <2> QED
    BY <1>4, <1>7, <2>1, <2>2, <2>3 DEF UnsignedWord, WordDivision, n, d, fits, top
<1> QED
  BY <1>4, <1>6, <1>7

LEMMA IdivWords ==
  ASSUME TypeOK, i.wide, Divided(DivS16(Word(dx), Word(ax), Word(operand)))
  PROVE  SignedWord
<1> DEFINE m == DoubleWord(ax, dx)
           n == LongMagnitude(m)
           d == Magnitude(Word(operand))
           minus   == Negative(Word(dx))
           opposed == minus # Negative(Word(operand))
           top == IF opposed THEN W \div 2 ELSE (W \div 2) - 1
           u == DivU16(n.hi, n.lo, d)
           fits == LongLess(n, LongAdd(LongProduct(d, top), [lo |-> d, hi |-> 0]))
           x == DivS16(Word(dx), Word(ax), Word(operand))
<1>1. /\ Word(ax) \in Word16 /\ Word(dx) \in Word16 /\ Word(operand) \in Word16
      /\ opposed \in BOOLEAN /\ minus \in BOOLEAN
  BY OperandTypes DEF Negative
<1>2. top \in Word16 /\ top \in Int /\ top <= 32768
  <2>1. top \in Int /\ 0 <= top /\ top <= W - 1 /\ top <= 32768
    BY <1>1 DEF W
  <2> QED
    BY <2>1, InWord16
<1>3. m \in Long /\ m.lo = Word(ax) /\ m.hi = Word(dx) /\ m = [lo |-> Word(ax), hi |-> Word(dx)]
  BY <1>1 DEF DoubleWord, Long
<1>4. n \in Long
  BY <1>3, LongType DEF LongMagnitude
<1>5. d \in Word16 /\ d \in Int /\ 0 <= d /\ d <= 32768
  BY <1>1, WordMagnitude
<1>6. x = IF u.error \/ u.q > top
            THEN DivideError
            ELSE [error |-> FALSE,
                  q |-> IF opposed THEN Negated(u.q) ELSE u.q,
                  r |-> IF minus THEN Negated(u.r) ELSE u.r]
  BY <1>3 DEF DivS16, LongMagnitude
<1> HIDE DEF m, n, d, minus, opposed, top, u, x
<1>7. /\ u.error \in BOOLEAN
      /\ ~u.error /\ u.q <= top <=> d # 0 /\ fits
      /\ ~u.error => /\ u.q \in Word16 /\ u.r \in Word16 /\ u.r < d
                     /\ n = LongAdd(LongProduct(u.q, d), [lo |-> u.r, hi |-> 0])
  BY <1>2, <1>4, <1>5, DivU16Quotient DEF u
<1> HIDE DEF fits
<1>8. Divided(x)
  BY DEF x
<1>9. CASE u.error \/ u.q > top
  <2>1. status' = "interrupt" /\ UNCHANGED <<ax, dx>>
    BY <1>6, <1>8, <1>9 DEF Divided, DivideError
  <2>2. ~(d # 0 /\ fits)
    <3>1. ~u.error => u.q \in Int
      BY <1>7, InWord16
    <3> QED
      BY <1>2, <1>7, <1>9, <3>1
  <2> QED
    BY <2>1, <2>2 DEF SignedWord, WordDivision, m, n, d, fits, top, opposed, minus
<1>10. CASE ~(u.error \/ u.q > top)
  <2>1. /\ u.q \in Word16 /\ u.r \in Word16 /\ u.q \in Int /\ u.r \in Int
        /\ u.q <= top /\ u.r < d
        /\ n = LongAdd(LongProduct(u.q, d), [lo |-> u.r, hi |-> 0])
    BY <1>2, <1>7, <1>10, InWord16
  <2>2. d # 0 /\ fits
    BY <1>7, <1>10, <2>1
  <2>3. u.r <= (IF minus THEN W \div 2 ELSE (W \div 2) - 1)
    BY <1>1, <1>5, <2>1 DEF W
  <2> DEFINE q == IF opposed THEN Negated(u.q) ELSE u.q
             r == IF minus THEN Negated(u.r) ELSE u.r
  <2>4. q \in Word16 /\ Magnitude(q) = u.q /\ (q # 0 => Negative(q) = opposed)
    BY <1>1, <2>1, WordSigned DEF top
  <2>5. r \in Word16 /\ Magnitude(r) = u.r /\ (r # 0 => Negative(r) = minus)
    BY <1>1, <2>1, <2>3, WordSigned
  <2>6. status' = "ok" /\ ax' = Pair(q) /\ dx' = Pair(r)
    BY <1>6, <1>8, <1>10 DEF Divided, Ok
  <2> HIDE DEF q, r
  <2>7. Word(ax') = q /\ Word(dx') = r
    BY <2>4, <2>5, <2>6, WordPair
  <2>8. WordDivision(n, d, top, Magnitude(Word(ax')), Magnitude(Word(dx')))
    BY <2>1, <2>2, <2>4, <2>5, <2>6, <2>7 DEF WordDivision, fits
  <2>9. /\ Word(ax') # 0 => Negative(Word(ax')) = opposed
        /\ Word(dx') # 0 => Negative(Word(dx')) = minus
    BY <2>4, <2>5, <2>7
  <2> QED
    BY <2>8, <2>9 DEF SignedWord, m, n, d, top, opposed, minus
<1> QED
  BY <1>9, <1>10

LEMMA WordSign ==
  ASSUME NEW a \in Word16
  PROVE  /\ SignedOf(a, W) = IF Negative(a) THEN -Magnitude(a) ELSE Magnitude(a)
         /\ SignedOf(a, W) < 0 <=> Negative(a)
         /\ Negative(a) \in BOOLEAN
<1>1. a \in Int /\ 0 <= a /\ a <= 65535
  BY InWord16 DEF W
<1>2. Magnitude(a) = IF a >= 32768 THEN 65536 - a ELSE a
  BY <1>1 DEF Magnitude, Negative, Negated, W
<1> QED
  BY <1>1, <1>2 DEF SignedOf, Negative, W

LEMMA IdivBytes ==
  ASSUME TypeOK, ~i.wide, Divided(DivS8(Word(ax), operand.lo))
  PROVE  SignedByte
<1> DEFINE n == SignedOf(Word(ax), W)
           d == Signed(operand)
           nm == Magnitude(Word(ax))
           dm == ByteMagnitude(operand.lo)
           minus == Negative(Word(ax))
           other == operand.lo >= 128
           opposed == minus # other
           top == IF opposed THEN 128 ELSE 127
           u == DivU8(nm, dm)
           x == DivS8(Word(ax), operand.lo)
           q == IF opposed THEN (256 - u.q) % 256 ELSE u.q
           r == IF minus THEN (256 - u.r) % 256 ELSE u.r
<1>1. operand.lo \in Byte /\ Word(ax) \in Word16
  BY OperandTypes
<1>2. /\ nm \in Word16 /\ nm \in Int
      /\ n = (IF minus THEN -nm ELSE nm) /\ (n < 0 <=> minus) /\ minus \in BOOLEAN
  BY <1>1, WordSign, WordMagnitude
<1>3. /\ dm \in Int /\ 0 <= dm /\ dm <= 128 /\ other \in BOOLEAN
      /\ d = (IF other THEN -dm ELSE dm) /\ (d < 0 <=> other)
  <2>1. d = SignedOf(operand.lo, 256)
    BY DEF Signed, Unsigned, Size
  <2>2. operand.lo \in Int /\ dm \in Int /\ 0 <= dm /\ dm <= 128
    BY <1>1, ByteSign, InByte
  <2> HIDE DEF dm, d
  <2>3. other => d = -dm /\ dm > 0
    BY <1>1, <2>1, ByteSign DEF dm
  <2>4. ~other => d = dm
    BY <1>1, <2>1, <2>2, ByteSign DEF dm
  <2> QED
    BY <2>2, <2>3, <2>4
<1>4. opposed \in BOOLEAN /\ top \in Int /\ top <= 255
  BY <1>2, <1>3
<1>5. /\ u.error \in BOOLEAN
      /\ u.error <=> dm = 0 \/ nm \div dm > 255
      /\ ~u.error => /\ u.q \in Int /\ 0 <= u.q /\ u.q <= 255
                     /\ u.r \in Int /\ 0 <= u.r /\ u.r < dm
                     /\ Makes(nm, u.q, u.r, dm) /\ nm \div dm = u.q
  BY <1>2, <1>3, DivU8Quotient, SmallNeverCarries
<1>6. x = IF u.error \/ u.q > top THEN DivideError ELSE [error |-> FALSE, q |-> q, r |-> r]
  BY DEF DivS8
<1>7. Divided(x)
  OBVIOUS
<1>8. ((n < 0) # (d < 0)) = opposed
  BY <1>2, <1>3
<1> HIDE DEF n, nm, dm, minus, other, u, x
<1>9. SignedByte <=>
        /\ ByteDivision(nm, dm, top)
        /\ status' = "ok" =>
             /\ n = SignedOf(ax'.lo, 256) * d + SignedOf(ax'.hi, 256)
             /\ SignedOf(ax'.hi, 256) # 0 => (SignedOf(ax'.hi, 256) < 0) = (n < 0)
             /\ SignedOf(ax'.hi, 256) < dm
             /\ -SignedOf(ax'.hi, 256) < dm
  <2>1. top = IF (n < 0) # (d < 0) THEN 128 ELSE 127
    BY <1>8
  <2> HIDE DEF top, d
  <2> QED
    BY <2>1, Zenon DEF SignedByte, n, nm, dm, d
<1>10. CASE u.error \/ u.q > top
  <2>1. status' = "interrupt" /\ UNCHANGED <<ax, dx>>
    BY <1>6, <1>7, <1>10 DEF Divided, DivideError
  <2>2. dm = 0 \/ nm \div dm > top
    <3>1. CASE u.error /\ dm # 0
      <4>1. nm \div dm > 255 /\ nm \div dm \in Int
        BY <1>2, <1>3, <1>5, <3>1
      <4> QED
        BY <1>4, <4>1
    <3>2. CASE ~u.error
      BY <1>5, <1>10, <3>2
    <3> QED
      BY <1>5, <3>1, <3>2
  <2> HIDE DEF top
  <2> QED
    BY <1>9, <2>1, <2>2 DEF ByteDivision
<1>11. CASE ~(u.error \/ u.q > top)
  <2>1. /\ u.q \in Int /\ 0 <= u.q /\ u.q <= top /\ u.r \in Int /\ 0 <= u.r /\ u.r < dm
        /\ Makes(nm, u.q, u.r, dm) /\ nm \div dm = u.q /\ dm # 0
    BY <1>4, <1>5, <1>11
  <2>2. status' = "ok" /\ ax'.lo = q /\ ax'.hi = r
    BY <1>6, <1>7, <1>11 DEF Divided, Ok
  <2>3. u.r <= (IF minus THEN 128 ELSE 127)
    BY <1>2, <1>3, <2>1
  <2>4. SignedOf(q, 256) = IF opposed THEN -u.q ELSE u.q
    BY <1>4, <2>1, ByteSigned, ZenonT(60)
  <2>5. SignedOf(r, 256) = IF minus THEN -u.r ELSE u.r
    BY <1>2, <2>1, <2>3, ByteSigned
  <2>6. n = SignedOf(q, 256) * d + SignedOf(r, 256)
    BY <1>2, <1>3, <2>1, <2>4, <2>5, SignedMakes
  <2>7. /\ SignedOf(r, 256) # 0 => (SignedOf(r, 256) < 0) = (n < 0)
        /\ SignedOf(r, 256) < dm
        /\ -SignedOf(r, 256) < dm
    BY <1>2, <1>3, <2>1, <2>5
  <2>8. ByteDivision(nm, dm, top)
    BY <1>4, <2>1, <2>2 DEF ByteDivision
  <2> HIDE DEF q, r, top, opposed
  <2> QED
    BY <1>9, <2>2, <2>6, <2>7, <2>8
<1> QED
  BY <1>10, <1>11

\* What QuotientsRight says of a step.
Quotient ==
  /\ i.kind = "div" /\ ~i.wide => UnsignedByte
  /\ i.kind = "idiv" /\ ~i.wide => SignedByte
  /\ i.kind = "div" /\ i.wide => UnsignedWord
  /\ i.kind = "idiv" /\ i.wide => SignedWord

(***************************************************************************)
(* DIV and IDIV of whatever bytes or words fail exactly where no quotient  *)
(* fits, and then leave the registers as they were.  A quotient and a      *)
(* remainder that are given are right, of a DIV of bytes as long as no     *)
(* partial remainder carries when it is doubled (divide.s:38).             *)
(***************************************************************************)
THEOREM QuotientsCorrect == Spec => QuotientsRight
<1>1. TypeOK /\ [Next]_vars => [Quotient]_vars
  <2> SUFFICES ASSUME TypeOK, Next PROVE Quotient
    OBVIOUS
  <2>1. CASE i.kind = "div"
    <3>1. Divided(IF i.wide THEN DivU16(Word(dx), Word(ax), Word(operand))
                            ELSE DivU8(Word(ax), operand.lo))
      BY <2>1, ByKind DEF Divide
    <3>2. CASE i.wide
      BY <2>1, <3>1, <3>2, DivWords DEF Quotient
    <3>3. CASE ~i.wide
      BY <2>1, <3>1, <3>3, DivBytes DEF Quotient
    <3> QED
      BY <3>2, <3>3
  <2>2. CASE i.kind = "idiv"
    <3>1. Divided(IF i.wide THEN DivS16(Word(dx), Word(ax), Word(operand))
                            ELSE DivS8(Word(ax), operand.lo))
      BY <2>2, ByKind DEF Divide
    <3>2. CASE i.wide
      BY <2>2, <3>1, <3>2, IdivWords DEF Quotient
    <3>3. CASE ~i.wide
      BY <2>2, <3>1, <3>3, IdivBytes DEF Quotient
    <3> QED
      BY <3>2, <3>3
  <2>3. CASE i.kind \notin {"div", "idiv"}
    BY <2>3 DEF Quotient
  <2> QED
    BY <2>1, <2>2, <2>3
<1> QED
  BY <1>1, TypeCorrect, PTL DEF Spec, QuotientsRight, Quotient

----------------------------------------------------------------------------
(***************************************************************************)
(* Decimal adjustment.  DAA and DAS go by what the addition or subtraction *)
(* before them left in AL, CF and AF, so the step before has to be         *)
(* remembered: PackedSum and PackedDifference, with a carry c.             *)
(***************************************************************************)
PackedSum(v, f, a, b, c) ==
  /\ v = (a + b + c) % 256
  /\ f.CF <=> a + b + c > 255
  /\ f.AF <=> (a % 16) + (b % 16) + c > 15

PackedDifference(v, f, a, b, c) ==
  /\ v = (a - b - c) % 256
  /\ f.CF <=> a - b - c < 0
  /\ f.AF <=> (a % 16) - (b % 16) - c < 0

\* Nothing is done yet, or a first byte is added or subtracted.
Untouched ==
  ax = Pair(began.ax) /\ (flags.CF <=> began.cf) /\ ~alu_preserve_cf
FirstByte ==
  /\ ~alu_preserve_cf
  /\ last_opcode[1].op = ADC =>
       PackedSum(ax.lo, flags, began.ax % 256, operand.lo, Num(began.cf))
  /\ last_opcode[1].op = SBB =>
       PackedDifference(ax.lo, flags, began.ax % 256, operand.lo, Num(began.cf))

Remembered ==
  /\ Len(code) <= Len(began.code)
  /\ last_opcode # <<>> => Len(code) < Len(began.code)
  /\ Len(code) = Len(began.code) => Untouched
  /\ /\ last_opcode # <<>> /\ Len(code) + 1 = Len(began.code)
     /\ last_opcode[1].kind = "alu" /\ ~last_opcode[1].wide
     => FirstByte

LEMMA RememberedInit == Init => Remembered
<1> SUFFICES ASSUME Init PROVE Remembered
  OBVIOUS
<1>1. code = began.code /\ last_opcode = <<>> /\ Untouched
  BY DEF Init, Untouched
<1>2. Len(began.code) \in Nat
  <2>1. began.code \in Seq(Instructions)
    BY ArithmeticAssumption DEF Init
  <2> QED
    BY <2>1, LenProperties
<1> QED
  BY <1>1, <1>2 DEF Remembered

\* The addition or subtraction of a byte.
LEMMA FirstByteStep ==
  ASSUME TypeOK, Alu, ~i.wide, Untouched
  PROVE  FirstByte'
<1>1. /\ i.kind = "alu" /\ last_opcode' = <<i>> /\ operand' = operand /\ began' = began
      /\ ax \in Value /\ operand \in Value /\ flags \in Flags /\ i \in Instructions
  <2>1. Fetched("alu")
    BY DEF Alu
  <2> QED
    BY <2>1, FetchedType DEF Fetched, i
<1>2. last_opcode'[1] = i /\ ~alu_preserve_cf'
  BY <1>1 DEF Alu, Left
<1>3. PICK a \in Int, b \in Int, c \in {0, 1} :
        /\ a = ax.lo /\ b = operand.lo /\ c = Num(flags.CF) /\ 0 <= a /\ a <= 255
        /\ 0 <= b /\ b <= 255
  <2>1. ax.lo \in Byte /\ operand.lo \in Byte /\ flags.CF \in BOOLEAN
    BY <1>1 DEF Value, Flags
  <2> QED
    BY <2>1, InByte, NumType
<1>4. a = began.ax % 256 /\ c = Num(began.cf)
  <2>1. a = began.ax % 256
    BY <1>3 DEF Untouched, Pair
  <2>2. Num(flags.CF) = Num(began.cf)
    BY DEF Untouched, Num
  <2> QED
    BY <1>3, <2>1, <2>2
<1>5. Size = 256 /\ Unsigned(ax) = a /\ Unsigned(operand) = b /\ Unsigned(ax') = ax'.lo
  BY <1>3 DEF Size, Unsigned
<1>6. Sum
  BY AluSum
<1>7. ASSUME i.op = ADC
      PROVE  PackedSum(ax'.lo, flags', a, b, c)
  <2>1. SumRight(operand, 1, c, TRUE)
    <3>1. (i.op = ADC /\ flags.CF) = flags.CF
      BY <1>1, <1>7 DEF Flags
    <3>2. SumRight(operand, 1, Num(i.op = ADC /\ flags.CF), TRUE)
      BY <1>1, <1>6, <1>7, Zenon DEF Sum
    <3> QED
      BY <1>3, <3>1, <3>2, Zenon
  <2>2. PICK n \in Int : n = a + 1 * (b + c) /\ n = a + b + c /\ 0 <= n
    BY <1>3
  <2>3. PICK d \in Int : d = (a % 16) + 1 * ((b % 16) + c) /\ d = (a % 16) + (b % 16) + c /\ 0 <= d
    BY <1>3
  <2>4. /\ ax'.lo = n % 256 /\ (flags'.CF <=> n \notin 0 .. 255)
        /\ (flags'.AF <=> d \notin 0 .. 15)
    <3>1. i.op # CMP
      BY <1>7 DEF ADC, CMP
    <3>2. /\ Unsigned(ax) + 1 * (Unsigned(operand) + c) = n
          /\ (ax.lo % 16) + 1 * ((operand.lo % 16) + c) = d
      BY <1>3, <1>5, <2>2, <2>3
    <3>3. /\ i.op # CMP => Unsigned(ax') = n % Size
          /\ flags'.CF <=> n \notin 0 .. Size - 1
          /\ flags'.AF <=> d \notin 0 .. 15
      BY <2>1, <3>2 DEF SumRight
    <3> QED
      BY <1>5, <3>1, <3>3
  <2> QED
    BY <2>2, <2>3, <2>4 DEF PackedSum
<1>8. ASSUME i.op = SBB
      PROVE  PackedDifference(ax'.lo, flags', a, b, c)
  <2>1. SumRight(operand, (-1), c, TRUE)
    <3>1. (i.op = SBB /\ flags.CF) = flags.CF
      BY <1>1, <1>8 DEF Flags
    <3>2. SumRight(operand, (-1), Num(i.op = SBB /\ flags.CF), TRUE)
      BY <1>1, <1>6, <1>8, Zenon DEF Sum
    <3> QED
      BY <1>3, <3>1, <3>2, Zenon
  <2>2. PICK n \in Int : n = a + (-1) * (b + c) /\ n = a - b - c /\ n <= 255
    BY <1>3
  <2>3. PICK d \in Int : /\ d = (a % 16) + (-1) * ((b % 16) + c)
                         /\ d = (a % 16) - (b % 16) - c /\ d <= 15
    BY <1>3
  <2>4. /\ ax'.lo = n % 256 /\ (flags'.CF <=> n \notin 0 .. 255)
        /\ (flags'.AF <=> d \notin 0 .. 15)
    <3>1. i.op # CMP
      BY <1>8 DEF SBB, CMP
    <3>2. /\ Unsigned(ax) + (-1) * (Unsigned(operand) + c) = n
          /\ (ax.lo % 16) + (-1) * ((operand.lo % 16) + c) = d
      BY <1>3, <1>5, <2>2, <2>3
    <3>3. /\ i.op # CMP => Unsigned(ax') = n % Size
          /\ flags'.CF <=> n \notin 0 .. Size - 1
          /\ flags'.AF <=> d \notin 0 .. 15
      BY <2>1, <3>2 DEF SumRight
    <3> QED
      BY <1>5, <3>1, <3>3
  <2> QED
    BY <2>2, <2>3, <2>4 DEF PackedDifference
<1> QED
  BY <1>1, <1>2, <1>3, <1>4, <1>7, <1>8, Zenon DEF FirstByte

LEMMA RememberedStep == TypeOK /\ Remembered /\ [Next]_vars => Remembered'
<1> SUFFICES ASSUME TypeOK, Remembered, [Next]_vars PROVE Remembered'
  OBVIOUS
<1>1. CASE UNCHANGED vars
  BY <1>1 DEF vars, scratchVars, Remembered, Untouched, FirstByte, PackedSum, PackedDifference
<1>2. CASE Next
  <2>1. PICK kind : Fetched(kind)
    BY <1>2, Zenon DEF Next, Alu, IncDec, Test, Group3Test, Group3Not, ShiftOne, Decimal, Aam,
                       Aad, Multiply, Divide, Cbw, Cwd, SetCarry
  <2>2. /\ code' = Tail(code) /\ code # <<>> /\ last_opcode' = <<i>> /\ began' = began
        /\ i.kind = kind
    BY <2>1 DEF Fetched, i
  <2>3. Len(code') = Len(code) - 1 /\ Len(code) \in Nat /\ Len(began.code) \in Nat
    <3>1. code \in Seq(Instructions) /\ began.code \in Seq(Instructions)
      BY ArithmeticAssumption DEF TypeOK
    <3> QED
      BY <2>2, <3>1, LenProperties, HeadTailProperties
  <2>4. ASSUME Len(code') + 1 = Len(began'.code), last_opcode'[1].kind = "alu",
               ~last_opcode'[1].wide
        PROVE  FirstByte'
    <3>1. Untouched
      BY <2>2, <2>3, <2>4 DEF Remembered
    <3>2. i.kind = "alu" /\ ~i.wide
      BY <2>2, <2>4
    <3>3. Alu
      BY <1>2, <3>2, Zenon DEF Next, Alu, IncDec, Test, Group3Test, Group3Not, ShiftOne, Decimal,
                       Aam, Aad, Multiply, Divide, Cbw, Cwd, SetCarry, Fetched, i
    <3> QED
      BY <3>1, <3>2, <3>3, FirstByteStep
  <2>5. /\ Len(code') <= Len(began.code) /\ Len(code') < Len(began.code)
        /\ Len(code') # Len(began.code)
    <3>1. Len(code) <= Len(began.code)
      BY Zenon DEF Remembered
    <3>2. PICK l \in Nat, m \in Nat, n \in Int : l = Len(code) /\ m = Len(began.code) /\ n = Len(code')
      BY <2>3
    <3>3. n = l - 1 /\ l <= m
      BY <2>3, <3>1, <3>2, Zenon
    <3>4. n <= m /\ n < m /\ n # m
      BY <3>3
    <3> QED
      BY <3>2, <3>4, Zenon
  <2> QED
    BY <2>2, <2>4, <2>5, Zenon DEF Remembered
<1> QED
  BY <1>1, <1>2

\* Two decimal digits.
LEMMA DigitsOf ==
  ASSUME NEW a \in Int, 0 <= a, a <= 255, IsDecimal(a)
  PROVE  \E h \in 0 .. 9, l \in 0 .. 9 :
           h = a \div 16 /\ l = a % 16 /\ a = 16 * h + l /\ Decimally(a) = 10 * h + l
<1>1. /\ a \div 16 \in Int /\ a % 16 \in Int /\ a = 16 * (a \div 16) + (a % 16)
      /\ 0 <= a \div 16 /\ 0 <= a % 16
  OBVIOUS
<1>2. a % 16 < 10 /\ a \div 16 < 10
  BY DEF IsDecimal
<1> QED
  BY <1>1, <1>2 DEF Decimally

LEMMA DigitsMake ==
  ASSUME NEW h \in 0 .. 9, NEW l \in 0 .. 9
  PROVE  IsDecimal(16 * h + l) /\ Decimally(16 * h + l) = 10 * h + l
<1>1. (16 * h + l) % 16 = l /\ (16 * h + l) \div 16 = h
  OBVIOUS
<1> QED
  BY <1>1 DEF IsDecimal, Decimally

\* A number in tens, and what is over.
LEMMA TensOf ==
  ASSUME NEW n \in Int
  PROVE  \E t \in Int, l \in 0 .. 9 : n = 10 * t + l
<1>1. n \div 10 \in Int /\ n % 10 \in 0 .. 9 /\ n = 10 * (n \div 10) + (n % 10)
  OBVIOUS
<1> QED
  BY <1>1

LEMMA ModAgain ==
  /\ \A n, t \in Int : ((n % 256) + t) % 256 = (n + t) % 256
  /\ \A m, k \in Int : 0 <= m /\ m < 256 => (m + 256 * k) % 256 = m
  /\ \A m, k \in Int : 0 <= m /\ m < 100 => (m + 100 * k) % 100 = m
<1>1. \A n, t \in Int : ((n % 256) + t) % 256 = (n + t) % 256
  OBVIOUS
<1>2. \A m, k \in Int : 0 <= m /\ m < 256 => (m + 256 * k) % 256 = m
  OBVIOUS
<1>3. \A m, k \in Int : 0 <= m /\ m < 100 => (m + 100 * k) % 100 = m
  OBVIOUS
<1> QED
  BY <1>1, <1>2, <1>3

\* The low digits make u and the high ones v: what is adjusted, and to what.
LEMMA AdjustedSum ==
  ASSUME NEW u \in Int, 0 <= u, u <= 19, NEW v \in Int, 0 <= v, v <= 18, NEW f,
         f.CF <=> 16 * v + u > 255, f.AF <=> u > 15,
         NEW x, x = (16 * v + u) % 256
  PROVE  LET n == 10 * v + u
         IN  /\ HighAdjusted(x, f) <=> n > 99
             /\ IsDecimal(DecimalAdd(x, f)) /\ Decimally(DecimalAdd(x, f)) = n % 100
<1>1. LowAdjusted(x, f) <=> u >= 10
  <2>1. x % 16 = u % 16
    OBVIOUS
  <2> QED
    BY <2>1 DEF LowAdjusted
<1>2. HighAdjusted(x, f) <=> 10 * v + u > 99
  BY DEF HighAdjusted
<1>3. PICK c \in Int, l \in 0 .. 9 : u = 10 * c + l
  BY TensOf
<1>4. PICK k \in Int, h \in 0 .. 9 : v + c = 10 * k + h
  <2>1. v + c \in Int
    OBVIOUS
  <2> QED
    BY <2>1, TensOf, Zenon
<1>5. /\ c \in {0, 1} /\ (u >= 10 <=> c = 1)
      /\ k \in {0, 1} /\ (10 * v + u > 99 <=> k = 1)
  BY <1>3, <1>4
<1>6. Adjustment(x, f) = 6 * c + 96 * k
  BY <1>1, <1>2, <1>5 DEF Adjustment
<1>7. DecimalAdd(x, f) = 16 * h + l
  <2>1. DecimalAdd(x, f) = (((16 * v + u) % 256) + (6 * c + 96 * k)) % 256
    BY <1>6 DEF DecimalAdd
  <2>2. DecimalAdd(x, f) = ((16 * v + u) + (6 * c + 96 * k)) % 256
    BY <2>1, ModAgain
  <2>3. (16 * v + u) + (6 * c + 96 * k) = (16 * h + l) + 256 * k
    BY <1>3, <1>4
  <2> QED
    BY <2>2, <2>3, ModAgain
<1>8. (10 * v + u) % 100 = 10 * h + l
  <2>1. 10 * v + u = (10 * h + l) + 100 * k
    BY <1>3, <1>4
  <2> QED
    BY <2>1, ModAgain
<1> QED
  BY <1>2, <1>7, <1>8, DigitsMake

LEMMA AdjustedDifference ==
  ASSUME NEW u \in Int, -10 <= u, u <= 9, NEW v \in Int, -9 <= v, v <= 9, NEW f,
         f.CF <=> 16 * v + u < 0, f.AF <=> u < 0,
         NEW x, x = (16 * v + u) % 256
  PROVE  LET n == 10 * v + u
         IN  /\ HighAdjusted(x, f) <=> n < 0
             /\ IsDecimal(DecimalSubtract(x, f))
             /\ Decimally(DecimalSubtract(x, f)) = n % 100
<1>1. LowAdjusted(x, f) <=> u < 0
  <2>1. x % 16 = u % 16
    OBVIOUS
  <2> QED
    BY <2>1 DEF LowAdjusted
<1>2. HighAdjusted(x, f) <=> 10 * v + u < 0
  BY DEF HighAdjusted
<1>3. PICK c \in Int, l \in 0 .. 9 : u = 10 * c + l
  BY TensOf
<1>4. PICK k \in Int, h \in 0 .. 9 : v + c = 10 * k + h
  <2>1. v + c \in Int
    OBVIOUS
  <2> QED
    BY <2>1, TensOf, Zenon
<1>5. /\ c \in {0, -1} /\ (u < 0 <=> c = -1)
      /\ k \in {0, -1} /\ (10 * v + u < 0 <=> k = -1)
  BY <1>3, <1>4
<1>6. Adjustment(x, f) = -(6 * c + 96 * k)
  BY <1>1, <1>2, <1>5 DEF Adjustment
<1>7. DecimalSubtract(x, f) = 16 * h + l
  <2>1. DecimalSubtract(x, f) = (((16 * v + u) % 256) + (6 * c + 96 * k)) % 256
    BY <1>6 DEF DecimalSubtract
  <2>2. DecimalSubtract(x, f) = ((16 * v + u) + (6 * c + 96 * k)) % 256
    BY <2>1, ModAgain
  <2>3. (16 * v + u) + (6 * c + 96 * k) = (16 * h + l) + 256 * k
    BY <1>3, <1>4
  <2> QED
    BY <2>2, <2>3, ModAgain
<1>8. (10 * v + u) % 100 = 10 * h + l
  <2>1. 10 * v + u = (10 * h + l) + 100 * k
    BY <1>3, <1>4
  <2> QED
    BY <2>1, ModAgain
<1> QED
  BY <1>2, <1>7, <1>8, DigitsMake

\* The two digits of n, and whether there are more.
AdjustedTo(v, more, n) ==
  /\ more <=> n \notin 0 .. 99
  /\ IsDecimal(v) /\ Decimally(v) = n % 100

\* What the adjustment makes of a packed sum, and of a packed difference.
LEMMA SumAdjusted ==
  ASSUME NEW a \in Int, 0 <= a, a <= 255, IsDecimal(a),
         NEW b \in Int, 0 <= b, b <= 255, IsDecimal(b), NEW c \in {0, 1},
         NEW x, NEW f, PackedSum(x, f, a, b, c)
  PROVE  AdjustedTo(DecimalAdd(x, f), HighAdjusted(x, f), Decimally(a) + Decimally(b) + c)
<1>1. PICK ah \in 0 .. 9, al \in 0 .. 9 :
        al = a % 16 /\ a = 16 * ah + al /\ Decimally(a) = 10 * ah + al
  BY DigitsOf
<1>2. PICK bh \in 0 .. 9, bl \in 0 .. 9 :
        bl = b % 16 /\ b = 16 * bh + bl /\ Decimally(b) = 10 * bh + bl
  BY DigitsOf
<1>3. PICK u \in Int, v \in Int : u = al + bl + c /\ v = ah + bh
  OBVIOUS
<1>4. /\ 0 <= u /\ u <= 19 /\ 0 <= v /\ v <= 18
      /\ a + b + c = 16 * v + u /\ (a % 16) + (b % 16) + c = u
      /\ Decimally(a) + Decimally(b) + c = 10 * v + u
  BY <1>1, <1>2, <1>3
<1>5. (f.CF <=> 16 * v + u > 255) /\ (f.AF <=> u > 15) /\ x = (16 * v + u) % 256
  BY <1>4 DEF PackedSum
<1>6. /\ HighAdjusted(x, f) <=> 10 * v + u > 99
      /\ IsDecimal(DecimalAdd(x, f)) /\ Decimally(DecimalAdd(x, f)) = (10 * v + u) % 100
  BY <1>4, <1>5, AdjustedSum
<1>7. 10 * v + u \in Int /\ (10 * v + u > 99 <=> 10 * v + u \notin 0 .. 99)
  BY <1>4
<1> QED
  BY <1>4, <1>6, <1>7 DEF AdjustedTo

LEMMA DifferenceAdjusted ==
  ASSUME NEW a \in Int, 0 <= a, a <= 255, IsDecimal(a),
         NEW b \in Int, 0 <= b, b <= 255, IsDecimal(b), NEW c \in {0, 1},
         NEW x, NEW f, PackedDifference(x, f, a, b, c)
  PROVE  AdjustedTo(DecimalSubtract(x, f), HighAdjusted(x, f),
                    Decimally(a) - Decimally(b) - c)
<1>1. PICK ah \in 0 .. 9, al \in 0 .. 9 :
        al = a % 16 /\ a = 16 * ah + al /\ Decimally(a) = 10 * ah + al
  BY DigitsOf
<1>2. PICK bh \in 0 .. 9, bl \in 0 .. 9 :
        bl = b % 16 /\ b = 16 * bh + bl /\ Decimally(b) = 10 * bh + bl
  BY DigitsOf
<1>3. PICK u \in Int, v \in Int : u = al - bl - c /\ v = ah - bh
  OBVIOUS
<1>4. /\ -10 <= u /\ u <= 9 /\ -9 <= v /\ v <= 9
      /\ a - b - c = 16 * v + u /\ (a % 16) - (b % 16) - c = u
      /\ Decimally(a) - Decimally(b) - c = 10 * v + u
  BY <1>1, <1>2, <1>3
<1>5. (f.CF <=> 16 * v + u < 0) /\ (f.AF <=> u < 0) /\ x = (16 * v + u) % 256
  BY <1>4 DEF PackedDifference
<1>6. /\ HighAdjusted(x, f) <=> 10 * v + u < 0
      /\ IsDecimal(DecimalSubtract(x, f))
      /\ Decimally(DecimalSubtract(x, f)) = (10 * v + u) % 100
  BY <1>4, <1>5, AdjustedDifference
<1>7. 10 * v + u \in Int /\ (10 * v + u < 0 <=> 10 * v + u \notin 0 .. 99)
  BY <1>4
<1> QED
  BY <1>4, <1>6, <1>7 DEF AdjustedTo

\* What DecimalRight says of a step.
DecimalDone ==
  LET start == Decimally(began.ax % 256)
      other == Decimally(operand.lo)
  IN  /\ i.kind = "daa" /\ AfterByte({ADC}) => Told(start + other + Num(began.cf))
      /\ i.kind = "das" /\ AfterByte({SBB}) => Told(start - other - Num(began.cf))

LEMMA DecimalIs ==
  ASSUME TypeOK, NEW kind, NEW al, Decimal(kind, al), ~alu_preserve_cf
  PROVE  ax'.lo = al /\ flags'.CF = HighAdjusted(ax.lo, flags)
<1> DEFINE f == AluFlags(AND, ax, ax, [lo |-> al, hi |-> 0], FALSE,
                         HighAdjusted(ax.lo, flags))
<1>1. f.CF = HighAdjusted(ax.lo, flags)
  BY DEF AluFlags
<1>2. DOMAIN f = {"CF", "ZF", "SF", "PF", "AF", "OF"}
  BY DEF AluFlags
<1>3. flags' = [f EXCEPT !.AF = LowAdjusted(ax.lo, flags)]
  BY DEF Decimal
<1>4. ax' = [ax EXCEPT !.lo = al] /\ ax \in Value
  BY DEF Decimal, TypeOK
<1> HIDE DEF f
<1>5. flags'.CF = f.CF
  BY <1>2, <1>3
<1> QED
  BY <1>1, <1>4, <1>5 DEF Value

\* A second and last instruction finds what the first byte left.
LEMMA BytesBefore ==
  ASSUME TypeOK, Remembered, NEW op, AfterByte({op}), NEW kind, Fetched(kind)
  PROVE  /\ FirstByte /\ last_opcode[1].op = op
         /\ began.ax % 256 \in Int /\ 0 <= began.ax % 256 /\ began.ax % 256 <= 255
         /\ operand.lo \in Int /\ 0 <= operand.lo /\ operand.lo <= 255
         /\ IsDecimal(began.ax % 256) /\ IsDecimal(operand.lo)
         /\ Num(began.cf) \in {0, 1}
<1>1. /\ last_opcode # <<>> /\ last_opcode[1].kind = "alu" /\ ~last_opcode[1].wide
      /\ last_opcode[1].op = op /\ Len(began.code) = 2
      /\ IsDecimal(began.ax % 256) /\ IsDecimal(operand.lo)
  BY DEF AfterByte
<1>2. Len(code) + 1 = 2
  <2>1. code \in Seq(Instructions) /\ code # <<>>
    BY DEF TypeOK, Fetched
  <2>2. Len(code) \in Nat /\ Len(code) # 0
    BY <2>1, LenProperties, EmptySeq
  <2>3. Len(code) < 2
    BY <1>1, Zenon DEF Remembered
  <2> QED
    BY <2>2, <2>3
<1>3. FirstByte
  BY <1>1, <1>2, Zenon DEF Remembered
<1>4. /\ began.ax % 256 \in Byte /\ operand.lo \in Byte /\ Num(began.cf) \in {0, 1}
  <2>1. began.ax \in Word16 /\ began.cf \in BOOLEAN /\ operand \in Value
    BY ArithmeticAssumption DEF TypeOK
  <2> QED
    BY <2>1, WordFacts, NumType DEF Value
<1> QED
  BY <1>1, <1>3, <1>4, InByte

(***************************************************************************)
(* DAA after the addition of two packed decimals with a carry, and DAS     *)
(* after a subtraction, leave the decimal result and its carry, whatever   *)
(* the decimals (@daa, @das).                                              *)
(***************************************************************************)
THEOREM DecimalsCorrect == Spec => DecimalRight
<1>1. TypeOK /\ Remembered /\ [Next]_vars => [DecimalDone]_vars
  <2> SUFFICES ASSUME TypeOK, Remembered, Next PROVE DecimalDone
    OBVIOUS
  <2>1. ASSUME i.kind = "daa", AfterByte({ADC})
        PROVE  Told(Decimally(began.ax % 256) + Decimally(operand.lo) + Num(began.cf))
    <3>1. Decimal("daa", DecimalAdd(ax.lo, flags))
      BY <2>1, ByKind
    <3>2. PICK a, b, c : a = began.ax % 256 /\ b = operand.lo /\ c = Num(began.cf)
      OBVIOUS
    <3>3. /\ FirstByte /\ last_opcode[1].op = ADC
          /\ a \in Int /\ 0 <= a /\ a <= 255 /\ IsDecimal(a)
          /\ b \in Int /\ 0 <= b /\ b <= 255 /\ IsDecimal(b) /\ c \in {0, 1}
      <4>1. Fetched("daa")
        BY <3>1 DEF Decimal
      <4>2. /\ FirstByte /\ last_opcode[1].op = ADC
            /\ began.ax % 256 \in Int /\ 0 <= began.ax % 256 /\ began.ax % 256 <= 255
            /\ operand.lo \in Int /\ 0 <= operand.lo /\ operand.lo <= 255
            /\ IsDecimal(began.ax % 256) /\ IsDecimal(operand.lo)
            /\ Num(began.cf) \in {0, 1}
        BY <2>1, <4>1, BytesBefore, Zenon
      <4> QED
        BY <3>2, <4>2
    <3>4. ~alu_preserve_cf /\ PackedSum(ax.lo, flags, a, b, c)
      BY <3>2, <3>3 DEF FirstByte
    <3>5. ax'.lo = DecimalAdd(ax.lo, flags) /\ flags'.CF = HighAdjusted(ax.lo, flags)
      BY <3>1, <3>4, DecimalIs
    <3>6. AdjustedTo(DecimalAdd(ax.lo, flags), HighAdjusted(ax.lo, flags),
                     Decimally(a) + Decimally(b) + c)
      BY <3>3, <3>4, SumAdjusted
    <3>7. HighAdjusted(ax.lo, flags) \in BOOLEAN
      BY DEF HighAdjusted, TypeOK, Flags
    <3> QED
      BY <3>2, <3>5, <3>6, <3>7, Zenon DEF Told, AdjustedTo
  <2>2. ASSUME i.kind = "das", AfterByte({SBB})
        PROVE  Told(Decimally(began.ax % 256) - Decimally(operand.lo) - Num(began.cf))
    <3>1. Decimal("das", DecimalSubtract(ax.lo, flags))
      BY <2>2, ByKind
    <3>2. PICK a, b, c : a = began.ax % 256 /\ b = operand.lo /\ c = Num(began.cf)
      OBVIOUS
    <3>3. /\ FirstByte /\ last_opcode[1].op = SBB
          /\ a \in Int /\ 0 <= a /\ a <= 255 /\ IsDecimal(a)
          /\ b \in Int /\ 0 <= b /\ b <= 255 /\ IsDecimal(b) /\ c \in {0, 1}
      <4>1. Fetched("das")
        BY <3>1 DEF Decimal
      <4>2. /\ FirstByte /\ last_opcode[1].op = SBB
            /\ began.ax % 256 \in Int /\ 0 <= began.ax % 256 /\ began.ax % 256 <= 255
            /\ operand.lo \in Int /\ 0 <= operand.lo /\ operand.lo <= 255
            /\ IsDecimal(began.ax % 256) /\ IsDecimal(operand.lo)
            /\ Num(began.cf) \in {0, 1}
        BY <2>2, <4>1, BytesBefore, Zenon
      <4> QED
        BY <3>2, <4>2
    <3>4. ~alu_preserve_cf /\ PackedDifference(ax.lo, flags, a, b, c)
      BY <3>2, <3>3 DEF FirstByte
    <3>5. ax'.lo = DecimalSubtract(ax.lo, flags) /\ flags'.CF = HighAdjusted(ax.lo, flags)
      BY <3>1, <3>4, DecimalIs
    <3>6. AdjustedTo(DecimalSubtract(ax.lo, flags), HighAdjusted(ax.lo, flags),
                     Decimally(a) - Decimally(b) - c)
      BY <3>3, <3>4, DifferenceAdjusted
    <3>7. HighAdjusted(ax.lo, flags) \in BOOLEAN
      BY DEF HighAdjusted, TypeOK, Flags
    <3> QED
      BY <3>2, <3>5, <3>6, <3>7, Zenon DEF Told, AdjustedTo
  <2> QED
    BY <2>1, <2>2 DEF DecimalDone
<1>2. Spec => []Remembered
  BY RememberedInit, RememberedStep, TypeCorrect, PTL DEF Spec
<1> QED
  BY <1>1, <1>2, TypeCorrect, PTL DEF Spec, DecimalRight, DecimalDone

----------------------------------------------------------------------------
(***************************************************************************)
(* Shifts and rotates.  The bits of a byte, doubled or halved.             *)
(***************************************************************************)
LEMMA BitIs ==
  ASSUME NEW x \in Int
  PROVE  /\ Bit(x, 0) = (x % 2 = 1)
         /\ Bit(x, 1) = ((x \div 2) % 2 = 1)
         /\ Bit(x, 2) = ((x \div 4) % 2 = 1)
         /\ Bit(x, 3) = ((x \div 8) % 2 = 1)
         /\ Bit(x, 4) = ((x \div 16) % 2 = 1)
         /\ Bit(x, 5) = ((x \div 32) % 2 = 1)
         /\ Bit(x, 6) = ((x \div 64) % 2 = 1)
         /\ Bit(x, 7) = ((x \div 128) % 2 = 1)
<1>1. /\ 2 ^ 0 = 1 /\ 2 ^ 1 = 2 /\ 2 ^ 2 = 4 /\ 2 ^ 3 = 8
      /\ 2 ^ 4 = 16 /\ 2 ^ 5 = 32 /\ 2 ^ 6 = 64 /\ 2 ^ 7 = 128
  OBVIOUS
<1>2. x \div 1 = x
  OBVIOUS
<1> QED
  BY <1>1, <1>2, Zenon DEF Bit

LEMMA DoubledBits ==
  ASSUME NEW b \in Int, 0 <= b, b <= 255, NEW d \in {0, 1}
  PROVE  LET c == ((2 * b) % 256) + d
         IN  /\ Bit(c, 0) = (d = 1)
             /\ \A k \in 1 .. 7 : Bit(c, k) = Bit(b, k - 1)
             /\ (b \div 128 = 1) = Bit(b, 7)
             /\ (b >= 128) = Bit(b, 7)
<1> DEFINE c == ((2 * b) % 256) + d
<1>1. c \in Int /\ c % 2 = d
  OBVIOUS
<1>2. /\ (c \div 2) % 2 = b % 2
      /\ (c \div 4) % 2 = (b \div 2) % 2
      /\ (c \div 8) % 2 = (b \div 4) % 2
      /\ (c \div 16) % 2 = (b \div 8) % 2
  OBVIOUS
<1>3. /\ (c \div 32) % 2 = (b \div 16) % 2
      /\ (c \div 64) % 2 = (b \div 32) % 2
      /\ (c \div 128) % 2 = (b \div 64) % 2
  OBVIOUS
<1>4. /\ (b \div 128 = 1) <=> ((b \div 128) % 2 = 1)
      /\ (b >= 128) <=> ((b \div 128) % 2 = 1)
  OBVIOUS
<1> HIDE DEF c
<1>5. /\ Bit(c, 1) = Bit(b, 0) /\ Bit(c, 2) = Bit(b, 1) /\ Bit(c, 3) = Bit(b, 2)
      /\ Bit(c, 4) = Bit(b, 3) /\ Bit(c, 5) = Bit(b, 4) /\ Bit(c, 6) = Bit(b, 5)
      /\ Bit(c, 7) = Bit(b, 6)
  BY <1>1, <1>2, <1>3, BitIs, SMTT(30)
<1>6. \A k \in 1 .. 7 : Bit(c, k) = Bit(b, k - 1)
  <2> SUFFICES ASSUME NEW k \in 1 .. 7 PROVE Bit(c, k) = Bit(b, k - 1)
    OBVIOUS
  <2>1. k \in {1, 2, 3, 4, 5, 6, 7}
    OBVIOUS
  <2> QED
    BY <1>5, <2>1
<1>7. Bit(c, 0) = (d = 1)
  BY <1>1, BitIs
<1>8. (b \div 128 = 1) = Bit(b, 7) /\ (b >= 128) = Bit(b, 7)
  BY <1>4, BitIs
<1> QED
  BY <1>6, <1>7, <1>8 DEF c

LEMMA HalvedBits ==
  ASSUME NEW b \in Int, 0 <= b, b <= 255, NEW d \in {0, 1}
  PROVE  LET c == (b \div 2) + 128 * d
         IN  /\ Bit(c, 7) = (d = 1)
             /\ \A k \in 0 .. 6 : Bit(c, k) = Bit(b, k + 1)
             /\ (b % 2 = 1) = Bit(b, 0)
             /\ (c \div 64 \in {1, 2}) = (Bit(c, 7) # Bit(c, 6))
<1> DEFINE c == (b \div 2) + 128 * d
<1>1. c \in Int /\ (c \div 128) % 2 = d
  OBVIOUS
<1>2. /\ c % 2 = (b \div 2) % 2
      /\ (c \div 2) % 2 = (b \div 4) % 2
      /\ (c \div 4) % 2 = (b \div 8) % 2
      /\ (c \div 8) % 2 = (b \div 16) % 2
  OBVIOUS
<1>3. /\ (c \div 16) % 2 = (b \div 32) % 2
      /\ (c \div 32) % 2 = (b \div 64) % 2
      /\ (c \div 64) % 2 = (b \div 128) % 2
  OBVIOUS
<1>4. (c \div 64 \in {1, 2}) <=> ~(((c \div 128) % 2 = 1) <=> ((c \div 64) % 2 = 1))
  OBVIOUS
<1> HIDE DEF c
<1>5. /\ Bit(c, 0) = Bit(b, 1) /\ Bit(c, 1) = Bit(b, 2) /\ Bit(c, 2) = Bit(b, 3)
      /\ Bit(c, 3) = Bit(b, 4) /\ Bit(c, 4) = Bit(b, 5) /\ Bit(c, 5) = Bit(b, 6)
      /\ Bit(c, 6) = Bit(b, 7)
  BY <1>1, <1>2, <1>3, BitIs
<1>6. \A k \in 0 .. 6 : Bit(c, k) = Bit(b, k + 1)
  <2> SUFFICES ASSUME NEW k \in 0 .. 6 PROVE Bit(c, k) = Bit(b, k + 1)
    OBVIOUS
  <2>1. k \in {0, 1, 2, 3, 4, 5, 6}
    OBVIOUS
  <2> QED
    BY <1>5, <2>1
<1>7. Bit(c, 7) = (d = 1)
  BY <1>1, BitIs
<1>8. (b % 2 = 1) = Bit(b, 0)
  BY BitIs
<1>9. (c \div 64 \in {1, 2}) = (Bit(c, 7) # Bit(c, 6))
  BY <1>1, <1>4, BitIs
<1> QED
  BY <1>6, <1>7, <1>8, <1>9 DEF c

Places(wide) == IF wide THEN 16 ELSE 8

LEMMA ValueBitIs ==
  /\ \A v, k : k \in 0 .. 7 => ValueBit(v, k) = Bit(v.lo, k)
  /\ \A v, k : k \in 8 .. 15 => ValueBit(v, k) = Bit(v.hi, k - 8)
  /\ \A v, k : ValueBit(v, k) \in BOOLEAN
<1>1. \A k \in 0 .. 7 : k < 8 /\ k % 8 = k
  OBVIOUS
<1>2. \A k \in 8 .. 15 : ~(k < 8) /\ k % 8 = k - 8
  OBVIOUS
<1>3. ASSUME NEW v, NEW k \in 0 .. 7 PROVE ValueBit(v, k) = Bit(v.lo, k)
  BY <1>1 DEF ValueBit
<1>4. ASSUME NEW v, NEW k \in 8 .. 15 PROVE ValueBit(v, k) = Bit(v.hi, k - 8)
  BY <1>2 DEF ValueBit
<1>5. \A v, k : ValueBit(v, k) \in BOOLEAN
  BY Zenon DEF ValueBit, Bit
<1> QED
  BY <1>3, <1>4, <1>5

\* The sign is the upper bit.
LEMMA MinusIs ==
  ASSUME NEW v \in Value, NEW wide \in BOOLEAN
  PROVE  /\ Minus(v, wide) = ValueBit(v, Places(wide) - 1)
         /\ v.lo \in Int /\ 0 <= v.lo /\ v.lo <= 255
         /\ v.hi \in Int /\ 0 <= v.hi /\ v.hi <= 255
<1>1. /\ v.lo \in Int /\ 0 <= v.lo /\ v.lo <= 255
      /\ v.hi \in Int /\ 0 <= v.hi /\ v.hi <= 255
  BY InByte DEF Value
<1>2. (v.lo >= 128) = Bit(v.lo, 7) /\ (v.hi >= 128) = Bit(v.hi, 7)
  BY <1>1, DoubledBits
<1>3. CASE wide
  <2>1. ValueBit(v, 15) = Bit(v.hi, 7) /\ Places(wide) - 1 = 15
    BY <1>3, ValueBitIs DEF Places
  <2> QED
    BY <1>1, <1>2, <1>3, <2>1 DEF Minus, SignByte, BitSeven
<1>4. CASE ~wide
  <2>1. ValueBit(v, 7) = Bit(v.lo, 7) /\ Places(wide) - 1 = 7
    BY <1>4, ValueBitIs DEF Places
  <2> QED
    BY <1>1, <1>2, <1>4, <2>1 DEF Minus, SignByte, BitSeven
<1> QED
  BY <1>3, <1>4

\* A round to the left takes in a bit below and moves the others up.
UpOne(ext, w, v, c, x) ==
  /\ x.carry = ValueBit(v, w - 1)
  /\ ValueBit(x.value, 0) = ((ext = ROL /\ ValueBit(v, w - 1)) \/ (ext = RCL /\ c))
  /\ \A k \in 1 .. w - 1 : ValueBit(x.value, k) = ValueBit(v, k - 1)
  /\ x.overflow = (ValueBit(x.value, w - 1) # ValueBit(v, w - 1))

LEMMA LeftBits ==
  ASSUME NEW ext, NEW v \in Value, NEW wide \in BOOLEAN, NEW c \in BOOLEAN
  PROVE  UpOne(ext, Places(wide), v, c, ShiftLeft(ext, v, wide, c))
<1> DEFINE w   == Places(wide)
           out == Minus(v, wide)
           in  == (ext = ROL /\ out) \/ (ext = RCL /\ c)
           lo  == ((2 * v.lo) % 256) + Num(in)
           hi  == IF wide THEN ((2 * v.hi) % 256) + (v.lo \div 128) ELSE 0
           res == [lo |-> lo, hi |-> hi]
           x   == ShiftLeft(ext, v, wide, c)
<1>1. /\ out = ValueBit(v, w - 1)
      /\ v.lo \in Int /\ 0 <= v.lo /\ v.lo <= 255
      /\ v.hi \in Int /\ 0 <= v.hi /\ v.hi <= 255
  BY MinusIs
<1>2. x = [value |-> res, carry |-> out, overflow |-> Minus(res, wide) # out]
  BY DEF ShiftLeft
<1>3. out \in BOOLEAN /\ in \in BOOLEAN
  BY <1>1, ValueBitIs
<1> HIDE DEF x, out, in
<1>4. PICK d \in {0, 1} : d = Num(in) /\ (d = 1) = in
  BY <1>3 DEF Num
<1>5. PICK e \in {0, 1} : e = v.lo \div 128 /\ (e = 1) = Bit(v.lo, 7)
  <2>1. v.lo \div 128 \in {0, 1}
    BY <1>1
  <2>2. (v.lo \div 128 = 1) = Bit(v.lo, 7)
    BY <1>1, DoubledBits
  <2> QED
    BY <2>1, <2>2
<1>6. lo = ((2 * v.lo) % 256) + d /\ hi = IF wide THEN ((2 * v.hi) % 256) + e ELSE 0
  BY <1>4, <1>5
<1>7. res \in Value
  <2>1. \A n \in Int, f \in {0, 1} : ((2 * n) % 256) + f \in Byte
    BY DEF Byte
  <2>2. 0 \in Byte
    BY DEF Byte
  <2> QED
    BY <1>1, <1>6, <2>1, <2>2 DEF Value
<1>8. /\ Bit(lo, 0) = in
      /\ \A k \in 1 .. 7 : Bit(lo, k) = Bit(v.lo, k - 1)
  BY <1>1, <1>4, <1>6, DoubledBits
<1>9. ASSUME wide
      PROVE  /\ Bit(hi, 0) = Bit(v.lo, 7)
             /\ \A k \in 1 .. 7 : Bit(hi, k) = Bit(v.hi, k - 1)
  BY <1>1, <1>5, <1>6, <1>9, DoubledBits, SMTT(30)
<1>10. res.lo = lo /\ res.hi = hi
  OBVIOUS
<1> HIDE DEF lo, hi, res
<1>11. ValueBit(res, 0) = in
  BY <1>8, <1>10, ValueBitIs
<1>12. ASSUME NEW k \in 1 .. w - 1 PROVE ValueBit(res, k) = ValueBit(v, k - 1)
  <2>1. CASE k \in 1 .. 7
    <3>1. k \in 0 .. 7 /\ k - 1 \in 0 .. 7
      BY <2>1
    <3> QED
      BY <1>8, <1>10, <2>1, <3>1, ValueBitIs, Zenon
  <2>2. CASE k = 8
    <3>1. wide
      BY <2>2 DEF Places
    <3>2. ValueBit(res, 8) = Bit(hi, 8 - 8) /\ ValueBit(v, 7) = Bit(v.lo, 7) /\ 8 - 8 = 0 /\ k - 1 = 7
      BY <1>10, <2>2, ValueBitIs
    <3> QED
      BY <1>9, <2>2, <3>1, <3>2
  <2>3. CASE k \in 9 .. 15
    <3>1. wide /\ k \in 8 .. 15 /\ k - 1 \in 8 .. 15 /\ k - 8 \in 1 .. 7 /\ (k - 1) - 8 = (k - 8) - 1
      BY <2>3 DEF Places
    <3>2. ValueBit(res, k) = Bit(hi, k - 8) /\ ValueBit(v, k - 1) = Bit(v.hi, (k - 1) - 8)
      BY <1>10, <3>1, ValueBitIs, Zenon
    <3>3. Bit(hi, k - 8) = Bit(v.hi, (k - 8) - 1)
      BY <1>9, <3>1, Zenon
    <3> QED
      BY <3>1, <3>2, <3>3, Zenon
  <2>4. k \in 1 .. 15
    BY DEF Places
  <2> QED
    BY <2>1, <2>2, <2>3, <2>4
<1>13. Minus(res, wide) = ValueBit(res, w - 1)
  BY <1>7, MinusIs
<1> HIDE DEF w
<1>14. x.carry = ValueBit(v, w - 1) /\ x.value = res
  BY <1>1, <1>2
<1>15. x.overflow = (ValueBit(res, w - 1) # ValueBit(v, w - 1))
  BY <1>1, <1>2, <1>13
<1>16. ValueBit(res, 0) = ((ext = ROL /\ ValueBit(v, w - 1)) \/ (ext = RCL /\ c))
  BY <1>1, <1>11, Zenon DEF in
<1> QED
  BY <1>12, <1>14, <1>15, <1>16, Zenon DEF UpOne, x, w

\* A round to the right takes in a bit above and moves the others down.
DownOne(ext, w, v, c, x) ==
  /\ x.carry = ValueBit(v, 0)
  /\ ValueBit(x.value, w - 1) = (\/ ext = ROR /\ ValueBit(v, 0)
                                 \/ ext = RCR /\ c
                                 \/ ext = SAR /\ ValueBit(v, w - 1))
  /\ \A k \in 0 .. w - 2 : ValueBit(x.value, k) = ValueBit(v, k + 1)
  /\ x.overflow = (ValueBit(x.value, w - 1) # ValueBit(v, w - 1))

LEMMA RightBits ==
  ASSUME NEW ext \in {ROR, RCR, SHR, SAR}, NEW v \in Value, NEW wide \in BOOLEAN,
         NEW c \in BOOLEAN
  PROVE  DownOne(ext, Places(wide), v, c, ShiftRight(ext, v, wide, c))
<1> DEFINE w   == Places(wide)
           out == v.lo % 2 = 1
           top == SignByte(v, wide)
           in  == (ext = ROR /\ out) \/ (ext = RCR /\ c) \/ (ext = SAR /\ BitSeven(top))
           new == (top \div 2) + 128 * Num(in)
           low == (v.lo \div 2) + 128 * (v.hi % 2)
           res == IF wide THEN [lo |-> low, hi |-> new] ELSE [lo |-> new, hi |-> 0]
           two  == new \div 64 \in {1, 2}
           over == IF ext = SHR THEN BitSeven(top) ELSE ext # SAR /\ two
           x   == ShiftRight(ext, v, wide, c)
<1>1. /\ BitSeven(top) = ValueBit(v, w - 1)
      /\ v.lo \in Int /\ 0 <= v.lo /\ v.lo <= 255
      /\ v.hi \in Int /\ 0 <= v.hi /\ v.hi <= 255
  BY MinusIs DEF Minus
<1>2. x = [value |-> res, carry |-> out, overflow |-> over]
  BY DEF ShiftRight
<1>3. out = ValueBit(v, 0)
  <2>1. out = Bit(v.lo, 0)
    BY <1>1, HalvedBits
  <2>2. 0 \in 0 .. 7
    OBVIOUS
  <2> QED
    BY <2>1, <2>2, ValueBitIs, Zenon
<1>4. top \in Int /\ 0 <= top /\ top <= 255 /\ top = IF wide THEN v.hi ELSE v.lo
  BY <1>1 DEF SignByte
<1>5. two \in BOOLEAN
  OBVIOUS
<1> HIDE DEF x, out, over
<1>6. in = (\/ ext = ROR /\ ValueBit(v, 0)
            \/ ext = RCR /\ c
            \/ ext = SAR /\ ValueBit(v, w - 1))
  BY <1>1, <1>3, Zenon
<1>7. in \in BOOLEAN
  BY Zenon
<1> HIDE DEF in, top
<1>8. PICK d \in {0, 1} : d = Num(in) /\ (d = 1) = in
  BY <1>7 DEF Num
<1>9. PICK e \in {0, 1} : e = v.hi % 2 /\ (e = 1) = Bit(v.hi, 0)
  <2>1. v.hi % 2 \in {0, 1}
    BY <1>1
  <2>2. (v.hi % 2 = 1) = Bit(v.hi, 0)
    BY <1>1, HalvedBits
  <2> QED
    BY <2>1, <2>2
<1>10. new = (top \div 2) + 128 * d /\ low = (v.lo \div 2) + 128 * e
  BY <1>8, <1>9
<1>11. /\ Bit(new, 7) = in
       /\ \A k \in 0 .. 6 : Bit(new, k) = Bit(top, k + 1)
       /\ two = (Bit(new, 7) # Bit(new, 6))
  BY <1>4, <1>8, <1>10, HalvedBits, SMTT(30)
<1>12. /\ Bit(low, 7) = Bit(v.hi, 0)
       /\ \A k \in 0 .. 6 : Bit(low, k) = Bit(v.lo, k + 1)
  BY <1>1, <1>9, <1>10, HalvedBits
<1> HIDE DEF new, low, two
<1>13. /\ wide => res.lo = low /\ res.hi = new /\ top = v.hi
       /\ ~wide => res.lo = new /\ top = v.lo
  BY <1>4
<1> HIDE DEF res
<1>14. ValueBit(res, w - 1) = Bit(new, 7) /\ ValueBit(res, w - 2) = Bit(new, 6)
  <2>1. CASE wide
    <3>1. w - 1 = 15 /\ w - 2 = 14 /\ 15 \in 8 .. 15 /\ 14 \in 8 .. 15 /\ 15 - 8 = 7 /\ 14 - 8 = 6
      BY <2>1 DEF Places
    <3>2. /\ ValueBit(res, 15) = Bit(res.hi, 15 - 8)
          /\ ValueBit(res, 14) = Bit(res.hi, 14 - 8)
      BY <3>1, ValueBitIs, Zenon
    <3> HIDE DEF w
    <3> QED
      BY <1>13, <2>1, <3>1, <3>2
  <2>2. CASE ~wide
    <3>1. w - 1 = 7 /\ w - 2 = 6 /\ 7 \in 0 .. 7 /\ 6 \in 0 .. 7
      BY <2>2 DEF Places
    <3>2. ValueBit(res, 7) = Bit(res.lo, 7) /\ ValueBit(res, 6) = Bit(res.lo, 6)
      BY <3>1, ValueBitIs, Zenon
    <3> HIDE DEF w
    <3> QED
      BY <1>13, <2>2, <3>1, <3>2
  <2> QED
    BY <2>1, <2>2
<1>15. ASSUME NEW k \in 0 .. w - 2 PROVE ValueBit(res, k) = ValueBit(v, k + 1)
  <2>1. CASE k \in 0 .. 6
    <3>1. k \in 0 .. 7 /\ k + 1 \in 0 .. 7
      BY <2>1
    <3>2. ValueBit(res, k) = Bit(res.lo, k) /\ ValueBit(v, k + 1) = Bit(v.lo, k + 1)
      BY <3>1, ValueBitIs, Zenon
    <3> QED
      BY <1>11, <1>12, <1>13, <2>1, <3>2
  <2>2. CASE k = 7
    <3>1. wide
      BY <2>2 DEF Places
    <3>2. ValueBit(res, 7) = Bit(res.lo, 7) /\ ValueBit(v, 8) = Bit(v.hi, 0) /\ k + 1 = 8
      <4>1. 7 \in 0 .. 7 /\ 8 \in 8 .. 15 /\ 8 - 8 = 0
        OBVIOUS
      <4>2. ValueBit(res, 7) = Bit(res.lo, 7) /\ ValueBit(v, 8) = Bit(v.hi, 8 - 8)
        BY <4>1, ValueBitIs, Zenon
      <4> QED
        BY <2>2, <4>1, <4>2
    <3> QED
      BY <1>12, <1>13, <2>2, <3>1, <3>2
  <2>3. CASE k \in 8 .. 14
    <3>1. /\ wide /\ k \in 8 .. 15 /\ k + 1 \in 8 .. 15 /\ k - 8 \in 0 .. 6
          /\ (k + 1) - 8 = (k - 8) + 1
      BY <2>3 DEF Places
    <3>2. ValueBit(res, k) = Bit(res.hi, k - 8) /\ ValueBit(v, k + 1) = Bit(v.hi, (k + 1) - 8)
      BY <3>1, ValueBitIs, Zenon
    <3>3. Bit(new, k - 8) = Bit(top, (k - 8) + 1)
      BY <1>11, <3>1, Zenon
    <3> QED
      BY <1>13, <3>1, <3>2, <3>3, Zenon
  <2>4. k \in 0 .. 14
    BY DEF Places
  <2> QED
    BY <2>1, <2>2, <2>3, <2>4
<1>16. ValueBit(res, w - 2) = ValueBit(v, w - 1)
  <2>1. w - 2 \in 0 .. w - 2 /\ (w - 2) + 1 = w - 1
    BY DEF Places
  <2> QED
    BY <1>15, <2>1, Zenon
<1>17. x.carry = ValueBit(v, 0) /\ x.value = res /\ x.overflow = over
  BY <1>2, <1>3
<1> HIDE DEF w
<1>18. over = (ValueBit(res, w - 1) # ValueBit(v, w - 1))
  <2>1. CASE ext = SHR
    <3>1. ext # ROR /\ ext # RCR /\ ext # SAR
      BY <2>1 DEF ROR, RCR, SHR, SAR
    <3>2. in = FALSE
      BY <1>6, <3>1, Zenon
    <3>3. over = ValueBit(v, w - 1) /\ ValueBit(v, w - 1) \in BOOLEAN
      BY <1>1, <2>1, ValueBitIs DEF over
    <3> QED
      BY <1>11, <1>14, <3>2, <3>3
  <2>2. CASE ext = SAR
    <3>1. ext # ROR /\ ext # RCR /\ ext # SHR
      BY <2>2 DEF ROR, RCR, SHR, SAR
    <3>2. in = ValueBit(v, w - 1) /\ over = FALSE
      BY <1>6, <2>2, <3>1, ValueBitIs, Zenon DEF over
    <3> QED
      BY <1>11, <1>14, <3>2, Zenon
  <2>3. CASE ext \notin {SHR, SAR}
    <3>1. ext # SHR /\ ext # SAR
      BY <2>3
    <3>2. over = two
      BY <1>5, <3>1, Zenon DEF over
    <3> QED
      BY <1>11, <1>14, <1>16, <3>2, Zenon
  <2> QED
    BY <2>1, <2>2, <2>3
<1>19. ValueBit(res, w - 1) = (\/ ext = ROR /\ ValueBit(v, 0)
                               \/ ext = RCR /\ c
                               \/ ext = SAR /\ ValueBit(v, w - 1))
  BY <1>6, <1>11, <1>14, Zenon
<1> QED
  BY <1>15, <1>17, <1>18, <1>19, Zenon DEF DownOne, x, w

(***************************************************************************)
(* The places of a value, continued on both sides by what would come in    *)
(* there: the value again for a rotate, with the carry for one through the *)
(* carry, the sign for SAR and zeros for the other shifts.  A shift moves  *)
(* along this tape, a place a round.                                       *)
(***************************************************************************)
Rightward == {ROR, RCR, SHR, SAR}

Through(v, c, w, k) == IF k % (w + 1) = w THEN c ELSE ValueBit(v, k % (w + 1))

Tape(ext, w, v, c, k) ==
  IF ext \in {ROL, ROR} THEN ValueBit(v, k % w)
  ELSE IF ext \in {RCL, RCR} THEN Through(v, c, w, k)
  ELSE IF ext = SAR THEN ValueBit(v, IF k < w THEN k ELSE w - 1)
  ELSE k >= 0 /\ k < w /\ ValueBit(v, k)

LEMMA NextPlace ==
  ASSUME NEW m \in {8, 9, 16, 17}, NEW k \in Int
  PROVE  /\ k % m \in 0 .. m - 1
         /\ (k + 1) % m = IF k % m = m - 1 THEN 0 ELSE (k % m) + 1
         /\ (k - 1) % m = IF k % m = 0 THEN m - 1 ELSE (k % m) - 1
         /\ 0 <= k /\ k < m => k % m = k
<1>1. CASE m = 8
  BY <1>1
<1>2. CASE m = 9
  BY <1>2
<1>3. CASE m = 16
  BY <1>3
<1>4. CASE m = 17
  BY <1>4
<1> QED
  BY <1>1, <1>2, <1>3, <1>4

\* Which tape it is.
LEMMA PlainTape ==
  ASSUME NEW ext \in {ROL, ROR}
  PROVE  \A w, v, c, k : Tape(ext, w, v, c, k) = ValueBit(v, k % w)
  BY Zenon DEF Tape

LEMMA CarryTape ==
  ASSUME NEW ext \in {RCL, RCR}
  PROVE  \A w, v, c, k : Tape(ext, w, v, c, k) = Through(v, c, w, k)
<1>1. ext \notin {ROL, ROR}
  BY DEF ROL, ROR, RCL, RCR
<1> QED
  BY <1>1, Zenon DEF Tape

LEMMA SignTape ==
  \A w, v, c, k : Tape(SAR, w, v, c, k) = ValueBit(v, IF k < w THEN k ELSE w - 1)
<1>1. SAR \notin {ROL, ROR} /\ SAR \notin {RCL, RCR}
  BY DEF ROL, ROR, RCL, RCR, SAR
<1> QED
  BY <1>1, Zenon DEF Tape

LEMMA ZeroTape ==
  ASSUME NEW ext, ext \notin {ROL, ROR, RCL, RCR, SAR}
  PROVE  \A w, v, c, k : Tape(ext, w, v, c, k) = (k >= 0 /\ k < w /\ ValueBit(v, k))
<1>1. ext \notin {ROL, ROR} /\ ext \notin {RCL, RCR} /\ ext # SAR
  OBVIOUS
<1> QED
  BY <1>1, Zenon DEF Tape

----------------------------------------------------------------------------
\* One place to the left and to the right, kind by kind.
LEMMA TurnedLeft ==
  ASSUME NEW w \in {8, 16}, NEW v, NEW u,
         \A k \in 1 .. w - 1 : ValueBit(u, k) = ValueBit(v, k - 1),
         ValueBit(u, 0) = ValueBit(v, w - 1)
  PROVE  \A k \in Int : ValueBit(u, k % w) = ValueBit(v, (k - 1) % w)
<1> SUFFICES ASSUME NEW k \in Int PROVE ValueBit(u, k % w) = ValueBit(v, (k - 1) % w)
  OBVIOUS
<1>1. PICK j \in Int : j = k % w
  OBVIOUS
<1>2. j \in 0 .. w - 1 /\ (k - 1) % w = IF j = 0 THEN w - 1 ELSE j - 1
  BY <1>1, NextPlace
<1>3. CASE j = 0
  BY <1>1, <1>2, <1>3
<1>4. CASE j # 0
  <2>1. j \in 1 .. w - 1
    BY <1>2, <1>4
  <2> QED
    BY <1>1, <1>2, <1>4, <2>1
<1> QED
  BY <1>3, <1>4

LEMMA TurnedRight ==
  ASSUME NEW w \in {8, 16}, NEW v, NEW u,
         \A k \in 0 .. w - 2 : ValueBit(u, k) = ValueBit(v, k + 1),
         ValueBit(u, w - 1) = ValueBit(v, 0)
  PROVE  \A k \in Int : ValueBit(u, k % w) = ValueBit(v, (k + 1) % w)
<1> SUFFICES ASSUME NEW k \in Int PROVE ValueBit(u, k % w) = ValueBit(v, (k + 1) % w)
  OBVIOUS
<1>1. PICK j \in Int : j = k % w
  OBVIOUS
<1>2. j \in 0 .. w - 1 /\ (k + 1) % w = IF j = w - 1 THEN 0 ELSE j + 1
  BY <1>1, NextPlace
<1>3. CASE j = w - 1
  BY <1>1, <1>2, <1>3
<1>4. CASE j # w - 1
  <2>1. j \in 0 .. w - 2
    BY <1>2, <1>4
  <2> QED
    BY <1>1, <1>2, <1>4, <2>1
<1> QED
  BY <1>3, <1>4

LEMMA ThroughLeft ==
  ASSUME NEW w \in {8, 16}, NEW v, NEW u, NEW c, NEW d,
         \A k \in 1 .. w - 1 : ValueBit(u, k) = ValueBit(v, k - 1),
         ValueBit(u, 0) = c, d = ValueBit(v, w - 1)
  PROVE  \A k \in Int : Through(u, d, w, k) = Through(v, c, w, k - 1)
<1> SUFFICES ASSUME NEW k \in Int PROVE Through(u, d, w, k) = Through(v, c, w, k - 1)
  OBVIOUS
<1>1. PICK j \in Int : j = k % (w + 1)
  OBVIOUS
<1>2. j \in 0 .. w /\ (k - 1) % (w + 1) = IF j = 0 THEN w ELSE j - 1
  <2>1. PICK m \in {8, 9, 16, 17} : m = w + 1
    OBVIOUS
  <2>2. k % m \in 0 .. m - 1 /\ (k - 1) % m = IF k % m = 0 THEN m - 1 ELSE (k % m) - 1
    BY NextPlace
  <2>3. m - 1 = w
    BY <2>1
  <2> QED
    BY <1>1, <2>1, <2>2, <2>3
<1>3. CASE j = 0
  BY <1>1, <1>2, <1>3 DEF Through
<1>4. CASE j = w
  BY <1>1, <1>2, <1>4 DEF Through
<1>5. CASE j # 0 /\ j # w
  <2>1. j \in 1 .. w - 1
    BY <1>2, <1>5
  <2>2. ValueBit(u, j) = ValueBit(v, j - 1) /\ j - 1 # w
    BY <2>1
  <2> QED
    BY <1>1, <1>2, <1>5, <2>2 DEF Through
<1> QED
  BY <1>3, <1>4, <1>5

LEMMA ThroughRight ==
  ASSUME NEW w \in {8, 16}, NEW v, NEW u, NEW c, NEW d,
         \A k \in 0 .. w - 2 : ValueBit(u, k) = ValueBit(v, k + 1),
         ValueBit(u, w - 1) = c, d = ValueBit(v, 0)
  PROVE  \A k \in Int : Through(u, d, w, k) = Through(v, c, w, k + 1)
<1> SUFFICES ASSUME NEW k \in Int PROVE Through(u, d, w, k) = Through(v, c, w, k + 1)
  OBVIOUS
<1>1. PICK j \in Int : j = k % (w + 1)
  OBVIOUS
<1>2. j \in 0 .. w /\ (k + 1) % (w + 1) = IF j = w THEN 0 ELSE j + 1
  <2>1. PICK m \in {8, 9, 16, 17} : m = w + 1
    OBVIOUS
  <2>2. k % m \in 0 .. m - 1 /\ (k + 1) % m = IF k % m = m - 1 THEN 0 ELSE (k % m) + 1
    BY NextPlace
  <2>3. m - 1 = w
    BY <2>1
  <2> QED
    BY <1>1, <2>1, <2>2, <2>3
<1>3. CASE j = w
  BY <1>1, <1>2, <1>3 DEF Through
<1>4. CASE j = w - 1
  BY <1>1, <1>2, <1>4 DEF Through
<1>5. CASE j # w /\ j # w - 1
  <2>1. j \in 0 .. w - 2
    BY <1>2, <1>5
  <2>2. ValueBit(u, j) = ValueBit(v, j + 1) /\ j + 1 # w
    BY <1>5, <2>1
  <2> QED
    BY <1>1, <1>2, <1>5, <2>2 DEF Through
<1> QED
  BY <1>3, <1>4, <1>5

LEMMA TapeBoolean ==
  ASSUME NEW ext, NEW w, NEW v, NEW c \in BOOLEAN, NEW k
  PROVE  Tape(ext, w, v, c, k) \in BOOLEAN
<1>1. \A j : ValueBit(v, j) \in BOOLEAN
  BY ValueBitIs
<1> QED
  BY <1>1, Zenon DEF Tape, Through

LEMMA OneLeft ==
  ASSUME NEW ext, ext \notin Rightward, NEW v \in Value, NEW wide \in BOOLEAN,
         NEW c \in BOOLEAN
  PROVE  LET x == ShiftBy1(ext, v, wide, c)
             w == Places(wide)
         IN  /\ \A k \in Int : k < w =>
                  Tape(ext, w, x.value, x.carry, k) = Tape(ext, w, v, c, k - 1)
             /\ x.carry = Tape(ext, w, v, c, w - 1)
             /\ x.overflow = (ValueBit(x.value, w - 1) # ValueBit(v, w - 1))
<1> DEFINE w == Places(wide)
           x == ShiftBy1(ext, v, wide, c)
<1>1. x = ShiftLeft(ext, v, wide, c)
  BY Zenon DEF ShiftBy1, Rightward
<1>2. /\ x.carry = ValueBit(v, w - 1)
      /\ ValueBit(x.value, 0) = ((ext = ROL /\ ValueBit(v, w - 1)) \/ (ext = RCL /\ c))
      /\ \A k \in 1 .. w - 1 : ValueBit(x.value, k) = ValueBit(v, k - 1)
      /\ x.overflow = (ValueBit(x.value, w - 1) # ValueBit(v, w - 1))
  <2>1. UpOne(ext, w, v, c, ShiftLeft(ext, v, wide, c))
    BY LeftBits
  <2> HIDE DEF w, x
  <2> QED
    BY <1>1, <2>1 DEF UpOne
<1>3. w \in {8, 16}
  BY DEF Places
<1>4. \A u, k : ValueBit(u, k) \in BOOLEAN
  BY ValueBitIs
<1> HIDE DEF w, x
<1>5. SUFFICES /\ \A k \in Int : k < w =>
                    Tape(ext, w, x.value, x.carry, k) = Tape(ext, w, v, c, k - 1)
               /\ x.carry = Tape(ext, w, v, c, w - 1)
  BY <1>2, Zenon DEF w, x
<1>6. CASE ext = ROL
  <2>1. \A u, d, k : Tape(ext, w, u, d, k) = ValueBit(u, k % w)
    <3>1. ext \in {ROL, ROR}
      BY <1>6
    <3> QED
      BY <3>1, PlainTape
  <2>2. ValueBit(x.value, 0) = ValueBit(v, w - 1)
    <3>1. ext # RCL
      BY <1>6 DEF ROL, RCL
    <3> QED
      BY <1>2, <1>4, <1>6, <3>1, Zenon
  <2>3. \A k \in Int : ValueBit(x.value, k % w) = ValueBit(v, (k - 1) % w)
    BY <1>2, <1>3, <2>2, TurnedLeft
  <2>4. ASSUME NEW k \in Int
        PROVE  Tape(ext, w, x.value, x.carry, k) = Tape(ext, w, v, c, k - 1)
    BY <2>1, <2>3
  <2>5. x.carry = Tape(ext, w, v, c, w - 1)
    <3>1. (w - 1) % w = w - 1
      BY <1>3
    <3> QED
      BY <1>2, <2>1, <3>1
  <2> QED
    BY <2>4, <2>5
<1>7. CASE ext = RCL
  <2>1. \A u, d, k : Tape(ext, w, u, d, k) = Through(u, d, w, k)
    <3>1. ext \in {RCL, RCR}
      BY <1>7
    <3> QED
      BY <3>1, CarryTape
  <2>2. ValueBit(x.value, 0) = c
    <3>1. ext # ROL
      BY <1>7 DEF ROL, RCL
    <3> QED
      BY <1>2, <1>7, <3>1, Zenon
  <2>3. \A k \in Int : Through(x.value, x.carry, w, k) = Through(v, c, w, k - 1)
    <3>1. PICK d : d = x.carry
      OBVIOUS
    <3>2. \A k \in Int : Through(x.value, d, w, k) = Through(v, c, w, k - 1)
      BY <1>2, <1>3, <2>2, <3>1, ThroughLeft
    <3> QED
      BY <3>1, <3>2
  <2>4. Through(v, c, w, w - 1) = ValueBit(v, w - 1)
    <3>1. (w - 1) % (w + 1) = w - 1 /\ w - 1 # w
      BY <1>3
    <3> QED
      BY <3>1, Zenon DEF Through
  <2>5. ASSUME NEW k \in Int
        PROVE  Tape(ext, w, x.value, x.carry, k) = Tape(ext, w, v, c, k - 1)
    BY <2>1, <2>3
  <2>6. x.carry = Tape(ext, w, v, c, w - 1)
    BY <1>2, <2>1, <2>4
  <2> QED
    BY <2>5, <2>6
<1>8. CASE ext # ROL /\ ext # RCL
  <2>1. \A u, d, k : Tape(ext, w, u, d, k) = (k >= 0 /\ k < w /\ ValueBit(u, k))
    <3>1. ext \notin {ROL, ROR, RCL, RCR, SAR}
      BY <1>8 DEF Rightward
    <3> QED
      BY <3>1, ZeroTape, Zenon
  <2>2. ~ValueBit(x.value, 0)
    BY <1>2, <1>8, Zenon
  <2>3. ASSUME NEW k \in Int, k < w
        PROVE  Tape(ext, w, x.value, x.carry, k) = Tape(ext, w, v, c, k - 1)
    <3>1. CASE k < 0
      <4>1. ~(k >= 0) /\ ~(k - 1 >= 0)
        BY <3>1
      <4> QED
        BY <2>1, <4>1, Zenon
    <3>2. CASE k = 0
      <4>1. k >= 0 /\ ~(k - 1 >= 0) /\ ~ValueBit(x.value, k)
        BY <2>2, <3>2
      <4> QED
        BY <2>1, <4>1, Zenon
    <3>3. CASE k > 0
      <4>1. k >= 0 /\ k - 1 >= 0 /\ k - 1 < w /\ k \in 1 .. w - 1
        BY <1>3, <2>3, <3>3
      <4>2. ValueBit(x.value, k) = ValueBit(v, k - 1)
        BY <1>2, <4>1
      <4>3. /\ Tape(ext, w, x.value, x.carry, k) = ValueBit(x.value, k)
            /\ Tape(ext, w, v, c, k - 1) = ValueBit(v, k - 1)
        BY <1>4, <2>1, <2>3, <4>1, Zenon
      <4> QED
        BY <4>2, <4>3
    <3> QED
      BY <3>1, <3>2, <3>3
  <2>4. Tape(ext, w, v, c, w - 1) = ValueBit(v, w - 1)
    <3>1. w - 1 >= 0 /\ w - 1 < w
      BY <1>3
    <3> QED
      BY <1>4, <2>1, <3>1, Zenon
  <2> QED
    BY <1>2, <2>3, <2>4
<1> QED
  BY <1>6, <1>7, <1>8

LEMMA OneRight ==
  ASSUME NEW ext \in Rightward, NEW v \in Value, NEW wide \in BOOLEAN, NEW c \in BOOLEAN
  PROVE  LET x == ShiftBy1(ext, v, wide, c)
             w == Places(wide)
         IN  /\ \A k \in Nat :
                  Tape(ext, w, x.value, x.carry, k) = Tape(ext, w, v, c, k + 1)
             /\ x.carry = Tape(ext, w, v, c, 0)
             /\ x.overflow = (ValueBit(x.value, w - 1) # ValueBit(v, w - 1))
<1> DEFINE w == Places(wide)
           x == ShiftBy1(ext, v, wide, c)
<1>1. x = ShiftRight(ext, v, wide, c)
  BY Zenon DEF ShiftBy1, Rightward
<1>2. /\ x.carry = ValueBit(v, 0)
      /\ ValueBit(x.value, w - 1) = (\/ ext = ROR /\ ValueBit(v, 0)
                                     \/ ext = RCR /\ c
                                     \/ ext = SAR /\ ValueBit(v, w - 1))
      /\ \A k \in 0 .. w - 2 : ValueBit(x.value, k) = ValueBit(v, k + 1)
      /\ x.overflow = (ValueBit(x.value, w - 1) # ValueBit(v, w - 1))
  <2>1. DownOne(ext, w, v, c, ShiftRight(ext, v, wide, c))
    BY RightBits DEF Rightward
  <2> HIDE DEF w, x
  <2> QED
    BY <1>1, <2>1 DEF DownOne
<1>3. w \in {8, 16}
  BY DEF Places
<1>4. \A u, k : ValueBit(u, k) \in BOOLEAN
  BY ValueBitIs
<1> HIDE DEF w, x
<1>5. SUFFICES /\ \A k \in Nat :
                    Tape(ext, w, x.value, x.carry, k) = Tape(ext, w, v, c, k + 1)
               /\ x.carry = Tape(ext, w, v, c, 0)
  BY <1>2, Zenon DEF w, x
<1>6. CASE ext = ROR
  <2>1. \A u, d, k : Tape(ext, w, u, d, k) = ValueBit(u, k % w)
    <3>1. ext \in {ROL, ROR}
      BY <1>6
    <3> QED
      BY <3>1, PlainTape
  <2>2. ValueBit(x.value, w - 1) = ValueBit(v, 0)
    <3>1. ext # RCR /\ ext # SAR
      BY <1>6 DEF ROR, RCR, SAR
    <3> QED
      BY <1>2, <1>4, <1>6, <3>1, Zenon
  <2>3. \A k \in Int : ValueBit(x.value, k % w) = ValueBit(v, (k + 1) % w)
    BY <1>2, <1>3, <2>2, TurnedRight
  <2>4. ASSUME NEW k \in Nat
        PROVE  Tape(ext, w, x.value, x.carry, k) = Tape(ext, w, v, c, k + 1)
    BY <2>1, <2>3
  <2>5. x.carry = Tape(ext, w, v, c, 0)
    <3>1. 0 % w = 0
      BY <1>3
    <3> QED
      BY <1>2, <2>1, <3>1
  <2> QED
    BY <2>4, <2>5
<1>7. CASE ext = RCR
  <2>1. \A u, d, k : Tape(ext, w, u, d, k) = Through(u, d, w, k)
    <3>1. ext \in {RCL, RCR}
      BY <1>7
    <3> QED
      BY <3>1, CarryTape
  <2>2. ValueBit(x.value, w - 1) = c
    <3>1. ext # ROR /\ ext # SAR
      BY <1>7 DEF ROR, RCR, SAR
    <3> QED
      BY <1>2, <1>7, <3>1, Zenon
  <2>3. \A k \in Int : Through(x.value, x.carry, w, k) = Through(v, c, w, k + 1)
    <3>1. PICK d : d = x.carry
      OBVIOUS
    <3>2. \A k \in Int : Through(x.value, d, w, k) = Through(v, c, w, k + 1)
      BY <1>2, <1>3, <2>2, <3>1, ThroughRight
    <3> QED
      BY <3>1, <3>2
  <2>4. Through(v, c, w, 0) = ValueBit(v, 0)
    <3>1. 0 % (w + 1) = 0 /\ 0 # w
      BY <1>3
    <3> QED
      BY <3>1, Zenon DEF Through
  <2>5. ASSUME NEW k \in Nat
        PROVE  Tape(ext, w, x.value, x.carry, k) = Tape(ext, w, v, c, k + 1)
    BY <2>1, <2>3
  <2>6. x.carry = Tape(ext, w, v, c, 0)
    BY <1>2, <2>1, <2>4
  <2> QED
    BY <2>5, <2>6
<1>8. CASE ext = SAR
  <2>1. \A u, d, k : Tape(ext, w, u, d, k) = ValueBit(u, IF k < w THEN k ELSE w - 1)
    BY <1>8, SignTape, Zenon
  <2>2. ValueBit(x.value, w - 1) = ValueBit(v, w - 1)
    <3>1. ext # ROR /\ ext # RCR
      BY <1>8 DEF ROR, RCR, SAR
    <3> QED
      BY <1>2, <1>4, <1>8, <3>1, Zenon
  <2>3. ASSUME NEW k \in Nat
        PROVE  Tape(ext, w, x.value, x.carry, k) = Tape(ext, w, v, c, k + 1)
    <3>1. CASE k \in 0 .. w - 2
      <4>1. k < w /\ k + 1 < w
        BY <1>3, <3>1
      <4>2. ValueBit(x.value, k) = ValueBit(v, k + 1)
        BY <1>2, <3>1
      <4> QED
        BY <2>1, <4>1, <4>2
    <3>2. CASE k >= w - 1
      <4>1. ~(k + 1 < w) /\ (k < w => k = w - 1)
        BY <1>3, <3>2
      <4> QED
        BY <2>1, <2>2, <4>1
    <3> QED
      BY <1>3, <3>1, <3>2
  <2>4. x.carry = Tape(ext, w, v, c, 0)
    <3>1. 0 < w
      BY <1>3
    <3> QED
      BY <1>2, <2>1, <3>1
  <2> QED
    BY <2>3, <2>4
<1>9. CASE ext = SHR
  <2>1. \A u, d, k : Tape(ext, w, u, d, k) = (k >= 0 /\ k < w /\ ValueBit(u, k))
    <3>1. ext \notin {ROL, ROR, RCL, RCR, SAR}
      BY <1>9 DEF ROL, ROR, RCL, RCR, SHR, SAR
    <3> QED
      BY <3>1, ZeroTape, Zenon
  <2>2. ~ValueBit(x.value, w - 1)
    <3>1. ext # ROR /\ ext # RCR /\ ext # SAR
      BY <1>9 DEF ROR, RCR, SHR, SAR
    <3> QED
      BY <1>2, <3>1, Zenon
  <2>3. ASSUME NEW k \in Nat
        PROVE  Tape(ext, w, x.value, x.carry, k) = Tape(ext, w, v, c, k + 1)
    <3>1. CASE k \in 0 .. w - 2
      <4>1. k >= 0 /\ k < w /\ k + 1 >= 0 /\ k + 1 < w
        BY <1>3, <3>1
      <4>2. ValueBit(x.value, k) = ValueBit(v, k + 1)
        BY <1>2, <3>1
      <4> QED
        BY <1>4, <2>1, <4>1, <4>2, Zenon
    <3>2. CASE k = w - 1
      <4>1. ~(k + 1 < w) /\ ~ValueBit(x.value, k)
        BY <1>3, <2>2, <3>2
      <4> QED
        BY <2>1, <4>1, Zenon
    <3>3. CASE k >= w
      <4>1. ~(k + 1 < w) /\ ~(k < w)
        BY <1>3, <3>3
      <4> QED
        BY <2>1, <4>1, Zenon
    <3> QED
      BY <1>3, <3>1, <3>2, <3>3
  <2>4. x.carry = Tape(ext, w, v, c, 0)
    <3>1. 0 >= 0 /\ 0 < w
      BY <1>3
    <3> QED
      BY <1>2, <1>4, <2>1, <3>1, Zenon
  <2> QED
    BY <2>3, <2>4
<1> QED
  BY <1>6, <1>7, <1>8, <1>9 DEF Rightward

(***************************************************************************)
(* n rounds move the tape by n places; the last bit to leave is the carry. *)
(***************************************************************************)
TapeOf(ext, w, s, k) == Tape(ext, w, s.value, s.carry, k)
Top(w, s) == ValueBit(s.value, w - 1)

Moved(ext, w, s, t, n) ==
  /\ n = 0 => t = s
  /\ ext \in Rightward =>
       /\ \A k \in Nat : TapeOf(ext, w, t, k) = TapeOf(ext, w, s, k + n)
       /\ n > 0 => t.carry = TapeOf(ext, w, s, n - 1)
  /\ ext \notin Rightward =>
       /\ \A k \in Int : k < w => TapeOf(ext, w, t, k) = TapeOf(ext, w, s, k - n)
       /\ n > 0 => t.carry = TapeOf(ext, w, s, w - n)
  /\ n = 1 => t.overflow = (Top(w, t) # Top(w, s))

LEMMA MovedOn ==
  ASSUME NEW ext, NEW w \in {8, 16}, NEW s, NEW t, NEW u, NEW n \in Nat, NEW m \in Nat,
         Moved(ext, w, s, t, n), Moved(ext, w, t, u, m)
  PROVE  Moved(ext, w, s, u, n + m)
<1>1. CASE n = 0
  <2>1. t = s /\ n + m = m
    BY <1>1 DEF Moved
  <2> QED
    BY <2>1
<1>2. CASE m = 0
  <2>1. u = t /\ n + m = n
    BY <1>2 DEF Moved
  <2> QED
    BY <2>1
<1>3. CASE n > 0 /\ m > 0
  <2>1. n + m # 0 /\ n + m # 1 /\ n + m > 0 /\ n + m \in Nat
    BY <1>3
  <2>2. CASE ext \in Rightward
    <3>1. /\ \A k \in Nat : TapeOf(ext, w, t, k) = TapeOf(ext, w, s, k + n)
          /\ \A k \in Nat : TapeOf(ext, w, u, k) = TapeOf(ext, w, t, k + m)
          /\ u.carry = TapeOf(ext, w, t, m - 1)
      BY <1>3, <2>2 DEF Moved
    <3>2. ASSUME NEW k \in Nat
          PROVE  TapeOf(ext, w, u, k) = TapeOf(ext, w, s, k + (n + m))
      <4>1. k + m \in Nat /\ (k + m) + n = k + (n + m)
        OBVIOUS
      <4> QED
        BY <3>1, <4>1
    <3>3. u.carry = TapeOf(ext, w, s, (n + m) - 1)
      <4>1. m - 1 \in Nat /\ (m - 1) + n = (n + m) - 1
        BY <1>3
      <4> QED
        BY <3>1, <4>1
    <3> QED
      BY <2>1, <2>2, <3>2, <3>3 DEF Moved
  <2>3. CASE ext \notin Rightward
    <3>1. /\ \A k \in Int : k < w => TapeOf(ext, w, t, k) = TapeOf(ext, w, s, k - n)
          /\ \A k \in Int : k < w => TapeOf(ext, w, u, k) = TapeOf(ext, w, t, k - m)
          /\ u.carry = TapeOf(ext, w, t, w - m)
      BY <1>3, <2>3 DEF Moved
    <3>2. ASSUME NEW k \in Int, k < w
          PROVE  TapeOf(ext, w, u, k) = TapeOf(ext, w, s, k - (n + m))
      <4>1. k - m \in Int /\ k - m < w /\ (k - m) - n = k - (n + m)
        BY <3>2
      <4> QED
        BY <3>1, <3>2, <4>1
    <3>3. u.carry = TapeOf(ext, w, s, w - (n + m))
      <4>1. w - m \in Int /\ w - m < w /\ (w - m) - n = w - (n + m)
        BY <1>3
      <4> QED
        BY <3>1, <4>1
    <3> QED
      BY <2>1, <2>3, <3>2, <3>3 DEF Moved
  <2> QED
    BY <2>2, <2>3
<1> QED
  BY <1>1, <1>2, <1>3

LEMMA MovedOnce ==
  ASSUME NEW ext, NEW wide \in BOOLEAN, NEW s \in ShiftState, NEW t,
         LET x == ShiftBy1(ext, s.value, wide, s.carry)
         IN  t.value = x.value /\ t.carry = x.carry /\ t.overflow = x.overflow
  PROVE  Moved(ext, Places(wide), s, t, 1)
<1> DEFINE w == Places(wide)
           x == ShiftBy1(ext, s.value, wide, s.carry)
<1>1. s.value \in Value /\ s.carry \in BOOLEAN
  BY DEF ShiftState
<1>2. t.value = x.value /\ t.carry = x.carry /\ t.overflow = x.overflow
  OBVIOUS
<1>3. 1 > 0 /\ 1 # 0 /\ 1 - 1 = 0
  OBVIOUS
<1>4. CASE ext \in Rightward
  <2>1. /\ \A k \in Nat : Tape(ext, w, x.value, x.carry, k) = Tape(ext, w, s.value, s.carry, k + 1)
        /\ x.carry = Tape(ext, w, s.value, s.carry, 0)
        /\ x.overflow = (ValueBit(x.value, w - 1) # ValueBit(s.value, w - 1))
    BY <1>1, <1>4, OneRight
  <2> HIDE DEF w, x
  <2>2. Moved(ext, w, s, t, 1)
    BY <1>2, <1>3, <1>4, <2>1 DEF Moved, TapeOf, Top
  <2> QED
    BY <2>2 DEF w
<1>5. CASE ext \notin Rightward
  <2>1. /\ \A k \in Int : k < w =>
             Tape(ext, w, x.value, x.carry, k) = Tape(ext, w, s.value, s.carry, k - 1)
        /\ x.carry = Tape(ext, w, s.value, s.carry, w - 1)
        /\ x.overflow = (ValueBit(x.value, w - 1) # ValueBit(s.value, w - 1))
    BY <1>1, <1>5, OneLeft
  <2> HIDE DEF w, x
  <2>2. Moved(ext, w, s, t, 1)
    BY <1>2, <1>3, <1>5, <2>1 DEF Moved, TapeOf, Top
  <2> QED
    BY <2>2 DEF w
<1> QED
  BY <1>4, <1>5

\* The rounds of a function on ShiftState: m of them, as far as there are any.
Rounds(s, m) == IF s.count < m THEN s.count ELSE m
MovesAll(ext, w, f, m) ==
  \A s \in ShiftState : /\ f[s].count = s.count - Rounds(s, m)
                        /\ Moved(ext, w, s, f[s], Rounds(s, m))

LEMMA RoundMoves ==
  ASSUME NEW ext, NEW wide \in BOOLEAN, NEW cf
  PROVE  MovesAll(ext, Places(wide), ShiftRound(ext, wide, cf), 1)
<1> DEFINE w == Places(wide)
           f == ShiftRound(ext, wide, cf)
<1> SUFFICES ASSUME NEW s \in ShiftState
             PROVE  f[s].count = s.count - Rounds(s, 1) /\ Moved(ext, w, s, f[s], Rounds(s, 1))
  BY DEF MovesAll
<1>1. s.count \in Nat
  BY DEF ShiftState, Byte
<1>2. CASE s.count = 0
  <2>1. f[s] = s /\ Rounds(s, 1) = 0
    BY <1>2 DEF ShiftRound, Rounds
  <2>2. Moved(ext, w, s, s, 0)
    <3>1. \A k \in Int : k + 0 = k /\ k - 0 = k
      OBVIOUS
    <3> QED
      BY <3>1 DEF Moved
  <2> QED
    BY <1>1, <2>1, <2>2
<1>3. CASE s.count # 0
  <2>1. Rounds(s, 1) = 1
    BY <1>1, <1>3 DEF Rounds
  <2> DEFINE x == ShiftBy1(ext, s.value, wide, s.carry)
  <2>2. f[s] = [value |-> x.value, carry |-> x.carry, overflow |-> x.overflow,
                count |-> s.count - 1]
    BY <1>3 DEF ShiftRound
  <2>3. /\ f[s].value = x.value /\ f[s].carry = x.carry /\ f[s].overflow = x.overflow
        /\ f[s].count = s.count - 1
    BY <2>2
  <2>4. Moved(ext, Places(wide), s, f[s], 1)
    BY <2>3, MovedOnce
  <2> QED
    BY <2>1, <2>3, <2>4
<1> QED
  BY <1>2, <1>3

LEMMA TwiceMoves ==
  ASSUME NEW ext, NEW w \in {8, 16}, NEW f \in [ShiftState -> ShiftState], NEW m \in Nat,
         MovesAll(ext, w, f, m)
  PROVE  MovesAll(ext, w, Twice(f), 2 * m)
<1> SUFFICES ASSUME NEW s \in ShiftState
             PROVE  /\ Twice(f)[s].count = s.count - Rounds(s, 2 * m)
                    /\ Moved(ext, w, s, Twice(f)[s], Rounds(s, 2 * m))
  BY DEF MovesAll
<1>1. Twice(f)[s] = f[f[s]] /\ f[s] \in ShiftState
  BY DEF Twice
<1>2. s.count \in Nat /\ f[s].count \in Nat
  BY <1>1 DEF ShiftState, Byte
<1>3. PICK t \in ShiftState, n \in Int, k \in Int : t = f[s] /\ n = Rounds(s, m) /\ k = Rounds(t, m)
  BY <1>1, <1>2 DEF Rounds
<1>4. /\ t.count = s.count - n /\ Moved(ext, w, s, t, n)
      /\ f[t].count = t.count - k /\ Moved(ext, w, t, f[t], k)
  BY <1>3 DEF MovesAll
<1>5. n \in Nat /\ k \in Nat /\ n + k = Rounds(s, 2 * m)
  BY <1>2, <1>3, <1>4 DEF Rounds
<1>6. Moved(ext, w, s, f[t], n + k)
  BY <1>4, <1>5, MovedOn
<1> QED
  BY <1>1, <1>2, <1>3, <1>4, <1>5, <1>6

LEMMA SixteenMoves ==
  ASSUME NEW ext, NEW w \in {8, 16}, NEW f \in [ShiftState -> ShiftState], NEW m \in Nat,
         MovesAll(ext, w, f, m)
  PROVE  MovesAll(ext, w, Sixteen(f), 16 * m)
<1>1. /\ Twice(f) \in [ShiftState -> ShiftState]
      /\ MovesAll(ext, w, Twice(f), 2 * m)
  BY TwiceType, TwiceMoves
<1>2. /\ Twice(Twice(f)) \in [ShiftState -> ShiftState]
      /\ MovesAll(ext, w, Twice(Twice(f)), 4 * m)
  <2>1. 2 * m \in Nat /\ 2 * (2 * m) = 4 * m
    OBVIOUS
  <2>2. MovesAll(ext, w, Twice(Twice(f)), 2 * (2 * m))
    BY <1>1, <2>1, TwiceMoves
  <2> QED
    BY <1>1, <2>1, <2>2, TwiceType
<1>3. /\ Eight(f) \in [ShiftState -> ShiftState]
      /\ MovesAll(ext, w, Eight(f), 8 * m)
  <2>1. 4 * m \in Nat /\ 2 * (4 * m) = 8 * m
    OBVIOUS
  <2>2. MovesAll(ext, w, Twice(Twice(Twice(f))), 2 * (4 * m))
    BY <1>2, <2>1, TwiceMoves
  <2> QED
    BY <1>2, <2>1, <2>2, TwiceType DEF Eight
<1>4. 8 * m \in Nat /\ 2 * (8 * m) = 16 * m
  OBVIOUS
<1>5. MovesAll(ext, w, Twice(Eight(f)), 2 * (8 * m))
  BY <1>3, <1>4, TwiceMoves
<1> QED
  BY <1>4, <1>5 DEF Sixteen

LEMMA ShiftMoves ==
  ASSUME NEW ext, NEW v \in Value, NEW wide \in BOOLEAN, NEW count \in Byte, count > 0,
         NEW cf \in BOOLEAN
  PROVE  LET x == Shift(ext, v, wide, count, cf)
             w == Places(wide)
         IN  /\ ext \in Rightward =>
                  /\ \A k \in Nat : Tape(ext, w, x.value, x.carry, k) = Tape(ext, w, v, cf, k + count)
                  /\ x.carry = Tape(ext, w, v, cf, count - 1)
             /\ ext \notin Rightward =>
                  /\ \A k \in Int : k < w =>
                       Tape(ext, w, x.value, x.carry, k) = Tape(ext, w, v, cf, k - count)
                  /\ x.carry = Tape(ext, w, v, cf, w - count)
             /\ count = 1 => x.overflow = (ValueBit(x.value, w - 1) # ValueBit(v, w - 1))
<1> DEFINE w     == Places(wide)
           f     == ShiftRound(ext, wide, cf)
           g     == Sixteen(Sixteen(f))
           start == [value |-> v, carry |-> cf, overflow |-> FALSE, count |-> count]
           last  == g[start]
           x     == Shift(ext, v, wide, count, cf)
<1>1. start \in ShiftState /\ start.count = count /\ start.value = v /\ start.carry = cf
  BY DEF ShiftState
<1>2. w \in {8, 16}
  BY DEF Places
<1>3. f \in [ShiftState -> ShiftState] /\ MovesAll(ext, w, f, 1)
  BY ShiftRoundType, RoundMoves
<1>4. Shift(ext, v, wide, count, cf) = [last EXCEPT !.overflow = count = 1 /\ @]
  BY Zenon DEF Shift
<1>5. Sixteen(f) \in [ShiftState -> ShiftState] /\ g \in [ShiftState -> ShiftState]
  BY <1>3, RoundsType
<1> HIDE DEF f, w
<1>6. MovesAll(ext, w, Sixteen(f), 16)
  <2>1. 1 \in Nat /\ 16 * 1 = 16
    OBVIOUS
  <2>2. MovesAll(ext, w, Sixteen(f), 16 * 1)
    BY <1>2, <1>3, <2>1, SixteenMoves
  <2> QED
    BY <2>1, <2>2
<1>7. MovesAll(ext, w, g, 256)
  <2>1. 16 \in Nat /\ 16 * 16 = 256
    OBVIOUS
  <2>2. MovesAll(ext, w, g, 16 * 16)
    BY <1>2, <1>5, <1>6, <2>1, SixteenMoves
  <2> QED
    BY <2>1, <2>2
<1>8. last \in ShiftState
  BY <1>1, <1>5
<1> HIDE DEF g, start
<1>9. Moved(ext, w, start, last, count)
  <2>1. Rounds(start, 256) = count
    BY <1>1 DEF Rounds, Byte
  <2> QED
    BY <1>1, <1>7, <2>1 DEF MovesAll
<1> HIDE DEF last
<1>10. /\ x.value = last.value /\ x.carry = last.carry
       /\ count = 1 => x.overflow = last.overflow
  <2>1. PICK o \in BOOLEAN : o = (count = 1 /\ last.overflow)
    OBVIOUS
  <2>2. last.overflow \in BOOLEAN
    BY <1>8 DEF ShiftState
  <2>3. x = [last EXCEPT !.overflow = o]
    BY <1>4, <2>1, Zenon
  <2>4. x.value = last.value /\ x.carry = last.carry /\ x.overflow = o
    <3> HIDE DEF x
    <3> QED
      BY <1>8, <2>3 DEF ShiftState
  <2>5. count = 1 => o = last.overflow
    BY <2>1, <2>2, Zenon
  <2> HIDE DEF x
  <2> QED
    BY <2>4, <2>5
<1> HIDE DEF x
<1>11. /\ ext \in Rightward =>
            /\ \A k \in Nat : Tape(ext, w, x.value, x.carry, k) = Tape(ext, w, v, cf, k + count)
            /\ x.carry = Tape(ext, w, v, cf, count - 1)
       /\ ext \notin Rightward =>
            /\ \A k \in Int : k < w =>
                 Tape(ext, w, x.value, x.carry, k) = Tape(ext, w, v, cf, k - count)
            /\ x.carry = Tape(ext, w, v, cf, w - count)
       /\ count = 1 => x.overflow = (ValueBit(x.value, w - 1) # ValueBit(v, w - 1))
  BY <1>1, <1>9, <1>10 DEF Moved, TapeOf, Top
<1> QED
  BY <1>11 DEF w, x

(***************************************************************************)
(* What ShiftsRight says of a bit and of the carry, and that it is what is *)
(* on the tape.                                                            *)
(***************************************************************************)
NewBit(op, w, v, c, n, k) ==
  CASE op = 0        -> ValueBit(v, (k - n) % w)
    [] op = 1        -> ValueBit(v, (k + n) % w)
    [] op = 2        -> Through(v, c, w, k - n)
    [] op = 3        -> Through(v, c, w, k + n)
    [] op \in {4, 6} -> k >= n /\ ValueBit(v, k - n)
    [] op = 5        -> k + n < w /\ ValueBit(v, k + n)
    [] op = 7        -> ValueBit(v, IF k + n < w THEN k + n ELSE w - 1)

OutBit(op, w, v, c, n) ==
  CASE op = 0        -> NewBit(op, w, v, c, n, 0)
    [] op = 1        -> NewBit(op, w, v, c, n, w - 1)
    [] op = 2        -> Through(v, c, w, w - n)
    [] op = 3        -> Through(v, c, w, w + n)
    [] op \in {4, 6} -> n <= w /\ ValueBit(v, w - n)
    [] op = 5        -> n <= w /\ ValueBit(v, n - 1)
    [] op = 7        -> ValueBit(v, IF n <= w THEN n - 1 ELSE w - 1)

\* SHL, and its other code.
Shl == {4, 6}

\* Case by case.
LEMMA RolBits ==
  ASSUME NEW w \in {8, 16}, NEW v, NEW c, NEW n \in Nat
  PROVE  /\ \A k \in Int : NewBit(ROL, w, v, c, n, k) = ValueBit(v, (k - n) % w)
         /\ OutBit(ROL, w, v, c, n) = NewBit(ROL, w, v, c, n, 0)
<1>1. /\ ROL = 0 /\ ROL # 1 /\ ROL # 2 /\ ROL # 3
      /\ ROL \notin {4, 6} /\ ROL # 5 /\ ROL # 7
  BY DEF ROL
<1> QED
  BY <1>1, Zenon DEF NewBit, OutBit

LEMMA RorBits ==
  ASSUME NEW w \in {8, 16}, NEW v, NEW c, NEW n \in Nat
  PROVE  /\ \A k \in Int : NewBit(ROR, w, v, c, n, k) = ValueBit(v, (k + n) % w)
         /\ OutBit(ROR, w, v, c, n) = NewBit(ROR, w, v, c, n, w - 1)
<1>1. /\ ROR = 1 /\ ROR # 0 /\ ROR # 2 /\ ROR # 3
      /\ ROR \notin {4, 6} /\ ROR # 5 /\ ROR # 7
  BY DEF ROR
<1> QED
  BY <1>1, Zenon DEF NewBit, OutBit

LEMMA RclBits ==
  ASSUME NEW w \in {8, 16}, NEW v, NEW c, NEW n \in Nat
  PROVE  /\ \A k \in Int : NewBit(RCL, w, v, c, n, k) = Through(v, c, w, k - n)
         /\ OutBit(RCL, w, v, c, n) = Through(v, c, w, w - n)
<1>1. /\ RCL = 2 /\ RCL # 0 /\ RCL # 1 /\ RCL # 3
      /\ RCL \notin {4, 6} /\ RCL # 5 /\ RCL # 7
  BY DEF RCL
<1> QED
  BY <1>1, Zenon DEF NewBit, OutBit

LEMMA RcrBits ==
  ASSUME NEW w \in {8, 16}, NEW v, NEW c, NEW n \in Nat
  PROVE  /\ \A k \in Int : NewBit(RCR, w, v, c, n, k) = Through(v, c, w, k + n)
         /\ OutBit(RCR, w, v, c, n) = Through(v, c, w, w + n)
<1>1. /\ RCR = 3 /\ RCR # 0 /\ RCR # 1 /\ RCR # 2
      /\ RCR \notin {4, 6} /\ RCR # 5 /\ RCR # 7
  BY DEF RCR
<1> QED
  BY <1>1, Zenon DEF NewBit, OutBit

LEMMA ShlBits ==
  ASSUME NEW op \in Shl, NEW w \in {8, 16}, NEW v, NEW c, NEW n \in Nat
  PROVE  /\ \A k \in Int : NewBit(op, w, v, c, n, k) = (k >= n /\ ValueBit(v, k - n))
         /\ OutBit(op, w, v, c, n) = (n <= w /\ ValueBit(v, w - n))
<1>1. op \in {4, 6} /\ op # 0 /\ op # 1 /\ op # 2 /\ op # 3 /\ op # 5 /\ op # 7
  BY DEF Shl
<1> QED
  BY <1>1, Zenon DEF NewBit, OutBit

LEMMA ShrBits ==
  ASSUME NEW w \in {8, 16}, NEW v, NEW c, NEW n \in Nat
  PROVE  /\ \A k \in Int : NewBit(SHR, w, v, c, n, k) = (k + n < w /\ ValueBit(v, k + n))
         /\ OutBit(SHR, w, v, c, n) = (n <= w /\ ValueBit(v, n - 1))
<1>1. /\ SHR = 5 /\ SHR # 0 /\ SHR # 1 /\ SHR # 2
      /\ SHR # 3 /\ SHR \notin {4, 6} /\ SHR # 7
  BY DEF SHR
<1> QED
  BY <1>1, Zenon DEF NewBit, OutBit

LEMMA SarBits ==
  ASSUME NEW w \in {8, 16}, NEW v, NEW c, NEW n \in Nat
  PROVE  /\ \A k \in Int : NewBit(SAR, w, v, c, n, k) = ValueBit(v, IF k + n < w THEN k + n ELSE w - 1)
         /\ OutBit(SAR, w, v, c, n) = ValueBit(v, IF n <= w THEN n - 1 ELSE w - 1)
<1>1. /\ SAR = 7 /\ SAR # 0 /\ SAR # 1 /\ SAR # 2
      /\ SAR # 3 /\ SAR \notin {4, 6} /\ SAR # 5
  BY DEF SAR
<1> QED
  BY <1>1, Zenon DEF NewBit, OutBit

LEMMA InsideTape ==
  ASSUME NEW ext, NEW w \in {8, 16}, NEW v, NEW c, NEW k \in 0 .. w - 1
  PROVE  Tape(ext, w, v, c, k) = ValueBit(v, k)
<1>1. k % w = k /\ k % (w + 1) = k /\ k # w /\ k >= 0 /\ k < w
  OBVIOUS
<1>2. CASE ext \in {ROL, ROR}
  BY <1>1, <1>2, PlainTape
<1>3. CASE ext \in {RCL, RCR}
  <2>1. Through(v, c, w, k) = ValueBit(v, k)
    BY <1>1, Zenon DEF Through
  <2> QED
    BY <1>3, <2>1, CarryTape
<1>4. CASE ext = SAR
  BY <1>1, <1>4, SignTape
<1>5. CASE ext \notin {ROL, ROR, RCL, RCR, SAR}
  <2>1. Tape(ext, w, v, c, k) = (k >= 0 /\ k < w /\ ValueBit(v, k))
    BY <1>5, ZeroTape
  <2>2. ValueBit(v, k) \in BOOLEAN
    BY ValueBitIs
  <2> QED
    BY <1>1, <2>1, <2>2, Zenon
<1> QED
  BY <1>2, <1>3, <1>4, <1>5

LEMMA Remainders ==
  ASSUME NEW w \in {8, 16}, NEW n \in Int
  PROVE  /\ (0 - n) % w = (w - n) % w
         /\ ((w - 1) + n) % w = (n - 1) % w
         /\ (w + n) % (w + 1) = (n - 1) % (w + 1)
<1>1. CASE w = 8
  BY <1>1
<1>2. CASE w = 16
  BY <1>2
<1> QED
  BY <1>1, <1>2

LEMMA BitsOnTape ==
  ASSUME NEW op, op \in {ROL, ROR, RCL, RCR, SHR, SAR} \cup Shl,
         NEW w \in {8, 16}, NEW v, NEW c \in BOOLEAN, NEW n \in Nat, n > 0
  PROVE  /\ op \in Rightward =>
              /\ \A k \in 0 .. w - 1 : NewBit(op, w, v, c, n, k) = Tape(op, w, v, c, k + n)
              /\ OutBit(op, w, v, c, n) = Tape(op, w, v, c, n - 1)
         /\ op \notin Rightward =>
              /\ \A k \in 0 .. w - 1 : NewBit(op, w, v, c, n, k) = Tape(op, w, v, c, k - n)
              /\ OutBit(op, w, v, c, n) = Tape(op, w, v, c, w - n)
<1>1. \A k : ValueBit(v, k) \in BOOLEAN
  BY ValueBitIs
<1>2. CASE op = ROL
  <2>1. op \in {ROL, ROR} /\ op \notin Rightward
    BY <1>2 DEF ROL, ROR, RCR, SHR, SAR, Rightward
  <2>2. \A k : Tape(op, w, v, c, k) = ValueBit(v, k % w)
    BY <2>1, PlainTape
  <2>3. \A k \in Int : NewBit(op, w, v, c, n, k) = ValueBit(v, (k - n) % w)
    BY <1>2, RolBits, ZenonT(60)
  <2>4. OutBit(op, w, v, c, n) = NewBit(op, w, v, c, n, 0)
    BY <1>2, RolBits
  <2>5. OutBit(op, w, v, c, n) = Tape(op, w, v, c, w - n)
    <3>1. (0 - n) % w = (w - n) % w
      BY Remainders
    <3>2. NewBit(op, w, v, c, n, 0) = ValueBit(v, (0 - n) % w)
      BY <2>3
    <3> QED
      BY <2>2, <2>4, <3>1, <3>2
  <2>6. ASSUME NEW k \in 0 .. w - 1
        PROVE  NewBit(op, w, v, c, n, k) = Tape(op, w, v, c, k - n)
    BY <2>2, <2>3
  <2> QED
    BY <2>1, <2>5, <2>6
<1>3. CASE op = ROR
  <2>1. op \in {ROL, ROR} /\ op \in Rightward
    BY <1>3 DEF ROL, ROR, RCR, SHR, SAR, Rightward
  <2>2. \A k : Tape(op, w, v, c, k) = ValueBit(v, k % w)
    BY <2>1, PlainTape
  <2>3. \A k \in Int : NewBit(op, w, v, c, n, k) = ValueBit(v, (k + n) % w)
    BY <1>3, RorBits, ZenonT(60)
  <2>4. OutBit(op, w, v, c, n) = NewBit(op, w, v, c, n, w - 1)
    BY <1>3, RorBits
  <2>5. OutBit(op, w, v, c, n) = Tape(op, w, v, c, n - 1)
    <3>1. ((w - 1) + n) % w = (n - 1) % w
      BY Remainders
    <3>2. NewBit(op, w, v, c, n, w - 1) = ValueBit(v, ((w - 1) + n) % w)
      BY <2>3
    <3> QED
      BY <2>2, <2>4, <3>1, <3>2
  <2>6. ASSUME NEW k \in 0 .. w - 1
        PROVE  NewBit(op, w, v, c, n, k) = Tape(op, w, v, c, k + n)
    BY <2>2, <2>3
  <2> QED
    BY <2>1, <2>5, <2>6
<1>4. CASE op = RCL
  <2>1. op \in {RCL, RCR} /\ op \notin Rightward
    BY <1>4 DEF ROR, RCL, RCR, SHR, SAR, Rightward
  <2>2. \A k : Tape(op, w, v, c, k) = Through(v, c, w, k)
    BY <2>1, CarryTape
  <2>3. \A k \in Int : NewBit(op, w, v, c, n, k) = Through(v, c, w, k - n)
    BY <1>4, RclBits, ZenonT(60)
  <2>4. OutBit(op, w, v, c, n) = Through(v, c, w, w - n)
    BY <1>4, RclBits
  <2> QED
    BY <2>1, <2>2, <2>3, <2>4
<1>5. CASE op = RCR
  <2>1. op \in {RCL, RCR} /\ op \in Rightward
    BY <1>5 DEF ROR, RCL, RCR, SHR, SAR, Rightward
  <2>2. \A k : Tape(op, w, v, c, k) = Through(v, c, w, k)
    BY <2>1, CarryTape
  <2>3. \A k \in Int : NewBit(op, w, v, c, n, k) = Through(v, c, w, k + n)
    BY <1>5, RcrBits, ZenonT(60)
  <2>4. OutBit(op, w, v, c, n) = Through(v, c, w, w + n)
    BY <1>5, RcrBits
  <2>5. Through(v, c, w, w + n) = Through(v, c, w, n - 1)
    <3>1. (w + n) % (w + 1) = (n - 1) % (w + 1)
      BY Remainders
    <3> QED
      BY <3>1, Zenon DEF Through
  <2> QED
    BY <2>1, <2>2, <2>3, <2>4, <2>5
<1>6. CASE op \in Shl
  <2>1. op \notin {ROL, ROR, RCL, RCR, SAR} /\ op \notin Rightward
    BY <1>6 DEF Shl, ROL, ROR, RCL, RCR, SHR, SAR, Rightward
  <2>2. \A k : Tape(op, w, v, c, k) = (k >= 0 /\ k < w /\ ValueBit(v, k))
    BY <2>1, ZeroTape
  <2>3. \A k \in Int : NewBit(op, w, v, c, n, k) = (k >= n /\ ValueBit(v, k - n))
    BY <1>6, ShlBits
  <2>4. OutBit(op, w, v, c, n) = (n <= w /\ ValueBit(v, w - n))
    BY <1>6, ShlBits
  <2>5. ASSUME NEW k \in 0 .. w - 1
        PROVE  NewBit(op, w, v, c, n, k) = Tape(op, w, v, c, k - n)
    <3>1. k \in Int /\ k - n < w /\ (k >= n <=> k - n >= 0)
      OBVIOUS
    <3> QED
      BY <1>1, <2>2, <2>3, <3>1, Zenon
  <2>6. OutBit(op, w, v, c, n) = Tape(op, w, v, c, w - n)
    <3>1. w - n < w /\ (n <= w <=> w - n >= 0)
      OBVIOUS
    <3> QED
      BY <1>1, <2>2, <2>4, <3>1, Zenon
  <2> QED
    BY <2>1, <2>5, <2>6
<1>7. CASE op = SHR
  <2>1. op \notin {ROL, ROR, RCL, RCR, SAR} /\ op \in Rightward
    BY <1>7 DEF Shl, ROL, ROR, RCL, RCR, SHR, SAR, Rightward
  <2>2. \A k : Tape(op, w, v, c, k) = (k >= 0 /\ k < w /\ ValueBit(v, k))
    BY <2>1, ZeroTape
  <2>3. \A k \in Int : NewBit(op, w, v, c, n, k) = (k + n < w /\ ValueBit(v, k + n))
    BY <1>7, ShrBits
  <2>4. OutBit(op, w, v, c, n) = (n <= w /\ ValueBit(v, n - 1))
    BY <1>7, ShrBits
  <2>5. ASSUME NEW k \in 0 .. w - 1
        PROVE  NewBit(op, w, v, c, n, k) = Tape(op, w, v, c, k + n)
    <3>1. k \in Int /\ k + n >= 0
      OBVIOUS
    <3> QED
      BY <1>1, <2>2, <2>3, <3>1, Zenon
  <2>6. OutBit(op, w, v, c, n) = Tape(op, w, v, c, n - 1)
    <3>1. n - 1 >= 0 /\ (n <= w <=> n - 1 < w)
      OBVIOUS
    <3> QED
      BY <1>1, <2>2, <2>4, <3>1, Zenon
  <2> QED
    BY <2>1, <2>5, <2>6
<1>8. CASE op = SAR
  <2>1. op = SAR /\ op \in Rightward
    BY <1>8 DEF SAR, Rightward
  <2>2. \A k : Tape(op, w, v, c, k) = ValueBit(v, IF k < w THEN k ELSE w - 1)
    BY <2>1, SignTape
  <2>3. \A k \in Int : NewBit(op, w, v, c, n, k) = ValueBit(v, IF k + n < w THEN k + n ELSE w - 1)
    BY <1>8, SarBits
  <2>4. OutBit(op, w, v, c, n) = ValueBit(v, IF n <= w THEN n - 1 ELSE w - 1)
    BY <1>8, SarBits
  <2>5. n <= w <=> n - 1 < w
    OBVIOUS
  <2> QED
    BY <2>1, <2>2, <2>3, <2>4, <2>5
<1> QED
  BY <1>2, <1>3, <1>4, <1>5, <1>6, <1>7, <1>8

\* What ShiftsRight says of a step with a count above 0.
ShiftDone ==
  i.kind = "shift" /\ i.count > 0 =>
    IF i.op < 4 /\ alu_operation = CMP THEN ax' = ax ELSE Shifted

\* The bits of a shift's result, from the bits of the operand.
Placed(op, w, v, c, n, x) ==
  /\ \A k \in 0 .. w - 1 : ValueBit(x.value, k) = NewBit(op, w, v, c, n, k)
  /\ x.carry = OutBit(op, w, v, c, n)
  /\ n = 1 => x.overflow = (NewBit(op, w, v, c, n, w - 1) # ValueBit(v, w - 1))

LEMMA ShiftResult ==
  ASSUME NEW op \in 0 .. 7, NEW v \in Value, NEW wide \in BOOLEAN, NEW n \in Byte, n > 0,
         NEW c \in BOOLEAN
  PROVE  Placed(op, Places(wide), v, c, n, Shift(op, v, wide, n, c))
<1> DEFINE w == Places(wide)
           x == Shift(op, v, wide, n, c)
<1>1. /\ op \in Rightward =>
           /\ \A k \in Nat : Tape(op, w, x.value, x.carry, k) = Tape(op, w, v, c, k + n)
           /\ x.carry = Tape(op, w, v, c, n - 1)
      /\ op \notin Rightward =>
           /\ \A k \in Int : k < w =>
                Tape(op, w, x.value, x.carry, k) = Tape(op, w, v, c, k - n)
           /\ x.carry = Tape(op, w, v, c, w - n)
      /\ n = 1 => x.overflow = (ValueBit(x.value, w - 1) # ValueBit(v, w - 1))
  BY ShiftMoves
<1>2. w \in {8, 16} /\ n \in Nat
  BY DEF Places, Byte
<1>3. op \in {ROL, ROR, RCL, RCR, SHR, SAR} \cup Shl
  BY DEF ROL, ROR, RCL, RCR, SHR, SAR, Shl
<1> HIDE DEF w, x
<1>4. /\ op \in Rightward =>
           /\ \A k \in 0 .. w - 1 : NewBit(op, w, v, c, n, k) = Tape(op, w, v, c, k + n)
           /\ OutBit(op, w, v, c, n) = Tape(op, w, v, c, n - 1)
      /\ op \notin Rightward =>
           /\ \A k \in 0 .. w - 1 : NewBit(op, w, v, c, n, k) = Tape(op, w, v, c, k - n)
           /\ OutBit(op, w, v, c, n) = Tape(op, w, v, c, w - n)
  BY <1>2, <1>3, BitsOnTape
<1>5. ASSUME NEW k \in 0 .. w - 1
      PROVE  ValueBit(x.value, k) = NewBit(op, w, v, c, n, k)
  <2>1. Tape(op, w, x.value, x.carry, k) = ValueBit(x.value, k)
    BY <1>2, InsideTape
  <2>2. k \in Nat /\ k \in Int /\ k < w
    BY <1>2
  <2> QED
    BY <1>1, <1>4, <2>1, <2>2
<1>6. x.carry = OutBit(op, w, v, c, n)
  BY <1>1, <1>4
<1>7. w - 1 \in 0 .. w - 1
  BY <1>2
<1>8. ValueBit(x.value, w - 1) = NewBit(op, w, v, c, n, w - 1)
  BY <1>5, <1>7
<1>9. n = 1 => x.overflow = (NewBit(op, w, v, c, n, w - 1) # ValueBit(v, w - 1))
  BY <1>1, <1>8, Zenon
<1>10. Placed(op, w, v, c, n, x)
  BY <1>5, <1>6, <1>9, Zenon DEF Placed
<1> QED
  BY <1>10 DEF w, x

\* The tape, and with it the result, sees no more of a value than its places.
LEMMA SameTape ==
  ASSUME NEW op, NEW w \in {8, 16}, NEW v, NEW u, NEW c, NEW k \in Int,
         op = SAR => k >= 0, \A j \in 0 .. w - 1 : ValueBit(u, j) = ValueBit(v, j)
  PROVE  Tape(op, w, u, c, k) = Tape(op, w, v, c, k)
<1>1. k % w \in 0 .. w - 1
  BY NextPlace
<1>2. CASE op \in {ROL, ROR}
  <2>1. ValueBit(u, k % w) = ValueBit(v, k % w)
    BY <1>1
  <2> QED
    BY <1>2, <2>1, PlainTape
<1>3. CASE op \in {RCL, RCR}
  <2>1. Through(u, c, w, k) = Through(v, c, w, k)
    <3>1. PICK j \in Int : j = k % (w + 1)
      OBVIOUS
    <3>2. j \in 0 .. w
      <4>1. PICK m \in {8, 9, 16, 17} : m = w + 1
        OBVIOUS
      <4>2. k % m \in 0 .. m - 1
        BY NextPlace
      <4> QED
        BY <3>1, <4>1, <4>2
    <3>3. j # w => ValueBit(u, j) = ValueBit(v, j)
      <4>1. j # w => j \in 0 .. w - 1
        BY <3>2
      <4> QED
        BY <4>1
    <3> QED
      BY <3>1, <3>3 DEF Through
  <2> QED
    BY <1>3, <2>1, CarryTape
<1>4. CASE op = SAR
  <2>1. (IF k < w THEN k ELSE w - 1) \in 0 .. w - 1
    BY <1>4
  <2>2. ValueBit(u, IF k < w THEN k ELSE w - 1) = ValueBit(v, IF k < w THEN k ELSE w - 1)
    BY <2>1
  <2> QED
    BY <1>4, <2>2, SignTape
<1>5. CASE op \notin {ROL, ROR, RCL, RCR, SAR}
  <2>1. /\ Tape(op, w, u, c, k) = (k >= 0 /\ k < w /\ ValueBit(u, k))
        /\ Tape(op, w, v, c, k) = (k >= 0 /\ k < w /\ ValueBit(v, k))
    BY <1>5, ZeroTape
  <2>2. CASE k >= 0 /\ k < w
    <3>1. ValueBit(u, k) = ValueBit(v, k)
      <4>1. k \in 0 .. w - 1
        BY <2>2
      <4> QED
        BY <4>1
    <3>2. ValueBit(u, k) \in BOOLEAN /\ ValueBit(v, k) \in BOOLEAN
      BY ValueBitIs
    <3>3. Tape(op, w, u, c, k) = ValueBit(u, k) /\ Tape(op, w, v, c, k) = ValueBit(v, k)
      BY <2>1, <2>2, <3>2, Zenon
    <3> QED
      BY <3>1, <3>3
  <2>3. CASE ~(k >= 0 /\ k < w)
    <3>1. Tape(op, w, u, c, k) = FALSE /\ Tape(op, w, v, c, k) = FALSE
      BY <2>1, <2>3, Zenon
    <3> QED
      BY <3>1
  <2> QED
    BY <2>2, <2>3
<1> QED
  BY <1>2, <1>3, <1>4, <1>5

LEMMA SameBits ==
  ASSUME NEW op \in 0 .. 7, NEW w \in {8, 16}, NEW v, NEW u, NEW c \in BOOLEAN, NEW n \in Nat,
         n > 0, \A k \in 0 .. w - 1 : ValueBit(u, k) = ValueBit(v, k)
  PROVE  /\ \A k \in 0 .. w - 1 : NewBit(op, w, u, c, n, k) = NewBit(op, w, v, c, n, k)
         /\ OutBit(op, w, u, c, n) = OutBit(op, w, v, c, n)
<1>1. op \in {ROL, ROR, RCL, RCR, SHR, SAR} \cup Shl
  BY DEF ROL, ROR, RCL, RCR, SHR, SAR, Shl
<1>2. SAR \in Rightward
  BY DEF Rightward
<1>3. CASE op \in Rightward
  <2>1. ASSUME NEW k \in 0 .. w - 1
        PROVE  NewBit(op, w, u, c, n, k) = NewBit(op, w, v, c, n, k)
    <3>1. k + n \in Int /\ k + n >= 0
      OBVIOUS
    <3>2. Tape(op, w, u, c, k + n) = Tape(op, w, v, c, k + n)
      BY <3>1, SameTape
    <3>3. /\ NewBit(op, w, u, c, n, k) = Tape(op, w, u, c, k + n)
          /\ NewBit(op, w, v, c, n, k) = Tape(op, w, v, c, k + n)
      BY <1>1, <1>3, BitsOnTape
    <3> QED
      BY <3>2, <3>3
  <2>2. Tape(op, w, u, c, n - 1) = Tape(op, w, v, c, n - 1)
    <3>1. n - 1 \in Int /\ n - 1 >= 0
      OBVIOUS
    <3> QED
      BY <3>1, SameTape
  <2>3. /\ OutBit(op, w, u, c, n) = Tape(op, w, u, c, n - 1)
        /\ OutBit(op, w, v, c, n) = Tape(op, w, v, c, n - 1)
    BY <1>1, <1>3, BitsOnTape
  <2> QED
    BY <2>1, <2>2, <2>3
<1>4. CASE op \notin Rightward
  <2>1. op # SAR
    BY <1>2, <1>4
  <2>2. ASSUME NEW k \in 0 .. w - 1
        PROVE  NewBit(op, w, u, c, n, k) = NewBit(op, w, v, c, n, k)
    <3>1. k - n \in Int
      OBVIOUS
    <3>2. Tape(op, w, u, c, k - n) = Tape(op, w, v, c, k - n)
      BY <2>1, <3>1, SameTape
    <3>3. /\ NewBit(op, w, u, c, n, k) = Tape(op, w, u, c, k - n)
          /\ NewBit(op, w, v, c, n, k) = Tape(op, w, v, c, k - n)
      BY <1>1, <1>4, BitsOnTape
    <3> QED
      BY <3>2, <3>3
  <2>3. Tape(op, w, u, c, w - n) = Tape(op, w, v, c, w - n)
    <3>1. w - n \in Int
      OBVIOUS
    <3> QED
      BY <2>1, <3>1, SameTape
  <2>4. /\ OutBit(op, w, u, c, n) = Tape(op, w, u, c, w - n)
        /\ OutBit(op, w, v, c, n) = Tape(op, w, v, c, w - n)
    BY <1>1, <1>4, BitsOnTape
  <2> QED
    BY <2>2, <2>3, <2>4
<1> QED
  BY <1>3, <1>4

\* Shifted in the terms above.
LEMMA ShiftedIs ==
  ASSUME LET w == Places(i.wide)
             c == flags.CF
         IN  /\ \A k \in 0 .. w - 1 : ValueBit(ax', k) = NewBit(i.op, w, ax, c, i.count, k)
             /\ flags'.CF = OutBit(i.op, w, ax, c, i.count)
             /\ i.count = 1 => flags'.OF = (NewBit(i.op, w, ax, c, i.count, w - 1)
                                              # ValueBit(ax, w - 1))
             /\ ~i.wide => ax'.hi = ax.hi
  PROVE  Shifted
  BY Zenon DEF Shifted, NewBit, OutBit, Through, Places

LEMMA ShiftOneDone ==
  ASSUME TypeOK, ShiftOne, i.count > 0
  PROVE  ShiftDone
<1> DEFINE w == Places(i.wide)
           c == flags.CF
           n == i.count
           o == Operand(ax)
           x == Shift(i.op, o, i.wide, n, c)
<1>1. /\ ax \in Value /\ flags \in Flags
      /\ flags.CF \in BOOLEAN /\ i.op \in 0 .. 7 /\ i.wide \in BOOLEAN /\ i.count \in Byte
  <2>1. Fetched("shift")
    BY DEF ShiftOne
  <2> QED
    BY <2>1, FetchedType DEF Flags
<1>2. o \in Value /\ \A k \in 0 .. w - 1 : ValueBit(o, k) = ValueBit(ax, k)
  <2>1. CASE i.wide
    BY <1>1, <2>1 DEF Operand
  <2>2. CASE ~i.wide
    <3>1. o = [lo |-> ax.lo, hi |-> 0] /\ 0 \in Byte /\ ax.lo \in Byte
      BY <1>1, <2>2 DEF Operand, Low, Value, Byte
    <3>2. o \in Value /\ o.lo = ax.lo
      BY <3>1 DEF Value
    <3>3. ASSUME NEW k \in 0 .. w - 1 PROVE ValueBit(o, k) = ValueBit(ax, k)
      <4>1. k \in 0 .. 7
        BY <2>2 DEF Places
      <4> HIDE DEF o
      <4>2. ValueBit(o, k) = Bit(o.lo, k) /\ ValueBit(ax, k) = Bit(ax.lo, k)
        BY <4>1, ValueBitIs, Zenon
      <4> QED
        BY <3>2, <4>2
    <3> QED
      BY <3>2, <3>3
  <2> QED
    BY <2>1, <2>2
<1>3. i.op \in 0 .. 7 /\ w \in {8, 16} /\ n \in Nat /\ n > 0 /\ c \in BOOLEAN
  BY <1>1 DEF Places, Byte
<1> HIDE DEF o
<1>4. /\ \A k \in 0 .. w - 1 : ValueBit(x.value, k) = NewBit(i.op, w, o, c, n, k)
      /\ x.carry = OutBit(i.op, w, o, c, n)
      /\ n = 1 => x.overflow = (NewBit(i.op, w, o, c, n, w - 1) # ValueBit(o, w - 1))
      /\ x.value \in Value
  <2>1. Placed(i.op, w, o, c, n, x)
    BY <1>1, <1>2, ShiftResult
  <2>2. x.value \in Value
    BY <1>1, <1>2, ShiftType
  <2> HIDE DEF x, w, c, n
  <2> QED
    BY <2>1, <2>2 DEF Placed
<1> HIDE DEF x, w
<1>5. /\ \A k \in 0 .. w - 1 : ValueBit(x.value, k) = NewBit(i.op, w, ax, c, n, k)
      /\ x.carry = OutBit(i.op, w, ax, c, n)
      /\ n = 1 => x.overflow = (NewBit(i.op, w, ax, c, n, w - 1) # ValueBit(ax, w - 1))
  <2>1. /\ \A k \in 0 .. w - 1 : NewBit(i.op, w, o, c, n, k) = NewBit(i.op, w, ax, c, n, k)
        /\ OutBit(i.op, w, o, c, n) = OutBit(i.op, w, ax, c, n)
    BY <1>2, <1>3, SameBits
  <2>2. w - 1 \in 0 .. w - 1
    BY <1>3
  <2> HIDE DEF c, n
  <2> QED
    BY <1>2, <1>4, <2>1, <2>2
<1>6. /\ flags'.CF = x.carry /\ flags'.OF = x.overflow
      /\ ax' = IF i.op < 4 /\ alu_operation = CMP THEN ax ELSE Stored(x.value)
  <2>1. i.count # 0
    BY <1>3
  <2>2. CASE i.op < 4
    <3>1. /\ ax' = IF alu_operation = CMP THEN ax ELSE Stored(x.value)
          /\ flags' = [flags EXCEPT !.CF = x.carry, !.OF = x.overflow]
      BY <2>1, <2>2 DEF ShiftOne, x, o, c, n
    <3> QED
      BY <1>1, <2>2, <3>1 DEF Flags
  <2>3. CASE ~(i.op < 4)
    <3> DEFINE f == AluFlags(AND, ax, ax, x.value, i.wide, x.carry)
    <3>1. /\ ax' = Stored(x.value)
          /\ flags' = [f EXCEPT !.OF = x.overflow]
      BY <2>1, <2>3 DEF ShiftOne, x, o, c, n
    <3>2. DOMAIN f = {"CF", "ZF", "SF", "PF", "AF", "OF"} /\ f.CF = x.carry
      BY DEF AluFlags
    <3> HIDE DEF f
    <3>3. flags'.CF = f.CF /\ flags'.OF = x.overflow
      BY <3>1, <3>2
    <3> QED
      BY <2>3, <3>1, <3>2, <3>3
  <2> QED
    BY <2>2, <2>3
<1>7. CASE i.op < 4 /\ alu_operation = CMP
  BY <1>6, <1>7 DEF ShiftDone
<1>8. CASE ~(i.op < 4 /\ alu_operation = CMP)
  <2>1. ax' = Stored(x.value)
    BY <1>6, <1>8
  <2>2. \A k \in 0 .. w - 1 : ValueBit(ax', k) = ValueBit(x.value, k)
    <3>1. CASE i.wide
      BY <2>1, <3>1 DEF Stored
    <3>2. CASE ~i.wide
      <4>1. ax' = [ax EXCEPT !.lo = x.value.lo]
        BY <2>1, <3>2 DEF Stored
      <4>2. ax'.lo = x.value.lo
        BY <1>1, <4>1 DEF Value
      <4>3. ASSUME NEW k \in 0 .. w - 1 PROVE ValueBit(ax', k) = ValueBit(x.value, k)
        <5>1. k \in 0 .. 7
          BY <3>2 DEF w, Places
        <5>2. ValueBit(ax', k) = Bit(ax'.lo, k) /\ ValueBit(x.value, k) = Bit(x.value.lo, k)
          BY <5>1, ValueBitIs, Zenon
        <5> QED
          BY <4>2, <5>2
      <4> QED
        BY <4>3
    <3> QED
      BY <3>1, <3>2
  <2>3. ~i.wide => ax'.hi = ax.hi
    BY <1>1, <2>1 DEF Stored, Value
  <2>4. /\ \A k \in 0 .. w - 1 : ValueBit(ax', k) = NewBit(i.op, w, ax, c, n, k)
        /\ flags'.CF = OutBit(i.op, w, ax, c, n)
        /\ n = 1 => flags'.OF = (NewBit(i.op, w, ax, c, n, w - 1) # ValueBit(ax, w - 1))
    <3> HIDE DEF c, n
    <3> QED
      BY <1>5, <1>6, <2>2
  <2>5. Shifted
    BY <2>3, <2>4, ShiftedIs DEF w
  <2> QED
    BY <1>8, <2>5 DEF ShiftDone
<1> QED
  BY <1>7, <1>8

(***************************************************************************)
(* Shifts and rotates by any count place every bit of every value, at both *)
(* widths, and leave the bit that left last in CF (@shift_one).            *)
(***************************************************************************)
THEOREM ShiftsCorrect == Spec => ShiftsRight
<1>1. TypeOK /\ [Next]_vars => [ShiftDone]_vars
  <2> SUFFICES ASSUME TypeOK, Next PROVE ShiftDone
    OBVIOUS
  <2>1. CASE i.kind = "shift" /\ i.count > 0
    BY <2>1, ByKind, ShiftOneDone
  <2>2. CASE ~(i.kind = "shift" /\ i.count > 0)
    BY <2>2 DEF ShiftDone
  <2> QED
    BY <2>1, <2>2
<1> QED
  BY <1>1, TypeCorrect, PTL DEF Spec, ShiftsRight, ShiftDone
=============================================================================
