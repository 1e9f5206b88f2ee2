------------------------------- MODULE MulDiv -------------------------------
(***************************************************************************)
(* multiply.s and divide.s: products and quotients by shifting, a bit a    *)
(* round.  A word is a number below W, a double word is a pair of them.    *)
(***************************************************************************)
EXTENDS Alu

W == 65536
Word16 == 0 .. W - 1
Negated(n) == (W - n) % W
Negative(n) == n >= W \div 2
Magnitude(n) == IF Negative(n) THEN Negated(n) ELSE n

\* A byte as multiply.s and divide.s negate it: in eight bits.
ByteMagnitude(b) == IF b >= 128 THEN (256 - b) % 256 ELSE b

\* A double word; negate_dx_ax borrows from the high word unless the low is 0.
LongAdd(p, q) ==
  [lo |-> (p.lo + q.lo) % W, hi |-> (p.hi + q.hi + (p.lo + q.lo) \div W) % W]
\* (Variant: the high word is negated by itself.)
LongNegatedByWords(p) == [lo |-> Negated(p.lo), hi |-> Negated(p.hi)]

LongNegated(p) ==
  [lo |-> Negated(p.lo), hi |-> IF p.lo = 0 THEN Negated(p.hi) ELSE W - 1 - p.hi]

----------------------------------------------------------------------------
(***************************************************************************)
(* multiply_unsigned: the multiplicand is doubled each round and added for *)
(* every bit that is set in the multiplier, which is taken down by halves. *)
(***************************************************************************)
Long == [lo : Word16, hi : Word16]
MulState == [product : Long, multiplicand : Long, multiplier : Word16]

MulRound ==
  [s \in MulState |->
     [product      |-> IF s.multiplier % 2 = 1 THEN LongAdd(s.product, s.multiplicand)
                                              ELSE s.product,
      multiplicand |-> LongAdd(s.multiplicand, s.multiplicand),
      multiplier   |-> s.multiplier \div 2]]

MulStart(x, y) ==
  [product |-> [lo |-> 0, hi |-> 0], multiplicand |-> [lo |-> x, hi |-> 0],
   multiplier |-> y]

\* AX, and the carry.
MulU8(al, m) ==
  LET ax == Eight(MulRound)[MulStart(al, m)].product.lo
  IN  [ax |-> ax, carry |-> ax \div 256 # 0]

MulS8(al, m) ==
  LET product == MulU8(ByteMagnitude(al), ByteMagnitude(m)).ax
      ax      == IF (al >= 128) # (m >= 128) THEN Negated(product) ELSE product
  IN  [ax |-> ax,
       carry |-> ax \div 256 # (IF ax % 256 >= 128 THEN 255 ELSE 0)]

\* DX:AX, and the carry.
MulU16(ax, m) ==
  LET long == Sixteen(MulRound)[MulStart(ax, m)].product
  IN  [ax |-> long.lo, dx |-> long.hi, carry |-> long.hi # 0]

MulS16(ax, m) ==
  LET product == Sixteen(MulRound)[MulStart(Magnitude(ax), Magnitude(m))].product
      long    == IF Negative(ax) # Negative(m) THEN LongNegated(product) ELSE product
  IN  [ax |-> long.lo, dx |-> long.hi,
       carry |-> long.hi # (IF Negative(long.lo) THEN W - 1 ELSE 0)]

----------------------------------------------------------------------------
(***************************************************************************)
(* cpu8088_div_u8.  When the remainder, doubled, no longer fits a byte the *)
(* code goes straight to sbc, with what the accumulator a holds: the       *)
(* remainder before it was doubled, or in the first round the count.       *)
(***************************************************************************)
DivideError == [error |-> TRUE]

DivState8 == [q : Byte, r : Byte, a : Byte]

DivRound8(d) ==
  [s \in DivState8 |->
     LET doubled == 2 * s.r + (s.q \div 128)
         q       == (2 * s.q) % 256
         taken   == ((IF doubled > 255 THEN s.a ELSE doubled) - d) % 256
     IN  IF doubled >= d THEN [q |-> q + 1, r |-> taken, a |-> taken]
                         ELSE [q |-> q, r |-> doubled, a |-> doubled]]

DivU8(ax, d) ==
  LET last == Eight(DivRound8(d))[[q |-> ax % 256, r |-> ax \div 256, a |-> 8]]
  IN  IF d = 0 \/ ax \div 256 >= d
        THEN DivideError
        ELSE [error |-> FALSE, q |-> last.q, r |-> last.r]

\* cpu8088_div_u16 loads the remainder before it subtracts.
DivState16 == [q : Word16, r : Word16]

DivRound16(d) ==
  [s \in DivState16 |->
     LET doubled == 2 * s.r + (s.q \div (W \div 2))
         q       == (2 * s.q) % W
     IN  IF doubled >= d THEN [q |-> q + 1, r |-> (doubled - d) % W]
                         ELSE [q |-> q, r |-> doubled]]

DivU16(dx, ax, d) ==
  LET last == Sixteen(DivRound16(d))[[q |-> ax, r |-> dx]]
  IN  IF d = 0 \/ dx >= d
        THEN DivideError
        ELSE [error |-> FALSE, q |-> last.q, r |-> last.r]

(***************************************************************************)
(* The signed divisions divide the magnitudes, refuse a quotient beyond    *)
(* the signed range, and give the remainder the dividend's sign.  Error    *)
(* restores AX and DX, so it has no result.                                *)
(***************************************************************************)
\* (Variant: a negative quotient is held to the limit of a positive one.)
DivS8OneLimit(ax, d) ==
  LET u       == DivU8(Magnitude(ax), ByteMagnitude(d))
      opposed == Negative(ax) # (d >= 128)
  IN  IF u.error \/ u.q > 127
        THEN DivideError
        ELSE [error |-> FALSE,
              q |-> IF opposed THEN (256 - u.q) % 256 ELSE u.q,
              r |-> IF Negative(ax) THEN (256 - u.r) % 256 ELSE u.r]

DivS8(ax, d) ==
  LET u      == DivU8(Magnitude(ax), ByteMagnitude(d))
      opposed == Negative(ax) # (d >= 128)
  IN  IF u.error \/ u.q > (IF opposed THEN 128 ELSE 127)
        THEN DivideError
        ELSE [error |-> FALSE,
              q |-> IF opposed THEN (256 - u.q) % 256 ELSE u.q,
              r |-> IF Negative(ax) THEN (256 - u.r) % 256 ELSE u.r]

DivS16(dx, ax, d) ==
  LET n      == IF Negative(dx) THEN LongNegated([lo |-> ax, hi |-> dx])
                                ELSE [lo |-> ax, hi |-> dx]
      u      == DivU16(n.hi, n.lo, Magnitude(d))
      opposed == Negative(dx) # Negative(d)
  IN  IF u.error \/ u.q > (IF opposed THEN W \div 2 ELSE (W \div 2) - 1)
        THEN DivideError
        ELSE [error |-> FALSE,
              q |-> IF opposed THEN Negated(u.q) ELSE u.q,
              r |-> IF Negative(dx) THEN Negated(u.r) ELSE u.r]
=============================================================================
