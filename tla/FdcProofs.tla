----------------------------- MODULE FdcProofs -----------------------------
(***************************************************************************)
(* For every width of the transfer registers, every geometry and every     *)
(* byte the guest may write: the phases of the diskette controller exclude *)
(* each other, a seek end is told, an interrupt has its reason, a copy is  *)
(* authorised and a READ is reported as it went.                           *)
(*                                                                         *)
(* The invariant adds to TypeOK and PhasesExclusive what the code never    *)
(* says but relies on: the parameters that are expected are those of the   *)
(* command in fdc_command, and a seek end that waits for its SENSE tells   *)
(* where the head still is.                                                *)
(***************************************************************************)
EXTENDS Fdc, WellFoundedInduction, SequenceTheorems, TLAPS

----------------------------------------------------------------------------
(***************************************************************************)
(* Arithmetic.                                                             *)
(***************************************************************************)
\* A nonempty set of numbers has a least one.
LEMMA LeastNat ==
  ASSUME NEW T \in SUBSET Nat, T # {}
  PROVE  \E k \in T : \A i \in T : k <= i
<1>1. PICK k \in T : \A i \in T : ~(<<i, k>> \in OpToRel(<, Nat))
  BY WFMin, NatLessThanWellFounded
<1>2. \A i \in T : ~(i < k)
  BY <1>1 DEF OpToRel
<1>3. QED
  BY <1>2

\* A remainder modulo a word is a word.
LEMMA ModRange ==
  ASSUME NEW x \in Int
  PROVE  x % (Base * Base) \in Word
<1>1. Base * Base \in Nat \ {0}
  BY DmaAssumption
<1>2. QED
  BY <1>1 DEF Word

\* Quotient and remainder determine each other.
LEMMA RemainderUnique ==
  ASSUME NEW W \in Nat \ {0}, NEW q \in Int, NEW r \in Int,
         NEW s \in 0 .. W - 1, NEW t \in 0 .. W - 1, q * W + s = r * W + t
  PROVE  s = t
<1>1. (q - r) * W = t - s
  OBVIOUS
<1>2. CASE q - r >= 1
  <2>1. (q - r) * W >= W
    BY <1>2
  <2>2. QED
    BY <1>1, <2>1
<1>3. CASE q - r <= -1
  <2>1. (q - r) * W <= -W
    BY <1>3
  <2>2. QED
    BY <1>1, <2>1
<1>4. CASE q - r = 0
  BY <1>1, <1>4
<1>5. QED
  BY <1>2, <1>3, <1>4

\* A multiple of the divisor leaves the remainder alone.
LEMMA RemainderShift ==
  ASSUME NEW W \in Nat \ {0}, NEW y \in Int, NEW k \in Int
  PROVE  (y + k * W) % W = y % W
<1>1. PICK q \in Int, s \in 0 .. W - 1 : y = q * W + s /\ s = y % W
  OBVIOUS
<1>2. PICK r \in Int, t \in 0 .. W - 1 : y + k * W = r * W + t /\ t = (y + k * W) % W
  OBVIOUS
<1>3. (q + k) * W + s = r * W + t
  BY <1>1, <1>2
<1>4. QED
  BY <1>1, <1>2, <1>3, RemainderUnique, q + k \in Int

\* An address and what of it remains after a move, modulo a word.
LEMMA ModShift ==
  ASSUME NEW a \in Int, NEW x \in Int
  PROVE  (((a + x) % (Base * Base)) - (a % (Base * Base))) % (Base * Base) = x % (Base * Base)
<1> DEFINE W == Base * Base
<1>1. W \in Nat \ {0}
  BY DmaAssumption
<1> HIDE DEF W
<1>2. PICK q \in Int, s \in Int : a = q * W + s /\ s = a % W
  BY <1>1
<1>3. PICK r \in Int, t \in Int : a + x = r * W + t /\ t = (a + x) % W
  BY <1>1
<1>4. x = (t - s) + (r - q) * W
  BY <1>1, <1>2, <1>3
<1>5. \A y, k \in Int : (y + k * W) % W = y % W
  BY <1>1, RemainderShift
<1>6. x % W = (t - s) % W
  BY <1>4, <1>5, t - s \in Int, r - q \in Int
<1>7. QED
  BY <1>2, <1>3, <1>6 DEF W

\* A byte written into either half of a word makes a word.
LEMMA HalfType ==
  ASSUME NEW w \in Word, NEW b \in Byte, dma_flipflop \in BOOLEAN
  PROVE  Half(w, b) \in Word
<1>1. Base \in Nat \ {0, 1} /\ w \in 0 .. Base * Base - 1 /\ b \in 0 .. Base - 1
  BY DmaAssumption DEF Word, Byte
<1>2. b * Base <= (Base - 1) * Base
  BY <1>1
<1>3. w % Base \in 0 .. Base - 1
  BY <1>1
<1>4. b * Base + (w % Base) \in 0 .. Base * Base - 1
  BY <1>1, <1>2, <1>3
<1>5. PICK q \in Int, s \in 0 .. Base - 1 : w = q * Base + s /\ q = w \div Base
  BY <1>1
<1>6. q \in 0 .. Base - 1
  <2>1. CASE q < 0
    <3>1. q * Base <= -Base
      BY <1>1, <2>1
    <3>2. QED
      BY <1>1, <1>5, <3>1
  <2>2. CASE q > Base - 1
    <3>1. q * Base >= Base * Base
      BY <1>1, <2>2
    <3>2. QED
      BY <1>1, <1>5, <3>1
  <2>3. QED
    BY <1>1, <2>1, <2>2
<1>7. q * Base <= (Base - 1) * Base /\ 0 <= q * Base
  BY <1>1, <1>6
<1>8. (w \div Base) * Base + b \in 0 .. Base * Base - 1
  BY <1>1, <1>5, <1>7
<1>9. QED
  BY <1>4, <1>8 DEF Half, Word

\* The registers as the i-th sector finds them are words; the first finds
\* them as they are.
LEMMA RegistersAt ==
  ASSUME DmaTypeOK, NEW i \in Int
  PROVE  /\ AddrAt(i) \in Word
         /\ CountAt(i) \in Word
         /\ i = 0 => CountAt(i) = dma_channel2_count
<1>1. Sector \in Int /\ i * Sector \in Int
  BY DmaAssumption DEF Sector
<1>2. dma_channel2_addr \in Int /\ dma_channel2_count \in 0 .. Base * Base - 1
  BY DmaAssumption DEF DmaTypeOK, Word
<1>3. AddrAt(i) \in Word /\ CountAt(i) \in Word
  BY <1>1, <1>2, ModRange DEF AddrAt, CountAt
<1>4. ASSUME i = 0 PROVE CountAt(i) = dma_channel2_count
  <2>1. i * Sector = 0
    BY <1>1, <1>4
  <2>2. Base * Base \in Nat \ {0}
    BY DmaAssumption
  <2>3. QED
    BY <1>2, <2>1, <2>2 DEF CountAt
<1>5. QED
  BY <1>3, <1>4

\* Moved(n) exists: all sectors before it are accepted, and it is the last
\* or refused.
LEMMA MovedFacts ==
  ASSUME NEW n \in Nat
  PROVE  /\ Moved(n) \in 0 .. n
         /\ \A i \in 0 .. Moved(n) - 1 : Accepts(i)
<1> DEFINE T == {k \in 0 .. n : k = n \/ ~Accepts(k)}
<1>1. n \in T /\ T \in SUBSET Nat
  OBVIOUS
<1>2. PICK k \in T : \A i \in T : k <= i
  BY <1>1, LeastNat
<1>3. k \in 0 .. n /\ (k = n \/ ~Accepts(k))
  OBVIOUS
<1>4. \A i \in 0 .. k - 1 : Accepts(i)
  BY <1>2, <1>3
<1>5. QED
  BY <1>3, <1>4 DEF Moved

----------------------------------------------------------------------------
(***************************************************************************)
(* The invariant, and what a step does.                                    *)
(***************************************************************************)
CommandKnown == fdc_expected > 0 => fdc_expected = Parameters(fdc_command)

SeekKnown == fdc_pending_st0 = 32 => fdc_pending_cyl = fdc_current_cyl

Invariant == TypeOK /\ PhasesExclusive /\ CommandKnown /\ SeekKnown

Params == [0 .. 7 -> 0 .. 255]

\* What every command does to the channel, the result and the seek end.
CommandType ==
  /\ DmaTypeOK'
  /\ fdc_results' \in Seq(0 .. 255)
  /\ Len(fdc_results') <= 7
  /\ fdc_pending_st0' \in 0 .. 255
  /\ fdc_pending_cyl' \in 0 .. 255
  /\ fdc_current_cyl' \in 0 .. 255
  /\ fdc_reset_senses' \in 0 .. 4
  /\ irq6' \in BOOLEAN
  /\ SeekKnown'

SeekTold ==
  fdc_pending_st0 = 32 /\ fdc_pending_st0' # 32
    => fdc_results' = <<32, fdc_current_cyl>>

Explained ==
  irq6' => \/ fdc_results' # <<>>
           \/ fdc_pending_st0' # 0
           \/ fdc_reset_senses' > 0

Authorised ==
  copied' # <<>> => /\ fdc_selected_drive = 0
                    /\ ~dma_channel2_masked
                    /\ dma_channel2_count >= Sector - 1

Told(p) ==
  fdc_results' # <<>> =>
    IF fdc_results'[1] = 32
      THEN /\ Whole(p, copied')
           /\ (dma_channel2_addr' - dma_channel2_addr) % (Base * Base)
                = (Len(copied') * Sector) % (Base * Base)
      ELSE Len(copied') < Wanted(p) \/ copied' = <<>>

CommandFacts(c, p) ==
  CommandType /\ SeekTold /\ Explained /\ Authorised /\ (c \in {5, 6} => Told(p))

\* A result of two bytes, and one of seven.
LEMMA PairResult ==
  ASSUME NEW a \in 0 .. 255, NEW b \in 0 .. 255
  PROVE  <<a, b>> \in Seq(0 .. 255) /\ Len(<<a, b>>) <= 7
OBVIOUS

LEMMA SevenResult ==
  ASSUME NEW a \in 0 .. 255, NEW b \in 0 .. 255, NEW c \in 0 .. 255,
         NEW d \in 0 .. 255, NEW e \in 0 .. 255, NEW f \in 0 .. 255,
         NEW g \in 0 .. 255
  PROVE  /\ <<a, b, c, d, e, f, g>> \in Seq(0 .. 255)
         /\ Len(<<a, b, c, d, e, f, g>>) = 7
         /\ <<a, b, c, d, e, f, g>> # <<>>
         /\ <<a, b, c, d, e, f, g>>[1] = a
<1>1. /\ <<a, b, c, d, e, f, g>> \in Seq(0 .. 255)
      /\ Len(<<a, b, c, d, e, f, g>>) = 7
      /\ <<a, b, c, d, e, f, g>>[1] = a
  OBVIOUS
<1>2. Len(<<>>) = 0
  OBVIOUS
<1>3. QED
  BY <1>1, <1>2

\* The refusal all commands share.
LEMMA NotFoundStep ==
  ASSUME Invariant, NEW p \in Params, NotFound(p)
  PROVE  /\ CommandType /\ SeekTold /\ Explained /\ Authorised
         /\ Told(p)
<1>1. /\ fdc_results' = <<64, 4, 0, p[1], p[2], p[3], p[4]>>
      /\ irq6' = TRUE
      /\ copied' = <<>>
      /\ UNCHANGED <<dmaVars, seekVars, fdc_reset_senses>>
  BY DEF NotFound, NotFoundResult, Answer
<1>2. p[1] \in 0 .. 255 /\ p[2] \in 0 .. 255 /\ p[3] \in 0 .. 255 /\ p[4] \in 0 .. 255
  BY DEF Params
<1>3. /\ fdc_results' \in Seq(0 .. 255)
      /\ Len(fdc_results') <= 7
      /\ fdc_results' # <<>>
      /\ fdc_results'[1] = 64
  <2>1. 64 \in 0 .. 255 /\ 4 \in 0 .. 255 /\ 0 \in 0 .. 255
    OBVIOUS
  <2>2. /\ <<64, 4, 0, p[1], p[2], p[3], p[4]>> \in Seq(0 .. 255)
        /\ Len(<<64, 4, 0, p[1], p[2], p[3], p[4]>>) = 7
        /\ <<64, 4, 0, p[1], p[2], p[3], p[4]>> # <<>>
        /\ <<64, 4, 0, p[1], p[2], p[3], p[4]>>[1] = 64
    BY <1>2, <2>1, SevenResult, ZenonT(90)
  <2>3. QED
    BY <1>1, <2>2
<1>4. CommandType
  BY <1>1, <1>3 DEF CommandType, Invariant, TypeOK, DmaTypeOK, dmaVars, seekVars, SeekKnown
<1>5. SeekTold
  BY <1>1 DEF SeekTold, seekVars
<1>6. Explained /\ Authorised /\ Told(p)
  BY <1>1, <1>3 DEF Explained, Authorised, Told
<1>7. QED
  BY <1>4, <1>5, <1>6

\* The end of a seek.
LEMMA MoveStep ==
  ASSUME Invariant, NEW cyl \in 0 .. 255, MoveTo(cyl)
  PROVE  CommandType /\ SeekTold /\ Explained /\ Authorised
<1>1. <<>> \in Seq(0 .. 255) /\ Len(<<>>) = 0
  OBVIOUS
<1>2. CommandType
  BY <1>1 DEF MoveTo, CommandType, Invariant, TypeOK, DmaTypeOK, dmaVars, SeekKnown
<1>3. SeekTold /\ Explained /\ Authorised
  BY DEF MoveTo, SeekTold, Explained, Authorised
<1>4. QED
  BY <1>2, <1>3

\* SENSE INTERRUPT STATUS, which uses up a promised sense or the seek end.
LEMMA SenseStep ==
  ASSUME Invariant, SenseReset \/ SensePending
  PROVE  CommandType /\ SeekTold /\ Explained /\ Authorised
<1>1. CASE SenseReset
  <2>1. 192 + (4 - fdc_reset_senses) \in 0 .. 255 /\ 0 \in 0 .. 255
    BY DEF Invariant, TypeOK
  <2>2. fdc_results' \in Seq(0 .. 255) /\ Len(fdc_results') <= 7
    <3>1. fdc_results' = <<192 + (4 - fdc_reset_senses), 0>>
      BY <1>1 DEF SenseReset
    <3>2. QED
      BY <2>1, <3>1, PairResult, ZenonT(90)
  <2>3. /\ fdc_reset_senses > 0 /\ fdc_reset_senses' = fdc_reset_senses - 1
        /\ irq6' = FALSE /\ copied' = <<>>
        /\ UNCHANGED <<dmaVars, seekVars>>
    BY <1>1 DEF SenseReset, Silent
  <2>4. CommandType
    <3>1. fdc_reset_senses' \in 0 .. 4
      BY <2>3 DEF Invariant, TypeOK
    <3>2. QED
      BY <2>2, <2>3, <3>1 DEF CommandType, Invariant, TypeOK, DmaTypeOK, dmaVars,
                              seekVars, SeekKnown
  <2>5. QED
    BY <2>3, <2>4 DEF seekVars, SeekTold, Explained, Authorised
<1>2. CASE SensePending
  <2>1. fdc_results' \in Seq(0 .. 255) /\ Len(fdc_results') <= 7
    <3>1. fdc_results' = <<fdc_pending_st0, fdc_pending_cyl>>
      BY <1>2 DEF SensePending
    <3>2. fdc_pending_st0 \in 0 .. 255 /\ fdc_pending_cyl \in 0 .. 255
      BY DEF Invariant, TypeOK
    <3>3. QED
      BY <3>1, <3>2, PairResult, ZenonT(90)
  <2>2. /\ fdc_pending_st0' = 0 /\ fdc_pending_cyl' = 0
        /\ irq6' = FALSE /\ copied' = <<>>
        /\ UNCHANGED <<dmaVars, fdc_current_cyl, fdc_reset_senses>>
    BY <1>2 DEF SensePending, Silent
  <2>3. CommandType
    <3>1. /\ fdc_pending_st0' \in 0 .. 255
          /\ fdc_pending_cyl' \in 0 .. 255
          /\ fdc_current_cyl' \in 0 .. 255
          /\ fdc_reset_senses' \in 0 .. 4
          /\ SeekKnown'
      BY <2>2 DEF Invariant, TypeOK, SeekKnown
    <3>2. DmaTypeOK' /\ irq6' \in BOOLEAN
      BY <2>2 DEF Invariant, TypeOK, DmaTypeOK, dmaVars
    <3>3. QED
      BY <2>1, <3>1, <3>2 DEF CommandType
  <2>4. SeekTold
    BY <1>2 DEF SensePending, SeekTold, Invariant, SeekKnown
  <2>5. QED
    BY <2>2, <2>3, <2>4 DEF Explained, Authorised
<1>3. QED
  BY <1>1, <1>2

\* READ ID.
LEMMA ReadIdStep ==
  ASSUME Invariant, NEW p \in Params, ReadId(p)
  PROVE  CommandType /\ SeekTold /\ Explained /\ Authorised
<1>1. CASE ~DriveA(p)
  BY <1>1, NotFoundStep DEF ReadId
<1>2. CASE DriveA(p)
  <2> DEFINE head == (p[0] \div 4) % 2
  <2>1. /\ fdc_results' = <<32, 0, 0, fdc_current_cyl, head, 1, 2>>
        /\ irq6' = TRUE
        /\ copied' = <<>>
        /\ UNCHANGED <<dmaVars, seekVars, fdc_reset_senses>>
    BY <1>2 DEF ReadId, Answer
  <2>2. head \in 0 .. 255
    BY DEF Params
  <2> HIDE DEF head
  <2>3. 32 \in 0 .. 255 /\ 0 \in 0 .. 255 /\ 1 \in 0 .. 255 /\ 2 \in 0 .. 255
    OBVIOUS
  <2>4. fdc_current_cyl \in 0 .. 255
    BY DEF Invariant, TypeOK
  <2>5. /\ <<32, 0, 0, fdc_current_cyl, head, 1, 2>> \in Seq(0 .. 255)
        /\ Len(<<32, 0, 0, fdc_current_cyl, head, 1, 2>>) = 7
        /\ <<32, 0, 0, fdc_current_cyl, head, 1, 2>> # <<>>
    BY <2>2, <2>3, <2>4, SevenResult, ZenonT(90)
  <2>6. CommandType
    BY <2>1, <2>5 DEF CommandType, Invariant, TypeOK, DmaTypeOK, dmaVars, seekVars, SeekKnown
  <2>7. QED
    BY <2>1, <2>5, <2>6 DEF SeekTold, Explained, Authorised, seekVars
<1>3. QED
  BY <1>1, <1>2

\* Specify, and a command byte that names no command.
LEMMA QuietStep ==
  ASSUME Invariant, Specify \/ Invalid
  PROVE  CommandType /\ SeekTold /\ Explained /\ Authorised
<1>1. <<>> \in Seq(0 .. 255) /\ Len(<<>>) = 0
  OBVIOUS
<1>2. 128 \in 0 .. 255 /\ 0 \in 0 .. 255
  OBVIOUS
<1>3. <<128, 0>> \in Seq(0 .. 255) /\ Len(<<128, 0>>) <= 7
  BY <1>2, PairResult
<1>4. fdc_results' \in Seq(0 .. 255) /\ Len(fdc_results') <= 7
  <2>1. CASE Specify
    BY <1>1, <2>1 DEF Specify, Quiet
  <2>2. CASE Invalid
    <3>1. fdc_results' = <<128, 0>>
      BY <2>2 DEF Invalid
    <3>2. QED
      BY <1>3, <3>1
  <2>3. QED
    BY <2>1, <2>2
<1>5. UNCHANGED <<dmaVars, seekVars, fdc_reset_senses>> /\ irq6' = FALSE /\ copied' = <<>>
  BY DEF Specify, Quiet, Invalid, Silent
<1>6. CommandType
  BY <1>4, <1>5 DEF CommandType, Invariant, TypeOK, DmaTypeOK, dmaVars, seekVars, SeekKnown
<1>7. QED
  BY <1>5, <1>6 DEF SeekTold, Explained, Authorised, seekVars

----------------------------------------------------------------------------
(***************************************************************************)
(* READ DATA.                                                              *)
(***************************************************************************)
\* The i-th sector goes i sectors behind the first, modulo a word, and the
\* channel's address moves in the same way.
LEMMA Consecutive ==
  ASSUME DmaTypeOK, NEW i \in Int
  PROVE  /\ (DestAt(i) - DestAt(0)) % (Base * Base) = (i * Sector) % (Base * Base)
         /\ (AddrAt(i) - dma_channel2_addr) % (Base * Base) = (i * Sector) % (Base * Base)
<1> DEFINE W == Base * Base
           a == dma_channel2_addr
           x == i * Sector
           high == (dma_channel2_page % 16) * Base * Base
<1>1. W \in Nat \ {0} /\ Sector \in Int /\ x \in Int
  BY DmaAssumption DEF Sector
<1>2. a \in 0 .. W - 1 /\ a % W = a
  BY <1>1 DEF DmaTypeOK, Word
<1>3. high \in Int
  BY DmaAssumption DEF DmaTypeOK
<1>4. AddrAt(i) = (a + x) % W
  BY DEF AddrAt
<1>5. AddrAt(0) = a
  <2>1. 0 * Sector = 0
    BY <1>1
  <2>2. a + 0 * Sector = a
    BY <1>2, <2>1
  <2>3. QED
    BY <1>2, <2>2 DEF AddrAt
<1>6. (((a + x) % W) - (a % W)) % W = x % W
  BY <1>1, <1>2, ModShift
<1>7. (a + x) % W \in Int
  BY <1>1, <1>2
<1>8. DestAt(i) = high + AddrAt(i) /\ DestAt(0) = high + AddrAt(0)
  BY DEF DestAt
<1> HIDE DEF high, x, a, W
<1>9. DestAt(i) - DestAt(0) = ((a + x) % W) - a
  BY <1>2, <1>3, <1>4, <1>5, <1>7, <1>8
<1>10. QED
  BY <1>2, <1>4, <1>6, <1>9 DEF W, x, a

\* The command as a whole: refused at once, or copied as far as the channel goes.
LEMMA ReadDataStep ==
  ASSUME Invariant, NEW p \in Params, ReadData(p)
  PROVE  /\ CommandType /\ SeekTold /\ Explained /\ Authorised
         /\ Told(p)
<1>1. CASE ~(DriveA(p) /\ Addressable(p) /\ Wanted(p) > 0)
  BY <1>1, NotFoundStep DEF ReadData
<1>2. CASE DriveA(p) /\ Addressable(p) /\ Wanted(p) > 0
  <2> DEFINE n == Wanted(p)
             k == Moved(n)
             first == FirstSector(p)
  <2>1. \A i \in 0 .. 7 : p[i] \in 0 .. 255
    BY DEF Params
  <2>2. n \in Nat /\ n > 0
    <3>1. p[3] \in 0 .. 255 /\ p[5] \in 0 .. 255
      BY <2>1
    <3>2. n = p[5] - p[3] + 1
      BY DEF Wanted
    <3>3. n > 0
      BY <1>2
    <3> HIDE DEF n
    <3>4. QED
      BY <3>1, <3>2, <3>3
  <2>3. k \in 0 .. n /\ \A i \in 0 .. k - 1 : Accepts(i)
    BY <2>2, MovedFacts
  <2>4. /\ copied' = Copies(p, k)
        /\ Advance(k)
        /\ Answer(ReadResultBytes(p, k))
        /\ UNCHANGED <<seekVars, fdc_reset_senses>>
    BY <1>2 DEF ReadData
  <2>5. first \in Int
    <3>1. p[1] \in Int /\ p[2] \in Int /\ p[3] \in Int
      BY <2>1
    <3>2. SECTORS_PER_TRACK \in Int /\ HEADS_PER_CYLINDER \in Int
      BY FdcAssumption
    <3>3. p[1] * SECTORS_PER_TRACK \in Int
      BY <3>1, <3>2
    <3>4. p[1] * SECTORS_PER_TRACK * HEADS_PER_CYLINDER \in Int
      BY <3>2, <3>3
    <3>5. (p[2] % 2) * SECTORS_PER_TRACK \in Int
      BY <3>1, <3>2
    <3>6. QED
      BY <3>1, <3>4, <3>5 DEF FirstSector
  <2> HIDE DEF k, first
  <2>6. copied' = [i \in 1 .. k |-> [sector |-> first + i - 1, dest |-> DestAt(i - 1)]]
    BY <2>4 DEF Copies, first
  <2>7. Len(copied') = k /\ (k = 0 => copied' = <<>>)
    BY <2>3, <2>6
  <2>8. fdc_results' = ReadResultBytes(p, k) /\ irq6' = TRUE
    BY <2>4 DEF Answer
  <2>9. /\ fdc_results' \in Seq(0 .. 255)
        /\ Len(fdc_results') <= 7
        /\ fdc_results' # <<>>
        /\ fdc_results'[1] = IF k = n THEN 32 ELSE 64
    <3>1. /\ 64 \in 0 .. 255 /\ 32 \in 0 .. 255 /\ 4 \in 0 .. 255 /\ 0 \in 0 .. 255
          /\ p[1] \in 0 .. 255 /\ p[2] \in 0 .. 255 /\ p[3] \in 0 .. 255
          /\ p[4] \in 0 .. 255
      BY <2>1
    <3>2. CASE k = n
      <4>1. fdc_results' = <<32, 0, 0, p[1], p[2], p[3], p[4]>>
        BY <2>8, <3>2 DEF ReadResultBytes, n
      <4>2. /\ <<32, 0, 0, p[1], p[2], p[3], p[4]>> \in Seq(0 .. 255)
            /\ Len(<<32, 0, 0, p[1], p[2], p[3], p[4]>>) = 7
            /\ <<32, 0, 0, p[1], p[2], p[3], p[4]>> # <<>>
            /\ <<32, 0, 0, p[1], p[2], p[3], p[4]>>[1] = 32
        BY <3>1, SevenResult, ZenonT(90)
      <4>3. QED
        BY <3>2, <4>1, <4>2
    <3>3. CASE k # n
      <4>1. fdc_results' = <<64, 4, 0, p[1], p[2], p[3], p[4]>>
        BY <2>8, <3>3 DEF ReadResultBytes, NotFoundResult, n
      <4>2. /\ <<64, 4, 0, p[1], p[2], p[3], p[4]>> \in Seq(0 .. 255)
            /\ Len(<<64, 4, 0, p[1], p[2], p[3], p[4]>>) = 7
            /\ <<64, 4, 0, p[1], p[2], p[3], p[4]>> # <<>>
            /\ <<64, 4, 0, p[1], p[2], p[3], p[4]>>[1] = 64
        BY <3>1, SevenResult, ZenonT(90)
      <4>3. QED
        BY <3>3, <4>1, <4>2
    <3>4. QED
      BY <3>2, <3>3
  <2>10. DmaTypeOK /\ k \in Int
    BY <2>3 DEF Invariant, TypeOK
  <2>11. dma_channel2_addr' = AddrAt(k) /\ DmaTypeOK'
    BY <2>4, <2>10, RegistersAt DEF Advance, DmaTypeOK
  <2>12. CommandType
    BY <2>4, <2>8, <2>9, <2>11 DEF CommandType, Invariant, TypeOK, seekVars, SeekKnown
  <2>13. SeekTold /\ Explained
    BY <2>4, <2>9 DEF SeekTold, Explained, seekVars
  <2>14. Authorised
    <3>1. SUFFICES ASSUME copied' # <<>>
                   PROVE  /\ fdc_selected_drive = 0
                          /\ ~dma_channel2_masked
                          /\ dma_channel2_count >= Sector - 1
      BY DEF Authorised
    <3>2. Accepts(0)
      BY <2>3, <2>7, <3>1
    <3>3. QED
      BY <1>2, <2>10, <3>2, RegistersAt DEF DriveA, Accepts
  <2>15. Told(p)
    <3>1. ASSUME k = n PROVE Whole(p, copied')
      <4>1. ASSUME NEW i \in 1 .. k
            PROVE  /\ copied'[i].sector = copied'[1].sector + i - 1
                   /\ (copied'[i].dest - copied'[1].dest) % (Base * Base)
                        = ((i - 1) * Sector) % (Base * Base)
        <5>1. i - 1 \in Int /\ 1 \in 1 .. k
          BY <2>3
        <5>2. /\ copied'[i].sector = first + i - 1
              /\ copied'[i].dest = DestAt(i - 1)
              /\ copied'[1].sector = first
              /\ copied'[1].dest = DestAt(0)
          BY <2>5, <2>6, <5>1
        <5>3. QED
          BY <2>5, <2>10, <5>1, <5>2, Consecutive
      <4>2. QED
        BY <2>7, <3>1, <4>1 DEF Whole, n
    <3>2. (dma_channel2_addr' - dma_channel2_addr) % (Base * Base)
            = (Len(copied') * Sector) % (Base * Base)
      BY <2>7, <2>10, <2>11, Consecutive
    <3>3. ASSUME k # n PROVE Len(copied') < Wanted(p)
      BY <2>2, <2>3, <2>7, <3>3 DEF n
    <3>4. QED
      BY <2>9, <3>1, <3>2, <3>3 DEF Told
  <2>16. QED
    BY <2>12, <2>13, <2>14, <2>15
<1>3. QED
  BY <1>1, <1>2

----------------------------------------------------------------------------
(***************************************************************************)
(* The actions.                                                            *)
(***************************************************************************)
\* Any command, after its last parameter.
LEMMA ExecuteStep ==
  ASSUME Invariant, NEW c \in 0 .. 31, NEW p \in Params, Execute(c, p)
  PROVE  CommandFacts(c, p)
<1>1. CASE c = 3 /\ Specify
  BY <1>1, QuietStep DEF CommandFacts
<1>2. CASE c = 7 /\ Recalibrate(p)
  <2>1. CASE DriveA(p)
    <3>1. MoveTo(0) /\ 0 \in 0 .. 255
      BY <1>2, <2>1 DEF Recalibrate
    <3>2. QED
      BY <1>2, <3>1, MoveStep DEF CommandFacts
  <2>2. CASE ~DriveA(p)
    BY <1>2, <2>2, NotFoundStep DEF CommandFacts, Recalibrate
  <2>3. QED
    BY <2>1, <2>2
<1>3. CASE c = 8 /\ (SenseReset \/ SensePending)
  BY <1>3, SenseStep DEF CommandFacts
<1>4. CASE c = 15 /\ Seek(p)
  <2>1. CASE DriveA(p)
    <3>1. MoveTo(p[1]) /\ p[1] \in 0 .. 255
      BY <1>4, <2>1 DEF Seek, Params
    <3>2. QED
      BY <1>4, <3>1, MoveStep DEF CommandFacts
  <2>2. CASE ~DriveA(p)
    BY <1>4, <2>2, NotFoundStep DEF CommandFacts, Seek
  <2>3. QED
    BY <2>1, <2>2
<1>5. CASE c \in {5, 6} /\ ReadData(p)
  BY <1>5, ReadDataStep DEF CommandFacts
<1>6. CASE c = 10 /\ ReadId(p)
  BY <1>6, ReadIdStep DEF CommandFacts
<1>7. CASE c \notin {3, 5, 6, 7, 8, 10, 15} /\ Invalid
  BY <1>7, QuietStep DEF CommandFacts
<1>8. QED
  BY <1>1, <1>2, <1>3, <1>4, <1>5, <1>6, <1>7 DEF Execute

\* What each of the four action properties asks of one step.
StepSeekTold ==
  fdc_pending_st0 = 32 /\ fdc_pending_st0' # 32 =>
    \/ fdc_results' = <<32, fdc_current_cyl>>
    \/ ~Bit(fdc_dor, 2) /\ Bit(fdc_dor', 2)

StepReadTold ==
  fdc_expected = 8 /\ fdc_expected' = 0 => Told(fdc_params')

StepFacts ==
  Invariant' /\ StepSeekTold /\ Explained /\ Authorised /\ StepReadTold

\* A write of port 3F2h.
LEMMA DorStep ==
  ASSUME Invariant, NEW b \in DorBytes, WriteDor(b)
  PROVE  StepFacts
<1>1. b \in 0 .. 255 /\ b % 4 \in 0 .. 3
  BY FdcAssumption
<1>2. <<>> \in Seq(0 .. 255) /\ Len(<<>>) = 0
  OBVIOUS
<1>3. fdc_dor' = b /\ fdc_selected_drive' = b % 4 /\ UNCHANGED dmaVars
  BY DEF WriteDor
<1>4. DmaTypeOK'
  BY <1>3 DEF Invariant, TypeOK, DmaTypeOK, dmaVars
<1>5. CASE Bit(b, 2) /\ ~Bit(fdc_dor, 2)
  <2>1. ResetFdc
    BY <1>5 DEF WriteDor
  <2>2. Invariant'
    BY <1>1, <1>2, <1>3, <1>4, <2>1
       DEF ResetFdc, Invariant, TypeOK, PhasesExclusive, CommandKnown, SeekKnown
  <2>3. StepSeekTold
    BY <1>3, <1>5 DEF StepSeekTold
  <2>4. Explained /\ Authorised /\ StepReadTold
    BY <2>1 DEF ResetFdc, Explained, Authorised, StepReadTold, Told
  <2>5. QED
    BY <2>2, <2>3, <2>4 DEF StepFacts
<1>6. CASE ~(Bit(b, 2) /\ ~Bit(fdc_dor, 2))
  <2>1. /\ irq6' = FALSE /\ copied' = <<>>
        /\ UNCHANGED <<seekVars, inputVars, fdc_results, fdc_reset_senses>>
    BY <1>6 DEF WriteDor, Silent
  <2>2. Invariant'
    BY <1>1, <1>3, <1>4, <2>1
       DEF Invariant, TypeOK, PhasesExclusive, CommandKnown, SeekKnown, seekVars, inputVars
  <2>3. QED
    BY <2>1, <2>2 DEF StepFacts, StepSeekTold, Explained, Authorised, StepReadTold,
                      seekVars, inputVars
<1>7. QED
  BY <1>5, <1>6

\* A read of port 3F5h.
LEMMA ReadResultStep ==
  ASSUME Invariant, ReadResult
  PROVE  StepFacts
<1>1. /\ fdc_results \in Seq(0 .. 255) /\ fdc_results # <<>>
      /\ Len(fdc_results) <= 7
      /\ fdc_results' = Tail(fdc_results)
      /\ irq6' = FALSE /\ copied' = <<>>
      /\ UNCHANGED <<dmaVars, seekVars, unitVars, inputVars, fdc_reset_senses>>
  BY DEF ReadResult, Silent, Invariant, TypeOK
<1>2. fdc_results' \in Seq(0 .. 255) /\ Len(fdc_results') <= 7
  BY <1>1, HeadTailProperties, LenProperties
<1>3. fdc_expected = 0
  BY <1>1 DEF Invariant, PhasesExclusive, TypeOK
<1>4. DmaTypeOK'
  BY <1>1 DEF Invariant, TypeOK, DmaTypeOK, dmaVars
<1>5. Invariant'
  BY <1>1, <1>2, <1>3, <1>4
     DEF Invariant, TypeOK, PhasesExclusive, CommandKnown, SeekKnown, seekVars, inputVars,
         unitVars
<1>6. QED
  BY <1>1, <1>3, <1>5 DEF StepFacts, StepSeekTold, Explained, Authorised, StepReadTold,
                          seekVars

\* Only the two data commands expect eight parameters.
LEMMA ParametersRange ==
  \A c \in 0 .. 31 : /\ Parameters(c) \in {0, 1, 2, 8}
                     /\ Parameters(c) = 8 => c \in {5, 6}
BY DEF Parameters

\* A command byte.
LEMMA BeginStep ==
  ASSUME Invariant, NEW b \in CommandBytes, Begin(b)
  PROVE  StepFacts
<1> DEFINE c == b % 32
<1>1. c \in 0 .. 31
  BY FdcAssumption
<1>2. /\ fdc_expected = 0 /\ fdc_command' = c /\ fdc_param_index' = 0
      /\ UNCHANGED <<fdc_params, unitVars>>
  BY DEF Begin
<1>3. fdc_params \in Params
  BY DEF Invariant, TypeOK, Params
<1>4. CASE Parameters(c) = 0
  <2>1. Execute(c, fdc_params) /\ fdc_expected' = 0
    BY <1>4 DEF Begin
  <2> HIDE DEF c
  <2>2. CommandFacts(c, fdc_params)
    BY <1>1, <1>3, <2>1, ExecuteStep
  <2>3. CommandType /\ SeekTold /\ Explained /\ Authorised
    BY <2>2 DEF CommandFacts
  <2>4. Invariant'
    BY <1>1, <1>2, <2>1, <2>3
       DEF Invariant, TypeOK, PhasesExclusive, CommandKnown, CommandType, unitVars
  <2>5. StepSeekTold /\ StepReadTold
    BY <1>2, <2>3 DEF StepSeekTold, StepReadTold, SeekTold
  <2>6. QED
    BY <2>3, <2>4, <2>5 DEF StepFacts
<1>5. CASE Parameters(c) # 0
  <2>1. /\ fdc_expected' = Parameters(c)
        /\ fdc_results' = <<>> /\ irq6' = FALSE /\ copied' = <<>>
        /\ UNCHANGED <<dmaVars, seekVars, fdc_reset_senses>>
    BY <1>5 DEF Begin, Quiet, Silent
  <2> HIDE DEF c
  <2>2. Parameters(c) \in 1 .. 8
    BY <1>1, <1>5, ParametersRange
  <2>3. <<>> \in Seq(0 .. 255) /\ Len(<<>>) = 0
    OBVIOUS
  <2>4. DmaTypeOK'
    BY <2>1 DEF Invariant, TypeOK, DmaTypeOK, dmaVars
  <2>5. CommandKnown'
    <3>1. fdc_expected' = Parameters(fdc_command')
      BY <1>2, <2>1
    <3>2. QED
      BY <3>1 DEF CommandKnown, Parameters
  <2>6. Invariant'
    <3>1. /\ fdc_expected' \in 0 .. 8 /\ fdc_param_index' \in 0 .. 8
          /\ fdc_param_index' < fdc_expected'
      BY <1>2, <2>1, <2>2
    <3>2. TypeOK'
      <4>1. fdc_command' \in 0 .. 31 /\ fdc_params' \in [0 .. 7 -> 0 .. 255]
        BY <1>1, <1>2 DEF Invariant, TypeOK
      <4>2. irq6' \in BOOLEAN
        BY <2>1
      <4>3. fdc_results' \in Seq(0 .. 255) /\ Len(fdc_results') <= 7
        BY <2>1, <2>3
      <4>4. UNCHANGED <<seekVars, unitVars, fdc_reset_senses>>
        BY <1>2, <2>1
      <4>5. QED
        BY <2>4, <3>1, <4>1, <4>2, <4>3, <4>4 DEF Invariant, TypeOK, seekVars, unitVars
    <3>3. (PhasesExclusive /\ SeekKnown)'
      BY <2>1 DEF Invariant, PhasesExclusive, SeekKnown, seekVars
    <3>4. QED
      BY <2>5, <3>2, <3>3 DEF Invariant
  <2>7. QED
    BY <1>2, <2>1, <2>6 DEF StepFacts, StepSeekTold, Explained, Authorised, StepReadTold,
                            seekVars
<1>6. QED
  BY <1>4, <1>5

\* A parameter byte.
LEMMA ParameterStep ==
  ASSUME Invariant, NEW b \in ParamBytes[fdc_param_index % 8], Parameter(b)
  PROVE  StepFacts
<1> DEFINE p == NextParameter(b)
           c == fdc_command
<1>1. /\ fdc_expected \in 1 .. 8 /\ fdc_param_index \in 0 .. 7
      /\ fdc_param_index < fdc_expected
  BY DEF Invariant, TypeOK, Parameter
<1>2. b \in 0 .. 255
  BY <1>1, FdcAssumption
<1>3. p \in Params
  BY <1>1, <1>2 DEF Invariant, TypeOK, Params, NextParameter
<1>4. /\ fdc_params' = p /\ fdc_param_index' = fdc_param_index + 1
      /\ UNCHANGED <<fdc_command, unitVars>>
  BY DEF Parameter
<1>5. c \in 0 .. 31 /\ (fdc_expected = 8 => c \in {5, 6})
  <2>1. c \in 0 .. 31
    BY DEF Invariant, TypeOK
  <2>2. fdc_expected = Parameters(c)
    BY <1>1 DEF Invariant, CommandKnown
  <2> HIDE DEF c
  <2>3. QED
    BY <2>1, <2>2, ParametersRange
<1>6. CASE LastParameter
  <2>1. Execute(c, p) /\ fdc_expected' = 0
    BY <1>6 DEF Parameter
  <2> HIDE DEF p
  <2>2. CommandFacts(c, p)
    BY <1>3, <1>5, <2>1, ExecuteStep
  <2>3. /\ CommandType /\ SeekTold /\ Explained /\ Authorised
        /\ c \in {5, 6} => Told(p)
    BY <2>2 DEF CommandFacts
  <2>4. Invariant'
    BY <1>1, <1>3, <1>4, <1>5, <2>1, <2>3
       DEF Invariant, TypeOK, PhasesExclusive, CommandKnown, CommandType, unitVars, Params
  <2>5. StepSeekTold
    BY <2>3 DEF StepSeekTold, SeekTold
  <2>6. StepReadTold
    BY <1>4, <1>5, <2>3 DEF StepReadTold
  <2>7. QED
    BY <2>3, <2>4, <2>5, <2>6 DEF StepFacts
<1>7. CASE ~LastParameter
  <2>1. /\ irq6' = FALSE /\ copied' = <<>>
        /\ UNCHANGED <<dmaVars, seekVars, fdc_expected, fdc_results, fdc_reset_senses>>
    BY <1>7 DEF Parameter, Silent
  <2>2. fdc_param_index' < fdc_expected'
    BY <1>1, <1>4, <1>7, <2>1 DEF LastParameter
  <2>3. DmaTypeOK'
    BY <2>1 DEF Invariant, TypeOK, DmaTypeOK, dmaVars
  <2> HIDE DEF p
  <2>4. Invariant'
    <3>1. fdc_param_index' \in 0 .. 8
      BY <1>1, <1>4
    <3>2. fdc_params' \in [0 .. 7 -> 0 .. 255]
      BY <1>3, <1>4 DEF Params
    <3>3. TypeOK'
      BY <1>4, <2>1, <2>2, <2>3, <3>1, <3>2 DEF Invariant, TypeOK, seekVars, unitVars
    <3>4. (PhasesExclusive /\ CommandKnown /\ SeekKnown)'
      BY <1>4, <2>1
         DEF Invariant, PhasesExclusive, CommandKnown, SeekKnown, seekVars
    <3>5. QED
      BY <3>3, <3>4 DEF Invariant
  <2>5. QED
    BY <1>1, <2>1, <2>4 DEF StepFacts, StepSeekTold, Explained, Authorised, StepReadTold,
                            seekVars
<1>8. QED
  BY <1>6, <1>7

\* A write of a channel register.
LEMMA DmaStep ==
  ASSUME Invariant, OutDma
  PROVE  StepFacts
<1>1. irq6' = FALSE /\ copied' = <<>> /\ UNCHANGED fdcVars
  BY DEF OutDma, Silent
<1>2. DmaTypeOK'
  <2>0. DmaTypeOK
    BY DEF Invariant, TypeOK
  <2>1. ASSUME NEW b \in RegisterBytes, WriteAddr(b) \/ WriteCount(b) PROVE DmaTypeOK'
    <3>1. b \in Byte
      BY DmaAssumption
    <3>2. Half(dma_channel2_addr, b) \in Word /\ Half(dma_channel2_count, b) \in Word
      BY <2>0, <3>1, HalfType DEF DmaTypeOK
    <3>3. QED
      BY <2>0, <2>1, <3>2 DEF DmaTypeOK, WriteAddr, WriteCount
  <2>2. ASSUME NEW b \in MaskBytes, WriteMask(b) PROVE DmaTypeOK'
    BY <2>0, <2>2 DEF DmaTypeOK, WriteMask, Bit
  <2>3. CASE ClearFlipFlop
    BY <2>0, <2>3 DEF DmaTypeOK, ClearFlipFlop
  <2>4. CASE MasterClear
    <3>1. 0 \in Word
      BY DmaAssumption DEF Word
    <3>2. dma_channel2_addr' \in Word /\ dma_channel2_count' \in Word
      BY <2>4, <3>1 DEF MasterClear
    <3>3. dma_channel2_page' \in 0 .. 255
      BY <2>4 DEF MasterClear
    <3>4. dma_channel2_masked' \in BOOLEAN /\ dma_flipflop' \in BOOLEAN
      BY <2>4 DEF MasterClear
    <3>5. QED
      BY <3>2, <3>3, <3>4 DEF DmaTypeOK
  <2>5. ASSUME NEW b \in PageBytes, WritePage(b) PROVE DmaTypeOK'
    <3>1. b \in 0 .. 255
      BY DmaAssumption
    <3>2. dma_channel2_page' \in 0 .. 255
      BY <2>5, <3>1 DEF WritePage
    <3>3. UNCHANGED <<dma_channel2_addr, dma_channel2_count, dma_channel2_masked,
                      dma_flipflop>>
      BY <2>5 DEF WritePage
    <3>4. QED
      BY <2>0, <3>2, <3>3 DEF DmaTypeOK
  <2>6. QED
    BY <2>1, <2>2, <2>3, <2>4, <2>5 DEF OutDma, WriteDma
<1>3. Invariant'
  BY <1>1, <1>2 DEF Invariant, TypeOK, PhasesExclusive, CommandKnown, SeekKnown, fdcVars,
                    seekVars, unitVars, inputVars
<1>4. QED
  BY <1>1, <1>3 DEF StepFacts, StepSeekTold, Explained, Authorised, StepReadTold, Invariant,
                    TypeOK, fdcVars, seekVars, inputVars

----------------------------------------------------------------------------
\* fdc_reset and dma_reset establish the invariant.
LEMMA InitInvariant == Init => Invariant
<1> SUFFICES ASSUME Init PROVE Invariant
  OBVIOUS
<1>1. 0 \in Word
  BY DmaAssumption DEF Word
<1>2. <<>> \in Seq(0 .. 255) /\ Len(<<>>) = 0
  OBVIOUS
<1>3. DmaTypeOK
  <2>1. /\ dma_channel2_addr = 0 /\ dma_channel2_count = 0 /\ dma_channel2_page = 0
        /\ dma_channel2_masked = TRUE /\ dma_flipflop = FALSE
    BY DEF Init, DmaInit
  <2>2. dma_channel2_addr \in Word /\ dma_channel2_count \in Word
    BY <1>1, <2>1
  <2>3. dma_channel2_page \in 0 .. 255
    BY <2>1
  <2>4. dma_channel2_masked \in BOOLEAN /\ dma_flipflop \in BOOLEAN
    BY <2>1
  <2>5. QED
    BY <2>2, <2>3, <2>4 DEF DmaTypeOK
<1>4. [i \in 0 .. 7 |-> 0] \in [0 .. 7 -> 0 .. 255]
  OBVIOUS
<1>5. TypeOK
  <2>1. /\ fdc_dor \in 0 .. 255 /\ fdc_command \in 0 .. 31
        /\ fdc_expected = 0 /\ fdc_param_index \in 0 .. 8
        /\ fdc_pending_st0 \in 0 .. 255 /\ fdc_pending_cyl \in 0 .. 255
        /\ fdc_reset_senses \in 0 .. 4 /\ fdc_current_cyl \in 0 .. 255
        /\ fdc_selected_drive \in 0 .. 3
    BY DEF Init
  <2>2. fdc_params \in [0 .. 7 -> 0 .. 255] /\ irq6 \in BOOLEAN
    BY <1>4 DEF Init
  <2>3. fdc_results \in Seq(0 .. 255) /\ Len(fdc_results) <= 7
    BY <1>2 DEF Init
  <2>4. QED
    BY <1>3, <2>1, <2>2, <2>3 DEF TypeOK
<1>6. PhasesExclusive /\ CommandKnown /\ SeekKnown
  BY DEF Init, PhasesExclusive, CommandKnown, SeekKnown
<1>7. QED
  BY <1>5, <1>6 DEF Invariant

\* Every step.
LEMMA NextStep ==
  ASSUME Invariant, Next
  PROVE  StepFacts
BY DorStep, ReadResultStep, BeginStep, ParameterStep, DmaStep DEF Next, WriteData

\* Nothing changes.
LEMMA Stutter ==
  ASSUME Invariant, UNCHANGED vars
  PROVE  Invariant'
<1>1. DmaTypeOK'
  BY DEF Invariant, TypeOK, DmaTypeOK, vars, dmaVars
<1>2. QED
  BY <1>1 DEF Invariant, TypeOK, PhasesExclusive, CommandKnown, SeekKnown, vars, fdcVars,
              seekVars, unitVars, inputVars

\* The invariant holds for ever.
LEMMA Invariance == Spec => []Invariant
<1>1. Invariant /\ [Next]_vars => Invariant'
  BY NextStep, Stutter DEF StepFacts
<1>2. QED
  BY <1>1, InitInvariant, PTL DEF Spec

(***************************************************************************)
(* Registers keep their ranges and the parameter index its buffer          *)
(* (fdc_write_data), whatever the guest writes.                            *)
(***************************************************************************)
THEOREM TypeCorrect == Spec => []TypeOK
<1>1. Invariant => TypeOK
  BY DEF Invariant
<1>2. QED
  BY <1>1, Invariance, PTL

(***************************************************************************)
(* The phases that the main status register shows exclude each other.      *)
(***************************************************************************)
THEOREM Phases == Spec => []PhasesExclusive
<1>1. Invariant => PhasesExclusive
  BY DEF Invariant
<1>2. QED
  BY <1>1, Invariance, PTL

(***************************************************************************)
(* A seek end goes only by a SENSE that tells where the head is, or by a   *)
(* reset (fdc_process_sense, fdc_reset).                                   *)
(***************************************************************************)
THEOREM SeekEnds == Spec => SeekEndTold
<1>1. Invariant /\ [Next]_vars =>
        [fdc_pending_st0 = 32 /\ fdc_pending_st0' # 32 =>
           \/ fdc_results' = <<32, fdc_current_cyl>>
           \/ ~Bit(fdc_dor, 2) /\ Bit(fdc_dor', 2)]_vars
  BY NextStep DEF StepFacts, StepSeekTold
<1>2. QED
  BY <1>1, Invariance, PTL DEF Spec, SeekEndTold

(***************************************************************************)
(* Whoever takes IRQ 6 finds its reason (the callers of pic_request_irq    *)
(* in fdc.s).                                                              *)
(***************************************************************************)
THEOREM Interrupts == Spec => InterruptExplained
<1>1. Invariant /\ [Next]_vars =>
        [irq6' => \/ fdc_results' # <<>>
                  \/ fdc_pending_st0' # 0
                  \/ fdc_reset_senses' > 0]_vars
  BY NextStep DEF StepFacts, Explained
<1>2. QED
  BY <1>1, Invariance, PTL DEF Spec, InterruptExplained

(***************************************************************************)
(* A normal result means that every sector was copied, consecutive sectors *)
(* to consecutive addresses, for every geometry and width                  *)
(* (fdc_process_read_data, dma_channel2_read_from_reu).                    *)
(***************************************************************************)
THEOREM Reads == Spec => ReadTold
<1>1. Invariant /\ [Next]_vars =>
        [fdc_expected = 8 /\ fdc_expected' = 0 /\ fdc_results' # <<>> =>
           IF fdc_results'[1] = 32
             THEN /\ Whole(fdc_params', copied')
                  /\ (dma_channel2_addr' - dma_channel2_addr) % (Base * Base)
                       = (Len(copied') * Sector) % (Base * Base)
             ELSE Len(copied') < Wanted(fdc_params') \/ copied' = <<>>]_vars
  BY NextStep DEF StepFacts, StepReadTold, Told
<1>2. QED
  BY <1>1, Invariance, PTL DEF Spec, ReadTold

(***************************************************************************)
(* Memory changes only on behalf of drive A, through an unmasked channel   *)
(* with room for a sector (dma_channel2_read_from_reu's test).             *)
(***************************************************************************)
THEOREM Copying == Spec => CopiesAuthorised
<1>1. Invariant /\ [Next]_vars =>
        [copied' # <<>> => /\ fdc_selected_drive = 0
                           /\ ~dma_channel2_masked
                           /\ dma_channel2_count >= Sector - 1]_vars
  BY NextStep DEF StepFacts, Authorised
<1>2. QED
  BY <1>1, Invariance, PTL DEF Spec, CopiesAuthorised
=============================================================================
