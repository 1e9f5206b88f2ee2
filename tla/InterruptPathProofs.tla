------------------------ MODULE InterruptPathProofs ------------------------
(***************************************************************************)
(* For every set of lines and of bytes the guest may write: the registers  *)
(* keep their ranges, a latched interrupt is never overwritten, every      *)
(* request is accounted for, and the controller leaves nothing deliverable *)
(* behind.  TypeOK is inductive on its own, so the three action properties *)
(* follow from it step by step.                                            *)
(*                                                                         *)
(* For every width of a byte and every way the guest programs it, the      *)
(* interval timer of pit.s, which counts in pairs of bytes, implements the *)
(* word counters of Timer.  The invariant is PitTypeOK and that a          *)
(* half-given count is one of the two-byte access mode; the refinement     *)
(* follows from it step by step, by way of one fact about the borrow: a    *)
(* pair that is counted down is the word less one, modulo a word.          *)
(*                                                                         *)
(* Then both together: with the two invariants, the timer keeps time while *)
(* line 0 is unmasked.                                                     *)
(***************************************************************************)
EXTENDS TimerInterrupt, TLAPS

----------------------------------------------------------------------------
\* Among the eight lines every nonempty set has a least one.
LEMMA LeastExists ==
  ASSUME NEW S \in SUBSET Irq, S # {}
  PROVE  Least(S) \in S /\ Least(S) \in Irq
<1>1. \E n \in S : \A k \in S : n <= k
  <2>1. \A n \in S : n \in {0, 1, 2, 3, 4, 5, 6, 7}
    BY DEF Irq
  <2>2. CASE 0 \in S
    BY <2>1, <2>2
  <2>3. CASE 0 \notin S /\ 1 \in S
    BY <2>1, <2>3
  <2>4. CASE 0 \notin S /\ 1 \notin S /\ 2 \in S
    BY <2>1, <2>4
  <2>5. CASE S \cap {0, 1, 2} = {} /\ 3 \in S
    BY <2>1, <2>5
  <2>6. CASE S \cap {0, 1, 2, 3} = {} /\ 4 \in S
    BY <2>1, <2>6
  <2>7. CASE S \cap {0, 1, 2, 3, 4} = {} /\ 5 \in S
    BY <2>1, <2>7
  <2>8. CASE S \cap {0, 1, 2, 3, 4, 5} = {} /\ 6 \in S
    BY <2>1, <2>8
  <2>9. CASE S \cap {0, 1, 2, 3, 4, 5, 6} = {}
    BY <2>1, <2>9
  <2>10. QED
    BY <2>2, <2>3, <2>4, <2>5, <2>6, <2>7, <2>8, <2>9
<1>2. QED
  BY <1>1 DEF Least

\* The vector of line n has n in its low three bits.
LEMMA VectorOfLine ==
  ASSUME NEW n \in Irq, NEW base \in {8 * k : k \in 0 .. 31}
  PROVE  /\ (n + base) % 256 \in 0 .. 255
         /\ ((n + base) % 256) % 8 = n
<1>1. PICK k \in 0 .. 31 : base = 8 * k
  OBVIOUS
<1>2. n \in 0 .. 7
  BY DEF Irq
<1>3. n + base \in 0 .. 255
  BY <1>1, <1>2
<1>4. (n + base) % 256 = n + base
  BY <1>3
<1>5. (n + 8 * k) % 8 = n
  BY <1>1, <1>2
<1>6. QED
  BY <1>1, <1>3, <1>4, <1>5

\* What pic_service does, whoever calls it: it may fill an empty latch with
\* an unmasked waiting line, and it loses no line.
LEMMA ServiceStep ==
  ASSUME PicTypeOK, NEW W \in SUBSET Lines, NEW M \in SUBSET Irq, Service(W, M)
  PROVE  /\ pic_pending' \subseteq Lines
         /\ pic_in_service' \subseteq Lines
         /\ cpu8088_irq_pending' \in BOOLEAN
         /\ cpu8088_irq_vector' \in 0 .. 255
         /\ cpu8088_irq_pending =>
              /\ cpu8088_irq_pending'
              /\ cpu8088_irq_vector' = cpu8088_irq_vector
              /\ pic_pending' = W
         /\ ~cpu8088_irq_pending /\ cpu8088_irq_pending' =>
              /\ cpu8088_irq_vector' % 8 \in W \ M
              /\ pic_pending' = W \ {cpu8088_irq_vector' % 8}
         /\ ~cpu8088_irq_pending' => pic_pending' = W /\ W \subseteq M
<1> DEFINE ready == Deliverable(W, M)
           n == Least(ready)
<1>1. ready \subseteq W \ M /\ ready \in SUBSET Irq
  BY PicAssumption DEF Deliverable
<1>2. CASE ready = {}
  BY <1>2 DEF Service, Deliverable, latchVars, PicTypeOK
<1>3. CASE ready # {}
  <2>1. n \in ready /\ n \in Irq
    BY <1>1, <1>3, LeastExists
  <2>2. ~cpu8088_irq_pending
    BY <1>3 DEF Deliverable
  <2>3. /\ pic_pending' = W \ {n}
        /\ pic_in_service' = pic_in_service \cup {n}
        /\ cpu8088_irq_pending' = TRUE
        /\ cpu8088_irq_vector' = (n + pic_vector_base) % 256
    BY <1>3 DEF Service, StillWaiting
  <2>4. cpu8088_irq_vector' \in 0 .. 255 /\ cpu8088_irq_vector' % 8 = n
    BY <2>1, <2>3, VectorOfLine DEF PicTypeOK
  <2>5. QED
    BY <1>1, <2>1, <2>2, <2>3, <2>4 DEF PicTypeOK
<1>4. QED
  BY <1>2, <1>3

LEMMA BitSetType == \A b : BitSet(b) \in SUBSET Irq
BY DEF BitSet

----------------------------------------------------------------------------
\* What one step may do to the controller and the latch; each conjunct of
\* the action properties reads off this.
StepFacts ==
  /\ TypeOK'
  /\ cpu8088_irq_pending /\ cpu8088_irq_pending'
       => cpu8088_irq_vector' = cpu8088_irq_vector
  /\ \A n \in pic_pending \ pic_pending' :
       n \in Latched' \/ (pic_pending' = {} /\ pic_init_step' = 1)
  /\ cpu8088_irq_pending /\ ~cpu8088_irq_pending' => EnterIrq
  /\ \A n \in Latched' \ Latched : n \notin pic_pending' /\ n \notin pic_mask'
  /\ pic_mask' # pic_mask \/ ~(pic_pending' \subseteq pic_pending)
       => cpu8088_irq_pending' \/ pic_pending' \subseteq pic_mask'

\* A device raises a line.
LEMMA RequestStep ==
  ASSUME TypeOK, NEW n \in Lines, RequestIrq(n), UNCHANGED cpuVars
  PROVE  StepFacts
<1> DEFINE W == pic_pending \cup {n}
<1>1. PicTypeOK /\ W \in SUBSET Lines /\ pic_mask \in SUBSET Irq
  BY DEF TypeOK, PicTypeOK
<1>2. Service(W, pic_mask)
  BY DEF RequestIrq
<1>3. UNCHANGED <<pic_vector_base, pic_mask, pic_init_step, pic_icw1>>
  BY DEF RequestIrq, initVars
<1>4. PicTypeOK'
  BY <1>1, <1>2, <1>3, ServiceStep DEF PicTypeOK
<1>5. TypeOK'
  BY <1>4 DEF TypeOK, cpuVars
<1> HIDE DEF W
<1>6. pic_pending \subseteq W
  BY DEF W
<1>7. QED
  BY <1>1, <1>2, <1>3, <1>5, <1>6, ServiceStep DEF StepFacts, Latched

\* The guest writes a byte to the controller.
LEMMA WriteStep ==
  ASSUME TypeOK, OutPic
  PROVE  StepFacts
<1>0. /\ PicTypeOK
      /\ PicTypeOK' => TypeOK'
  BY DEF TypeOK, OutPic
<1>1. ASSUME NEW b \in CommandBytes, WriteIcw1(b) PROVE StepFacts
  <2>1. PicTypeOK'
    BY <1>0, <1>1, PicAssumption DEF WriteIcw1, PicTypeOK, latchVars
  <2>2. QED
    BY <1>0, <1>1, <2>1 DEF WriteIcw1, StepFacts, Latched, latchVars
<1>2. ASSUME NEW b \in CommandBytes, WriteOcw(b) PROVE StepFacts
  <2>1. PicTypeOK'
    BY <1>0, <1>2 DEF WriteOcw, PicTypeOK, latchVars, initVars
  <2>2. QED
    BY <1>0, <1>2, <2>1 DEF WriteOcw, StepFacts, Latched, latchVars, initVars
<1>3. ASSUME NEW b \in DataBytes, WriteIcw2(b) PROVE StepFacts
  <2>1. b - (b % 8) \in {8 * k : k \in 0 .. 31}
    <3>1. b \in 0 .. 255
      BY PicAssumption
    <3>2. b - (b % 8) = 8 * (b \div 8) /\ b \div 8 \in 0 .. 31
      BY <3>1
    <3>3. QED
      BY <3>2
  <2>2. pic_init_step' \in 0 .. 3
    BY <1>3 DEF WriteIcw2, StepAfterIcw2, StepAfterCascade
  <2>3. PicTypeOK'
    BY <1>0, <1>3, <2>1, <2>2 DEF WriteIcw2, PicTypeOK, latchVars
  <2>4. QED
    BY <1>0, <1>3, <2>3 DEF WriteIcw2, StepFacts, Latched, latchVars
<1>4. ASSUME WriteLaterIcw PROVE StepFacts
  <2>1. pic_init_step' \in 0 .. 3
    BY <1>4 DEF WriteLaterIcw, StepAfterCascade
  <2>2. PicTypeOK'
    BY <1>0, <1>4, <2>1 DEF WriteLaterIcw, PicTypeOK, latchVars
  <2>3. QED
    BY <1>0, <1>4, <2>2 DEF WriteLaterIcw, StepFacts, Latched, latchVars
<1>5. ASSUME NEW b \in DataBytes, WriteMask(b) PROVE StepFacts
  <2>1. pic_pending \in SUBSET Lines /\ BitSet(b) \in SUBSET Irq
    BY <1>0, BitSetType DEF PicTypeOK
  <2>2. Service(pic_pending, BitSet(b)) /\ pic_mask' = BitSet(b)
        /\ UNCHANGED <<pic_vector_base, pic_init_step, pic_icw1>>
    BY <1>5 DEF WriteMask, initVars
  <2>3. PicTypeOK'
    BY <1>0, <2>1, <2>2, ServiceStep DEF PicTypeOK
  <2>4. pic_init_step' = pic_init_step /\ pic_mask' = BitSet(b)
    BY <2>2
  <2>5. /\ cpu8088_irq_pending' \in BOOLEAN
        /\ cpu8088_irq_pending =>
             /\ cpu8088_irq_pending'
             /\ cpu8088_irq_vector' = cpu8088_irq_vector
             /\ pic_pending' = pic_pending
        /\ ~cpu8088_irq_pending /\ cpu8088_irq_pending' =>
             /\ cpu8088_irq_vector' % 8 \in pic_pending \ BitSet(b)
             /\ pic_pending' = pic_pending \ {cpu8088_irq_vector' % 8}
        /\ ~cpu8088_irq_pending' =>
             pic_pending' = pic_pending /\ pic_pending \subseteq BitSet(b)
    BY <1>0, <2>1, <2>2, ServiceStep
  <2>6. TypeOK'
    BY <1>0, <2>3
  <2>7. QED
    BY <2>4, <2>5, <2>6 DEF StepFacts, Latched
<1>6. QED
  BY <1>1, <1>2, <1>3, <1>4, <1>5 DEF OutPic, WriteCommand, WriteData

\* Everything else leaves the controller alone, and the latch too but for the
\* entry of the handler.
LEMMA ProcessorStep ==
  ASSUME TypeOK, Step, ~OutPic
  PROVE  StepFacts
<1>1. UNCHANGED picVars /\ cpu8088_irq_vector' = cpu8088_irq_vector
  BY DEF Step, EnterNmi, EnterIrq, StayHalted, Sti, Cli, LoadSs, Ordinary, Hlt,
     SoftwareInterrupt, latchVars
<1>2. \/ cpu8088_irq_pending' = cpu8088_irq_pending
      \/ EnterIrq /\ cpu8088_irq_pending' = FALSE
  BY DEF Step, EnterNmi, EnterIrq, StayHalted, Sti, Cli, LoadSs, Ordinary, Hlt,
     SoftwareInterrupt, latchVars
<1>3. /\ intr' \in BOOLEAN
      /\ spZero' \in BOOLEAN
      /\ cpu8088_interrupt_shadow' \in {0, 1}
      /\ cpu8088_nmi_pending' \in BOOLEAN
      /\ cpu8088_halted' \in BOOLEAN
  BY DEF TypeOK, Step, Enter, EnterNmi, EnterIrq, StayHalted, Sti, Cli, LoadSs,
     Ordinary, Hlt, SoftwareInterrupt
<1>4. PicTypeOK'
  BY <1>1, <1>2 DEF TypeOK, PicTypeOK, picVars, initVars
<1>5. UNCHANGED <<pic_mask, pic_pending, pic_init_step>>
  BY <1>1 DEF picVars, initVars
<1>6. QED
  BY <1>1, <1>2, <1>3, <1>4, <1>5 DEF StepFacts, TypeOK, Latched

LEMMA InitTypeOK == Init => TypeOK
<1>1. 8 \in {8 * k : k \in 0 .. 31}
  <2>1. 8 = 8 * 1 /\ 1 \in 0 .. 31
    OBVIOUS
  <2>2. QED
    BY <2>1
<1>2. 0 \in 0 .. 3 /\ 0 \in 0 .. 255 /\ FALSE \in BOOLEAN /\ TRUE \in BOOLEAN
  OBVIOUS
<1>3. PicInit => PicTypeOK
  BY <1>1, <1>2 DEF PicInit, PicTypeOK
<1>4. QED
  BY <1>2, <1>3 DEF Init, TypeOK

LEMMA NextFacts == TypeOK /\ [Next]_vars => StepFacts \/ UNCHANGED vars
<1> SUFFICES ASSUME TypeOK, Next PROVE StepFacts
  OBVIOUS
<1>1. CASE Step
  BY <1>1, WriteStep, ProcessorStep
<1>2. ASSUME NEW n \in Lines, RequestIrq(n) /\ UNCHANGED cpuVars PROVE StepFacts
  BY <1>2, RequestStep
<1>3. CASE /\ cpu8088_nmi_pending' = TRUE
           /\ UNCHANGED <<picVars, latchVars, intr, spZero,
                          cpu8088_interrupt_shadow, cpu8088_halted>>
  BY <1>3 DEF StepFacts, TypeOK, PicTypeOK, Latched, picVars, initVars, latchVars
<1>4. QED
  BY <1>1, <1>2, <1>3 DEF Next, Device

LEMMA TypeOKPreserved == TypeOK /\ [Next]_vars => TypeOK'
<1>1. TypeOK /\ UNCHANGED vars => TypeOK'
  BY DEF vars, picVars, initVars, latchVars, cpuVars, TypeOK, PicTypeOK
<1>2. QED
  BY <1>1, NextFacts DEF StepFacts

----------------------------------------------------------------------------
(***************************************************************************)
(* The registers of the controller and the processor keep their ranges.    *)
(***************************************************************************)
THEOREM TypeCorrect == Spec => []TypeOK
BY InitTypeOK, TypeOKPreserved, PTL DEF Spec

(***************************************************************************)
(* As long as the latch is taken its vector stays, so that no interrupt    *)
(* overwrites another on its way into the processor.                       *)
(***************************************************************************)
THEOREM NoOverwrite == Spec => LatchNotOverwritten
<1>1. TypeOK /\ [Next]_vars =>
        [cpu8088_irq_pending /\ cpu8088_irq_pending'
           => cpu8088_irq_vector' = cpu8088_irq_vector]_vars
  BY NextFacts DEF StepFacts
<1>2. QED
  BY <1>1, TypeCorrect, PTL DEF Spec, LatchNotOverwritten

(***************************************************************************)
(* A request leaves the controller only for the latch or by a              *)
(* reinitialization, leaves the latch only into the handler, and reaches   *)
(* the latch only unmasked.                                                *)
(***************************************************************************)
THEOREM NothingLost == Spec => RequestsConserved
<1>1. TypeOK /\ [Next]_vars =>
        [/\ \A n \in pic_pending \ pic_pending' :
               n \in Latched' \/ (pic_pending' = {} /\ pic_init_step' = 1)
         /\ Latched # {} /\ Latched' = {} => EnterIrq
         /\ \A n \in Latched' \ Latched :
               n \notin pic_pending' /\ n \notin pic_mask']_vars
  BY NextFacts DEF StepFacts, Latched
<1>2. QED
  BY <1>1, TypeCorrect, PTL DEF Spec, RequestsConserved

(***************************************************************************)
(* A request or a mask write leaves no deliverable line beside an empty    *)
(* latch.                                                                  *)
(***************************************************************************)
THEOREM ServedOnEvents == Spec => EventsServe
<1>1. TypeOK /\ [Next]_vars =>
        [pic_mask' # pic_mask \/ ~(pic_pending' \subseteq pic_pending)
           => cpu8088_irq_pending' \/ pic_pending' \subseteq pic_mask']_vars
  BY NextFacts DEF StepFacts
<1>2. QED
  BY <1>1, TypeCorrect, PTL DEF Spec, EventsServe
----------------------------------------------------------------------------
(***************************************************************************)
(* The timer on its own.                                                   *)
(***************************************************************************)

----------------------------------------------------------------------------
(***************************************************************************)
(* Pairs of bytes.                                                         *)
(***************************************************************************)
\* A pair of bytes is a count, and only the pair of zeros is zero.
LEMMA WordRange ==
  ASSUME NEW hi \in Byte, NEW lo \in Byte
  PROVE  /\ Word(hi, lo) \in 0 .. Base * Base - 1
         /\ Word(hi, lo) = 0 <=> hi = 0 /\ lo = 0
<1>1. Base \in Nat \ {0, 1} /\ hi \in 0 .. Base - 1 /\ lo \in 0 .. Base - 1
  BY PitAssumption DEF Byte
<1>2. hi * Base \in 0 .. (Base - 1) * Base
  BY <1>1
<1>3. (Base - 1) * Base = Base * Base - Base
  BY <1>1
<1>4. hi # 0 => hi * Base >= Base
  BY <1>1
<1>5. hi = 0 => hi * Base = 0
  BY <1>1
<1>6. QED
  BY <1>1, <1>2, <1>3, <1>4, <1>5 DEF Word

\* A byte counted down wraps from zero to the last.
LEMMA ByteLess ==
  ASSUME NEW b \in Byte
  PROVE  /\ (b - 1) % Base = (IF b = 0 THEN Base - 1 ELSE b - 1)
         /\ (b - 1) % Base \in Byte
<1>1. Base \in Nat \ {0, 1} /\ b \in 0 .. Base - 1
  BY PitAssumption DEF Byte
<1>2. CASE b = 0
  <2>1. (-1) % Base = Base - 1
    BY <1>1
  <2>2. QED
    BY <1>1, <1>2, <2>1 DEF Byte
<1>3. CASE b # 0
  <2>1. b - 1 \in 0 .. Base - 1
    BY <1>1, <1>3
  <2>2. (b - 1) % Base = b - 1
    BY <1>1, <2>1
  <2>3. QED
    BY <1>3, <2>1, <2>2 DEF Byte
<1>4. QED
  BY <1>2, <1>3

\* The borrow: the pair counted down is the word less one.
LEMMA CountedWord ==
  ASSUME NEW s \in ChannelType
  PROVE  /\ Counted(s) \in ChannelType
         /\ Word(Counted(s).count_hi, Counted(s).count_lo)
              = (Word(s.count_hi, s.count_lo) - 1) % (Base * Base)
         /\ Counted(s) = [s EXCEPT !.count_lo = Counted(s).count_lo,
                                   !.count_hi = Counted(s).count_hi]
<1> DEFINE lo == s.count_lo
           hi == s.count_hi
           k  == Counted(s)
           W  == Base * Base
<1>1. lo \in Byte /\ hi \in Byte
  BY DEF ChannelType
<1>2. Base \in Nat \ {0, 1}
  BY PitAssumption
<1>3. k = [s EXCEPT !.count_lo = (lo - 1) % Base,
                    !.count_hi = IF (lo - 1) % Base = Base - 1
                                   THEN (hi - 1) % Base ELSE hi]
  BY DEF Counted
<1>4. /\ (lo - 1) % Base \in Byte
      /\ (hi - 1) % Base \in Byte
  BY <1>1, ByteLess
<1>5. k \in ChannelType
  BY <1>1, <1>3, <1>4 DEF ChannelType
<1>6. /\ k.count_lo = (lo - 1) % Base
      /\ k.count_hi = IF (lo - 1) % Base = Base - 1 THEN (hi - 1) % Base ELSE hi
  BY <1>3 DEF ChannelType
<1> HIDE DEF lo, hi, k
<1>7. lo \in 0 .. Base - 1 /\ hi \in 0 .. Base - 1
  BY <1>1 DEF Byte
<1>8. W \in Nat \ {0} /\ (Base - 1) * Base + (Base - 1) = W - 1
  BY <1>2
<1>9. Word(k.count_hi, k.count_lo) = (Word(hi, lo) - 1) % W
  <2>1. CASE lo # 0
    <3>1. k.count_lo = lo - 1 /\ k.count_hi = hi
      BY <1>1, <1>2, <1>6, <1>7, <2>1, ByteLess
    <3>2. Word(hi, lo) \in 0 .. W - 1 /\ Word(hi, lo) # 0
      BY <1>1, <2>1, WordRange
    <3>3. Word(hi, lo) - 1 = Word(hi, lo - 1)
      <4>1. hi * Base \in Int
        BY <1>2, <1>7
      <4>2. QED
        BY <1>7, <4>1 DEF Word
    <3>4. (Word(hi, lo) - 1) % W = Word(hi, lo) - 1
      BY <1>8, <3>2
    <3>5. QED
      BY <3>1, <3>3, <3>4
  <2>2. CASE lo = 0 /\ hi # 0
    <3>1. k.count_lo = Base - 1 /\ k.count_hi = hi - 1
      BY <1>1, <1>2, <1>6, <1>7, <2>2, ByteLess
    <3>2. Word(hi, lo) \in 0 .. W - 1 /\ Word(hi, lo) # 0
      BY <1>1, <2>2, WordRange
    <3>3. Word(hi, lo) - 1 = Word(hi - 1, Base - 1)
      <4>1. (hi - 1) * Base = hi * Base - Base
        BY <1>2, <1>7
      <4>2. hi * Base \in Int
        BY <1>2, <1>7
      <4>3. QED
        BY <1>2, <2>2, <4>1, <4>2 DEF Word
    <3>4. (Word(hi, lo) - 1) % W = Word(hi, lo) - 1
      BY <1>8, <3>2
    <3>5. QED
      BY <3>1, <3>3, <3>4
  <2>3. CASE lo = 0 /\ hi = 0
    <3>1. k.count_lo = Base - 1 /\ k.count_hi = Base - 1
      BY <1>1, <1>2, <1>6, <1>7, <2>3, ByteLess
    <3>2. Word(hi, lo) = 0
      BY <1>1, <2>3, WordRange
    <3>3. Word(Base - 1, Base - 1) = W - 1
      BY <1>8 DEF Word
    <3>4. (0 - 1) % W = W - 1
      BY <1>8
    <3>5. QED
      BY <3>1, <3>2, <3>3, <3>4
  <2>4. QED
    BY <2>1, <2>2, <2>3
<1>10. QED
  BY <1>3, <1>5, <1>6, <1>9 DEF k, lo, hi

----------------------------------------------------------------------------
(***************************************************************************)
(* The counters that the channels stand for, and what the guest's accesses *)
(* do to them.                                                             *)
(***************************************************************************)
ValueOf(s)    == Word(s.count_hi, s.count_lo)
ReloadOf(s)   == Word(s.reload_hi, s.reload_lo)
PeriodicOf(s) == s.mode \in {2, 3}
SnapshotOf(s) == IF s.latched THEN Word(s.latched_hi, s.latched_lo) ELSE -1

Values    == [c \in Channels |-> ValueOf(pit[c])]
Reloads   == [c \in Channels |-> ReloadOf(pit[c])]
Runnings  == [c \in Channels |-> pit[c].running]
Periodics == [c \in Channels |-> PeriodicOf(pit[c])]
Snapshots == [c \in Channels |-> SnapshotOf(pit[c])]

\* The counters of a channel are counts.
LEMMA CountsOf ==
  ASSUME NEW s \in ChannelType
  PROVE  ValueOf(s) \in Counters!Count /\ ReloadOf(s) \in Counters!Count
<1>1. /\ s.count_hi \in Byte /\ s.count_lo \in Byte
      /\ s.reload_hi \in Byte /\ s.reload_lo \in Byte
  BY DEF ChannelType
<1>2. QED
  BY <1>1, WordRange DEF ValueOf, ReloadOf, Counters!Count

\* An access changes one counter.
LEMMA OneChannel ==
  ASSUME PitTypeOK, NEW c \in Channels, NEW s, pit' = [pit EXCEPT ![c] = s]
  PROVE  /\ Values' = [Values EXCEPT ![c] = ValueOf(s)]
         /\ Reloads' = [Reloads EXCEPT ![c] = ReloadOf(s)]
         /\ Runnings' = [Runnings EXCEPT ![c] = s.running]
         /\ Periodics' = [Periodics EXCEPT ![c] = PeriodicOf(s)]
         /\ Snapshots' = [Snapshots EXCEPT ![c] = SnapshotOf(s)]
<1>1. pit'[c] = s /\ \A d \in Channels : d # c => pit'[d] = pit[d]
  BY DEF PitTypeOK
<1>2. Values' = [Values EXCEPT ![c] = ValueOf(s)]
  <2>1. Values' = [d \in Channels |-> ValueOf(pit'[d])]
    BY Zenon DEF Values
  <2>2. Values = [d \in Channels |-> ValueOf(pit[d])]
    BY Zenon DEF Values
  <2>3. /\ ValueOf(pit'[c]) = ValueOf(s)
        /\ \A d \in Channels : d # c => ValueOf(pit'[d]) = ValueOf(pit[d])
    BY <1>1
  <2>4. QED
    BY <2>1, <2>2, <2>3
<1>3. Reloads' = [Reloads EXCEPT ![c] = ReloadOf(s)]
  <2>1. Reloads' = [d \in Channels |-> ReloadOf(pit'[d])]
    BY Zenon DEF Reloads
  <2>2. Reloads = [d \in Channels |-> ReloadOf(pit[d])]
    BY Zenon DEF Reloads
  <2>3. /\ ReloadOf(pit'[c]) = ReloadOf(s)
        /\ \A d \in Channels : d # c => ReloadOf(pit'[d]) = ReloadOf(pit[d])
    BY <1>1
  <2>4. QED
    BY <2>1, <2>2, <2>3
<1>4. Runnings' = [Runnings EXCEPT ![c] = s.running]
  <2>1. Runnings' = [d \in Channels |-> pit'[d].running]
    BY Zenon DEF Runnings
  <2>2. Runnings = [d \in Channels |-> pit[d].running]
    BY Zenon DEF Runnings
  <2>3. /\ pit'[c].running = s.running
        /\ \A d \in Channels : d # c => pit'[d].running = pit[d].running
    BY <1>1
  <2>4. QED
    BY <2>1, <2>2, <2>3
<1>5. Periodics' = [Periodics EXCEPT ![c] = PeriodicOf(s)]
  <2>1. Periodics' = [d \in Channels |-> PeriodicOf(pit'[d])]
    BY Zenon DEF Periodics
  <2>2. Periodics = [d \in Channels |-> PeriodicOf(pit[d])]
    BY Zenon DEF Periodics
  <2>3. /\ PeriodicOf(pit'[c]) = PeriodicOf(s)
        /\ \A d \in Channels : d # c => PeriodicOf(pit'[d]) = PeriodicOf(pit[d])
    BY <1>1
  <2>4. QED
    BY <2>1, <2>2, <2>3
<1>6. Snapshots' = [Snapshots EXCEPT ![c] = SnapshotOf(s)]
  <2>1. Snapshots' = [d \in Channels |-> SnapshotOf(pit'[d])]
    BY Zenon DEF Snapshots
  <2>2. Snapshots = [d \in Channels |-> SnapshotOf(pit[d])]
    BY Zenon DEF Snapshots
  <2>3. /\ SnapshotOf(pit'[c]) = SnapshotOf(s)
        /\ \A d \in Channels : d # c => SnapshotOf(pit'[d]) = SnapshotOf(pit[d])
    BY <1>1
  <2>4. QED
    BY <2>1, <2>2, <2>3
<1>7. QED
  BY <1>2, <1>3, <1>4, <1>5, <1>6

\* A counter that keeps its part keeps the whole function.
LEMMA SamePart ==
  ASSUME NEW c \in Channels
  PROVE  /\ [Values EXCEPT ![c] = ValueOf(pit[c])] = Values
         /\ [Reloads EXCEPT ![c] = ReloadOf(pit[c])] = Reloads
         /\ [Runnings EXCEPT ![c] = pit[c].running] = Runnings
         /\ [Periodics EXCEPT ![c] = PeriodicOf(pit[c])] = Periodics
         /\ [Snapshots EXCEPT ![c] = SnapshotOf(pit[c])] = Snapshots
BY DEF Values, Reloads, Runnings, Periodics, Snapshots

\* The steps of Timer in these terms.
LEMMA AbstractSteps ==
  /\ Counters!Init <=>
       /\ Values = [c \in Channels |-> 0]
       /\ Reloads = [c \in Channels |-> 0]
       /\ Runnings = [c \in Channels |-> FALSE]
       /\ Periodics = [c \in Channels |-> FALSE]
       /\ Snapshots = [c \in Channels |-> -1]
       /\ irq0 = FALSE
  /\ \A c \in Channels :
       /\ Counters!SetReload(c) <=>
            /\ \E n \in Counters!Count : Reloads' = [Reloads EXCEPT ![c] = n]
            /\ irq0' = FALSE
            /\ UNCHANGED <<Values, Runnings, Periodics, Snapshots>>
       /\ Counters!Start(c) <=>
            /\ \E n \in Counters!Count : /\ Reloads' = [Reloads EXCEPT ![c] = n]
                                         /\ Values' = [Values EXCEPT ![c] = n]
            /\ Runnings' = [Runnings EXCEPT ![c] = TRUE]
            /\ Snapshots' = [Snapshots EXCEPT ![c] = -1]
            /\ irq0' = FALSE
            /\ UNCHANGED Periodics
       /\ Counters!SetMode(c) <=>
            /\ \E p \in BOOLEAN : Periodics' = [Periodics EXCEPT ![c] = p]
            /\ irq0' = FALSE
            /\ UNCHANGED <<Values, Reloads, Runnings, Snapshots>>
       /\ Counters!Latch(c) <=>
            /\ Snapshots' = [Snapshots EXCEPT ![c] = Values[c]]
            /\ irq0' = FALSE
            /\ UNCHANGED <<Values, Reloads, Runnings, Periodics>>
       /\ Counters!Release(c) <=>
            /\ Snapshots' = [Snapshots EXCEPT ![c] = -1]
            /\ irq0' = FALSE
            /\ UNCHANGED <<Values, Reloads, Runnings, Periodics>>
  /\ Counters!Rest <=>
       irq0' = FALSE /\ UNCHANGED <<Values, Reloads, Runnings, Periodics, Snapshots>>
BY Zenon DEF Counters!Init, Counters!SetReload, Counters!Start, Counters!SetMode, Counters!Latch,
       Counters!Release, Counters!Rest, Counters!None, Counters!Channels, Channels,
       Values, Reloads, Runnings, Periodics, Snapshots, ValueOf, ReloadOf, PeriodicOf,
       SnapshotOf

----------------------------------------------------------------------------
(***************************************************************************)
(* The accesses of the guest.                                              *)
(***************************************************************************)
\* Only a channel that takes pairs waits for a high byte.
HalfKnown(s) == s.write_phase = TRUE => s.access = 3

\* pit_load_channel.
LEMMA LoadedFacts ==
  ASSUME NEW s \in ChannelType
  PROVE  /\ Loaded(s) \in ChannelType
         /\ Loaded(s).running = TRUE
         /\ Loaded(s).write_phase = s.write_phase
         /\ Loaded(s).access = s.access
         /\ ValueOf(Loaded(s)) = ReloadOf(Loaded(s))
         /\ PeriodicOf(Loaded(s)) = PeriodicOf(s)
         /\ SnapshotOf(Loaded(s)) = -1
<1>1. /\ Loaded(s) \in ChannelType
      /\ Loaded(s).running = TRUE
      /\ Loaded(s).latched = FALSE
      /\ Loaded(s).write_phase = s.write_phase
      /\ Loaded(s).access = s.access
      /\ Loaded(s).mode = s.mode
      /\ Loaded(s).count_lo = Loaded(s).reload_lo
      /\ Loaded(s).count_hi = Loaded(s).reload_hi
  BY DEF Loaded, Reloaded, ChannelType
<1>2. QED
  BY <1>1 DEF ValueOf, ReloadOf, PeriodicOf, SnapshotOf

\* A write of the data port starts the channel, out of the pair's phases, or
\* waits for the other half.
LEMMA WrittenFacts ==
  ASSUME NEW s \in ChannelType, NEW b \in Byte, HalfKnown(s)
  PROVE  /\ Written(s, b) \in ChannelType
         /\ HalfKnown(Written(s, b))
         /\ PeriodicOf(Written(s, b)) = PeriodicOf(s)
         /\ \/ /\ Written(s, b).running = TRUE
               /\ Written(s, b).write_phase = FALSE
               /\ ValueOf(Written(s, b)) = ReloadOf(Written(s, b))
               /\ SnapshotOf(Written(s, b)) = -1
            \/ /\ Written(s, b).running = s.running
               /\ ValueOf(Written(s, b)) = ValueOf(s)
               /\ SnapshotOf(Written(s, b)) = SnapshotOf(s)
<1>0. 0 \in Byte
  BY PitAssumption DEF Byte
<1>1. CASE s.access \notin {2, 3}
  <2> DEFINE t == [s EXCEPT !.reload_lo = b, !.reload_hi = 0]
  <2>1. t \in ChannelType /\ t.write_phase = FALSE /\ t.mode = s.mode
    <3>1. s.write_phase = FALSE
      BY <1>1 DEF ChannelType, HalfKnown
    <3>2. QED
      BY <1>0, <3>1 DEF ChannelType
  <2>2. Written(s, b) = Loaded(t)
    BY <1>1 DEF Written
  <2>3. PeriodicOf(t) = PeriodicOf(s)
    BY <2>1 DEF PeriodicOf
  <2> HIDE DEF t
  <2>4. QED
    BY <2>1, <2>2, <2>3, LoadedFacts DEF HalfKnown
<1>2. CASE s.access = 2
  <2> DEFINE t == [s EXCEPT !.reload_hi = b, !.reload_lo = 0]
  <2>1. t \in ChannelType /\ t.write_phase = FALSE /\ t.mode = s.mode
    <3>1. s.write_phase = FALSE
      BY <1>2 DEF ChannelType, HalfKnown
    <3>2. QED
      BY <1>0, <3>1 DEF ChannelType
  <2>2. Written(s, b) = Loaded(t)
    BY <1>2 DEF Written
  <2>3. PeriodicOf(t) = PeriodicOf(s)
    BY <2>1 DEF PeriodicOf
  <2> HIDE DEF t
  <2>4. QED
    BY <2>1, <2>2, <2>3, LoadedFacts DEF HalfKnown
<1>3. CASE s.access = 3 /\ s.write_phase
  <2> DEFINE t == [s EXCEPT !.reload_hi = b, !.write_phase = FALSE]
  <2>1. t \in ChannelType /\ t.write_phase = FALSE /\ t.mode = s.mode
    BY DEF ChannelType
  <2>2. Written(s, b) = Loaded(t)
    BY <1>3 DEF Written
  <2>3. PeriodicOf(t) = PeriodicOf(s)
    BY <2>1 DEF PeriodicOf
  <2> HIDE DEF t
  <2>4. QED
    BY <2>1, <2>2, <2>3, LoadedFacts DEF HalfKnown
<1>4. CASE s.access = 3 /\ ~s.write_phase
  <2> DEFINE t == [s EXCEPT !.reload_lo = b, !.write_phase = TRUE]
  <2>1. Written(s, b) = t
    BY <1>4 DEF Written
  <2>2. /\ t \in ChannelType /\ t.mode = s.mode /\ t.running = s.running
        /\ t.count_hi = s.count_hi /\ t.count_lo = s.count_lo
        /\ t.latched = s.latched /\ t.latched_hi = s.latched_hi
        /\ t.latched_lo = s.latched_lo /\ t.access = s.access
    BY DEF ChannelType
  <2> HIDE DEF t
  <2>3. QED
    BY <1>4, <2>1, <2>2 DEF ValueOf, PeriodicOf, SnapshotOf, HalfKnown
<1>5. QED
  BY <1>1, <1>2, <1>3, <1>4

\* A read of the data port turns the phase or releases the latch.
LEMMA AfterReadFacts ==
  ASSUME NEW s \in ChannelType, HalfKnown(s)
  PROVE  /\ AfterRead(s) \in ChannelType
         /\ HalfKnown(AfterRead(s))
         /\ ValueOf(AfterRead(s)) = ValueOf(s)
         /\ ReloadOf(AfterRead(s)) = ReloadOf(s)
         /\ AfterRead(s).running = s.running
         /\ PeriodicOf(AfterRead(s)) = PeriodicOf(s)
         /\ SnapshotOf(AfterRead(s)) \in {SnapshotOf(s), -1}
<1> DEFINE t == AfterRead(s)
<1>1. /\ t \in ChannelType
      /\ t.count_hi = s.count_hi /\ t.count_lo = s.count_lo
      /\ t.reload_hi = s.reload_hi /\ t.reload_lo = s.reload_lo
      /\ t.mode = s.mode /\ t.running = s.running
      /\ t.latched_hi = s.latched_hi /\ t.latched_lo = s.latched_lo
      /\ t.latched = s.latched \/ t.latched = FALSE
      /\ t.write_phase = s.write_phase /\ t.access = s.access
  BY DEF AfterRead, ChannelType
<1> HIDE DEF t
<1>2. QED
  BY <1>1 DEF t, HalfKnown, ValueOf, ReloadOf, PeriodicOf, SnapshotOf

\* A control byte latches the count or sets the mode.
LEMMA ControlledFacts ==
  ASSUME NEW s \in ChannelType, NEW b \in 0 .. 255, HalfKnown(s)
  PROVE  /\ Controlled(s, b) \in ChannelType
         /\ HalfKnown(Controlled(s, b))
         /\ ValueOf(Controlled(s, b)) = ValueOf(s)
         /\ ReloadOf(Controlled(s, b)) = ReloadOf(s)
         /\ Controlled(s, b).running = s.running
         /\ \/ /\ PeriodicOf(Controlled(s, b)) = PeriodicOf(s)
               /\ SnapshotOf(Controlled(s, b)) = ValueOf(s)
            \/ SnapshotOf(Controlled(s, b)) = SnapshotOf(s)
<1> DEFINE t == Controlled(s, b)
<1>1. ControlAccess(b) \in 0 .. 3 /\ ControlMode(b) \in 0 .. 5
  BY DEF ControlAccess, ControlMode
<1>2. CASE ControlAccess(b) = 0
  <2>1. /\ t \in ChannelType
        /\ t.count_hi = s.count_hi /\ t.count_lo = s.count_lo
        /\ t.reload_hi = s.reload_hi /\ t.reload_lo = s.reload_lo
        /\ t.mode = s.mode /\ t.running = s.running
        /\ t.latched_hi = s.count_hi /\ t.latched_lo = s.count_lo
        /\ t.latched = TRUE
        /\ t.write_phase = s.write_phase /\ t.access = s.access
    <3>1. t = [s EXCEPT !.latched_lo = s.count_lo, !.latched_hi = s.count_hi,
                        !.latched = TRUE, !.read_phase = FALSE]
      BY <1>2 DEF Controlled, CountLatched
    <3> HIDE DEF t
    <3>2. /\ t \in ChannelType
          /\ t.latched_hi = s.count_hi /\ t.latched_lo = s.count_lo
          /\ t.latched = TRUE
      BY <3>1 DEF ChannelType
    <3>3. /\ t.count_hi = s.count_hi /\ t.count_lo = s.count_lo
          /\ t.reload_hi = s.reload_hi /\ t.reload_lo = s.reload_lo
          /\ t.mode = s.mode /\ t.running = s.running
          /\ t.write_phase = s.write_phase /\ t.access = s.access
      BY <3>1 DEF ChannelType
    <3>4. QED
      BY <3>2, <3>3
  <2> HIDE DEF t
  <2>2. QED
    BY <2>1 DEF t, HalfKnown, ValueOf, ReloadOf, PeriodicOf, SnapshotOf
<1>3. CASE ControlAccess(b) # 0
  <2>1. /\ t \in ChannelType
        /\ t.count_hi = s.count_hi /\ t.count_lo = s.count_lo
        /\ t.reload_hi = s.reload_hi /\ t.reload_lo = s.reload_lo
        /\ t.running = s.running
        /\ t.latched_hi = s.latched_hi /\ t.latched_lo = s.latched_lo
        /\ t.latched = s.latched
        /\ t.write_phase = FALSE
    BY <1>1, <1>3 DEF Controlled, ChannelType
  <2> HIDE DEF t
  <2>2. QED
    BY <2>1 DEF t, HalfKnown, ValueOf, ReloadOf, PeriodicOf, SnapshotOf
<1>4. QED
  BY <1>2, <1>3

----------------------------------------------------------------------------
(***************************************************************************)
(* The tick.                                                               *)
(***************************************************************************)
Less(s) == (ValueOf(s) - 1) % (Base * Base)

\* pit_tick_channel on a running channel.
LEMMA TickChannelFacts ==
  ASSUME NEW s \in ChannelType
  PROVE  /\ TickChannel(s) \in ChannelType
         /\ ValueOf(TickChannel(s)) =
              IF Less(s) = 0 /\ PeriodicOf(s) THEN ReloadOf(s) ELSE Less(s)
         /\ ReloadOf(TickChannel(s)) = ReloadOf(s)
         /\ PeriodicOf(TickChannel(s)) = PeriodicOf(s)
         /\ SnapshotOf(TickChannel(s)) = SnapshotOf(s)
         /\ TickChannel(s).running =
              IF Less(s) = 0 /\ ~PeriodicOf(s) THEN FALSE ELSE s.running
         /\ TickChannel(s).write_phase = s.write_phase
         /\ TickChannel(s).access = s.access
         /\ AtZero(Counted(s)) <=> Less(s) = 0
<1> DEFINE k == Counted(s)
           t == TickChannel(s)
<1>1. /\ k \in ChannelType
      /\ ValueOf(k) = Less(s)
      /\ k = [s EXCEPT !.count_lo = k.count_lo, !.count_hi = k.count_hi]
  BY CountedWord DEF ValueOf, Less
<1> HIDE DEF k
<1>2. /\ k.reload_hi = s.reload_hi /\ k.reload_lo = s.reload_lo
      /\ k.mode = s.mode /\ k.running = s.running
      /\ k.latched = s.latched /\ k.latched_hi = s.latched_hi
      /\ k.latched_lo = s.latched_lo
      /\ k.write_phase = s.write_phase /\ k.access = s.access
  BY <1>1 DEF ChannelType
<1>3. k.count_hi \in Byte /\ k.count_lo \in Byte
  BY <1>1 DEF ChannelType
<1>4. AtZero(k) <=> Less(s) = 0
  BY <1>1, <1>3, WordRange DEF AtZero, ValueOf
<1>5. Repeats(k) <=> PeriodicOf(s)
  BY <1>2 DEF Repeats, PeriodicOf
<1>6. CASE ~AtZero(k)
  <2>1. t = k
    BY <1>6 DEF TickChannel, k
  <2>2. /\ ReloadOf(k) = ReloadOf(s) /\ PeriodicOf(k) = PeriodicOf(s)
        /\ SnapshotOf(k) = SnapshotOf(s)
    BY <1>2 DEF ReloadOf, PeriodicOf, SnapshotOf
  <2>3. QED
    BY <1>1, <1>2, <1>4, <1>6, <2>1, <2>2 DEF k
<1>7. CASE AtZero(k) /\ Repeats(k)
  <2>1. t = [k EXCEPT !.count_lo = k.reload_lo, !.count_hi = k.reload_hi]
    BY <1>7 DEF TickChannel, ReloadOrStop, Reloaded, k
  <2> HIDE DEF t
  <2>2. /\ t \in ChannelType
        /\ t.count_hi = s.reload_hi /\ t.count_lo = s.reload_lo
        /\ t.reload_hi = s.reload_hi /\ t.reload_lo = s.reload_lo
    BY <1>1, <1>2, <2>1 DEF ChannelType
  <2>3. /\ t.mode = s.mode /\ t.running = s.running
        /\ t.latched = s.latched /\ t.latched_hi = s.latched_hi
        /\ t.latched_lo = s.latched_lo
        /\ t.write_phase = s.write_phase /\ t.access = s.access
    BY <1>1, <1>2, <2>1 DEF ChannelType
  <2>4. /\ ValueOf(t) = ReloadOf(s) /\ ReloadOf(t) = ReloadOf(s)
        /\ PeriodicOf(t) = PeriodicOf(s) /\ SnapshotOf(t) = SnapshotOf(s)
    BY <2>2, <2>3 DEF ValueOf, ReloadOf, PeriodicOf, SnapshotOf
  <2>5. QED
    BY <1>4, <1>5, <1>7, <2>2, <2>3, <2>4 DEF t, k
<1>8. CASE AtZero(k) /\ ~Repeats(k)
  <2>1. t = [k EXCEPT !.running = FALSE]
    BY <1>8 DEF TickChannel, ReloadOrStop, k
  <2> HIDE DEF t
  <2>2. /\ t \in ChannelType
        /\ t.count_hi = k.count_hi /\ t.count_lo = k.count_lo
        /\ t.reload_hi = s.reload_hi /\ t.reload_lo = s.reload_lo
        /\ t.running = FALSE
    BY <1>1, <1>2, <2>1 DEF ChannelType
  <2>3. /\ t.mode = s.mode
        /\ t.latched = s.latched /\ t.latched_hi = s.latched_hi
        /\ t.latched_lo = s.latched_lo
        /\ t.write_phase = s.write_phase /\ t.access = s.access
    BY <1>1, <1>2, <2>1 DEF ChannelType
  <2>4. /\ ValueOf(t) = ValueOf(k) /\ ReloadOf(t) = ReloadOf(s)
        /\ PeriodicOf(t) = PeriodicOf(s) /\ SnapshotOf(t) = SnapshotOf(s)
    BY <2>2, <2>3 DEF ValueOf, ReloadOf, PeriodicOf, SnapshotOf
  <2>5. QED
    BY <1>1, <1>4, <1>5, <1>8, <2>2, <2>3, <2>4 DEF t, k
<1>9. QED
  BY <1>6, <1>7, <1>8

\* Timer's tick in these terms.
LEMMA AbstractTick ==
  Counters!Tick <=>
    /\ Values' = [c \in Channels |->
                    IF ~Runnings[c] THEN Values[c]
                    ELSE IF (Runnings[c] /\ (Values[c] - 1) % (Base * Base) = 0)
                              /\ Periodics[c]
                           THEN Reloads[c] ELSE (Values[c] - 1) % (Base * Base)]
    /\ Runnings' = [c \in Channels |->
                      Runnings[c]
                        /\ (Runnings[c] /\ (Values[c] - 1) % (Base * Base) = 0
                              => Periodics[c])]
    /\ irq0' = (Runnings[0] /\ (Values[0] - 1) % (Base * Base) = 0)
    /\ UNCHANGED <<Reloads, Periodics, Snapshots>>
BY Zenon DEF Counters!Tick, Counters!Expires, Counters!Less, Counters!Channels, Channels,
             Values, Reloads, Runnings, Periodics, Snapshots, ValueOf, ReloadOf,
             PeriodicOf, SnapshotOf

----------------------------------------------------------------------------
(***************************************************************************)
(* The invariant, and what a step does.                                    *)
(***************************************************************************)
PitInvariant == PitTypeOK /\ \A c \in Channels : HalfKnown(pit[c])

StartsFact ==
  \A c \in Channels : pit'[c].running /\ ~pit[c].running => ~pit'[c].write_phase

PitStepFacts == PitInvariant' /\ Counters!Next /\ StartsFact

\* The cycles of an instruction are added: nothing a counter sees.
LEMMA ElapseStep ==
  ASSUME PitInvariant, Elapse
  PROVE  PitStepFacts
<1>1. PICK n \in Elapsed : pit_cycle_accum' = (pit_cycle_accum + n) % 256
  BY DEF Elapse
<1>2. pit_cycle_accum' \in 0 .. 255
  BY <1>1, PitAssumption DEF PitInvariant, PitTypeOK
<1>3. pit' = pit /\ irq0' = FALSE
  BY DEF Elapse
<1>4. irq0' \in BOOLEAN
  BY <1>3
<1>5. PitInvariant'
  BY <1>2, <1>3, <1>4 DEF PitInvariant, PitTypeOK
<1>6. UNCHANGED <<Values, Reloads, Runnings, Periodics, Snapshots>>
  BY <1>3 DEF Values, Reloads, Runnings, Periodics, Snapshots
<1>7. Counters!Rest
  BY <1>3, <1>6, AbstractSteps
<1>8. QED
  BY <1>3, <1>5, <1>7 DEF PitStepFacts, StartsFact, Counters!Next

\* pit_tick: three channels, each by TickChannelFacts.
LEMMA TickStep ==
  ASSUME PitInvariant, Tick
  PROVE  PitStepFacts
<1>1. \A c \in Channels : pit[c] \in ChannelType /\ HalfKnown(pit[c])
  BY DEF PitInvariant, PitTypeOK
<1>2. /\ pit_cycle_accum' = pit_cycle_accum - 4
      /\ pit' = [c \in Channels |-> Ticked(c)]
      /\ irq0' = Fires(pit[0])
  BY DEF Tick
<1>3. \A c \in Channels :
        pit'[c] = IF pit[c].running THEN TickChannel(pit[c]) ELSE pit[c]
  BY <1>2 DEF Ticked
<1>4. ASSUME NEW c \in Channels
      PROVE  /\ pit'[c] \in ChannelType
             /\ pit'[c].write_phase = pit[c].write_phase
             /\ pit'[c].access = pit[c].access
             /\ ReloadOf(pit'[c]) = ReloadOf(pit[c])
             /\ PeriodicOf(pit'[c]) = PeriodicOf(pit[c])
             /\ SnapshotOf(pit'[c]) = SnapshotOf(pit[c])
             /\ ValueOf(pit'[c]) =
                  IF ~pit[c].running THEN ValueOf(pit[c])
                  ELSE IF Less(pit[c]) = 0 /\ PeriodicOf(pit[c])
                         THEN ReloadOf(pit[c]) ELSE Less(pit[c])
             /\ pit'[c].running =
                  IF pit[c].running /\ Less(pit[c]) = 0 /\ ~PeriodicOf(pit[c])
                    THEN FALSE ELSE pit[c].running
             /\ pit[c].running \in BOOLEAN
  <2>1. CASE pit[c].running
    <3>1. pit'[c] = TickChannel(pit[c])
      BY <1>3, <2>1
    <3>2. pit[c].running \in BOOLEAN
      BY <1>1 DEF ChannelType
    <3>3. QED
      BY <1>1, <2>1, <3>1, <3>2, TickChannelFacts
  <2>2. CASE ~pit[c].running
    <3>1. pit'[c] = pit[c]
      BY <1>3, <2>2
    <3>2. pit[c].running \in BOOLEAN
      BY <1>1 DEF ChannelType
    <3>3. QED
      BY <1>1, <2>2, <3>1, <3>2
  <2>3. QED
    BY <2>1, <2>2
<1>5. PitInvariant'
  <2>1. pit' \in [Channels -> ChannelType]
    BY <1>2, <1>4
  <2>2. pit_cycle_accum' \in 0 .. 255
    BY <1>2 DEF PitInvariant, PitTypeOK, Tick
  <2>3. irq0' \in BOOLEAN
    BY <1>2 DEF Fires
  <2>4. \A c \in Channels : HalfKnown(pit'[c])
    BY <1>1, <1>4 DEF HalfKnown
  <2>5. QED
    BY <2>1, <2>2, <2>3, <2>4 DEF PitInvariant, PitTypeOK
<1>6. StartsFact
  BY <1>4 DEF StartsFact
<1>7. Counters!Tick
  <2>1. UNCHANGED <<Reloads, Periodics, Snapshots>>
    <3>1. UNCHANGED Reloads
      BY <1>4 DEF Reloads
    <3>2. UNCHANGED Periodics
      BY <1>4 DEF Periodics
    <3>3. UNCHANGED Snapshots
      BY <1>4 DEF Snapshots
    <3>4. QED
      BY <3>1, <3>2, <3>3
  <2>2. \A c \in Channels :
          /\ Values[c] = ValueOf(pit[c]) /\ Reloads[c] = ReloadOf(pit[c])
          /\ Runnings[c] = pit[c].running /\ Periodics[c] = PeriodicOf(pit[c])
          /\ (Values[c] - 1) % (Base * Base) = Less(pit[c])
    BY DEF Values, Reloads, Runnings, Periodics, Less
  <2>3. Values' = [c \in Channels |->
                    IF ~Runnings[c] THEN Values[c]
                    ELSE IF (Runnings[c] /\ (Values[c] - 1) % (Base * Base) = 0)
                              /\ Periodics[c]
                           THEN Reloads[c] ELSE (Values[c] - 1) % (Base * Base)]
    BY <1>4, <2>2 DEF Values
  <2>4. Runnings' = [c \in Channels |->
                      Runnings[c]
                        /\ (Runnings[c] /\ (Values[c] - 1) % (Base * Base) = 0
                              => Periodics[c])]
    BY <1>4, <2>2 DEF Runnings
  <2>5. irq0' = (Runnings[0] /\ (Values[0] - 1) % (Base * Base) = 0)
    <3>1. 0 \in Channels
      BY DEF Channels
    <3>2. AtZero(Counted(pit[0])) <=> Less(pit[0]) = 0
      BY <1>1, <3>1, TickChannelFacts
    <3>3. QED
      BY <1>2, <2>2, <3>1, <3>2, <1>4 DEF Fires
  <2>6. QED
    BY <2>1, <2>3, <2>4, <2>5, AbstractTick
<1>8. QED
  BY <1>5, <1>6, <1>7 DEF PitStepFacts, Counters!Next

\* Any access: one channel is replaced.
LEMMA AccessStep ==
  ASSUME PitInvariant, NEW c \in Channels, NEW s \in ChannelType, HalfKnown(s), Access(c, s)
  PROVE  /\ PitInvariant'
         /\ irq0' = FALSE
         /\ pit' = [pit EXCEPT ![c] = s]
         /\ pit[c] \in ChannelType /\ HalfKnown(pit[c])
<1>1. pit' = [pit EXCEPT ![c] = s] /\ irq0' = FALSE /\ pit_cycle_accum' = pit_cycle_accum
  BY DEF Access
<1>2. pit \in [Channels -> ChannelType] /\ \A d \in Channels : HalfKnown(pit[d])
  BY DEF PitInvariant, PitTypeOK
<1>3. pit' \in [Channels -> ChannelType]
  BY <1>1, <1>2
<1>4. \A d \in Channels : HalfKnown(pit'[d])
  <2>1. TAKE d \in Channels
  <2>2. CASE d = c
    BY <1>1, <1>2, <2>2
  <2>3. CASE d # c
    BY <1>1, <1>2, <2>3
  <2>4. QED
    BY <2>2, <2>3
<1>5. irq0' \in BOOLEAN /\ pit_cycle_accum' \in 0 .. 255
  BY <1>1 DEF PitInvariant, PitTypeOK
<1>6. QED
  BY <1>1, <1>2, <1>3, <1>4, <1>5 DEF PitInvariant, PitTypeOK

\* Only the channel written can start.
LEMMA StartsOne ==
  ASSUME PitInvariant, NEW c \in Channels, NEW s, pit' = [pit EXCEPT ![c] = s],
         s.running /\ ~pit[c].running => ~s.write_phase
  PROVE  StartsFact
<1>1. pit \in [Channels -> ChannelType]
  BY DEF PitInvariant, PitTypeOK
<1>2. SUFFICES ASSUME NEW d \in Channels, pit'[d].running, ~pit[d].running
               PROVE  ~pit'[d].write_phase
  BY DEF StartsFact
<1>3. CASE d = c
  BY <1>1, <1>2, <1>3
<1>4. CASE d # c
  BY <1>1, <1>2, <1>4
<1>5. QED
  BY <1>3, <1>4

\* pit_write_data: a start of Timer, or nothing it sees.
LEMMA WriteDataStep ==
  ASSUME PitInvariant, NEW c \in Programmed, NEW b \in Byte, WriteCounter(c, b)
  PROVE  PitStepFacts
<1> DEFINE s == Written(pit[c], b)
<1>1. c \in Channels /\ pit[c] \in ChannelType /\ HalfKnown(pit[c])
  BY PitAssumption DEF PitInvariant, PitTypeOK
<1>2. /\ s \in ChannelType /\ HalfKnown(s)
      /\ PeriodicOf(s) = PeriodicOf(pit[c])
      /\ \/ /\ s.running = TRUE
            /\ s.write_phase = FALSE
            /\ ValueOf(s) = ReloadOf(s)
            /\ SnapshotOf(s) = -1
         \/ /\ s.running = pit[c].running
            /\ ValueOf(s) = ValueOf(pit[c])
            /\ SnapshotOf(s) = SnapshotOf(pit[c])
  BY <1>1, WrittenFacts
<1>3. Access(c, s)
  BY DEF WriteCounter
<1> HIDE DEF s
<1>4. PitInvariant' /\ irq0' = FALSE /\ pit' = [pit EXCEPT ![c] = s]
  BY <1>1, <1>2, <1>3, AccessStep
<1>5. StartsFact
  BY <1>1, <1>2, <1>4, StartsOne
<1>6. /\ Values' = [Values EXCEPT ![c] = ValueOf(s)]
      /\ Reloads' = [Reloads EXCEPT ![c] = ReloadOf(s)]
      /\ Runnings' = [Runnings EXCEPT ![c] = s.running]
      /\ Periodics' = [Periodics EXCEPT ![c] = PeriodicOf(s)]
      /\ Snapshots' = [Snapshots EXCEPT ![c] = SnapshotOf(s)]
  BY <1>1, <1>4, OneChannel DEF PitInvariant
<1>7. ValueOf(s) \in Counters!Count /\ ReloadOf(s) \in Counters!Count
  BY <1>2, CountsOf
<1>8. UNCHANGED Periodics
  BY <1>1, <1>2, <1>6, SamePart
<1>9. CASE /\ s.running = TRUE
           /\ ValueOf(s) = ReloadOf(s)
           /\ SnapshotOf(s) = -1
  <2>1. Counters!Start(c)
    <3>1. /\ Reloads' = [Reloads EXCEPT ![c] = ReloadOf(s)]
          /\ Values' = [Values EXCEPT ![c] = ReloadOf(s)]
          /\ Runnings' = [Runnings EXCEPT ![c] = TRUE]
          /\ Snapshots' = [Snapshots EXCEPT ![c] = -1]
      BY <1>6, <1>9
    <3>2. QED
      BY <1>1, <1>4, <1>7, <1>8, <3>1, AbstractSteps
  <2>2. QED
    BY <1>1, <1>4, <1>5, <2>1 DEF PitStepFacts, Counters!Next, Counters!Guest, Counters!Channels,
                                  Channels
<1>10. CASE /\ s.running = pit[c].running
            /\ ValueOf(s) = ValueOf(pit[c])
            /\ SnapshotOf(s) = SnapshotOf(pit[c])
  <2>1. UNCHANGED <<Values, Runnings, Snapshots>>
    BY <1>1, <1>6, <1>10, SamePart
  <2>2. Counters!SetReload(c)
    BY <1>1, <1>4, <1>6, <1>7, <1>8, <2>1, AbstractSteps
  <2>3. QED
    BY <1>1, <1>4, <1>5, <2>2 DEF PitStepFacts, Counters!Next, Counters!Guest, Counters!Channels,
                                  Channels
<1>11. QED
  BY <1>2, <1>9, <1>10

\* pit_read_data: the counters keep their count and their part.
LEMMA ReadDataStep ==
  ASSUME PitInvariant, NEW c \in Programmed, ReadCounter(c)
  PROVE  PitStepFacts
<1> DEFINE s == AfterRead(pit[c])
<1>1. c \in Channels /\ pit[c] \in ChannelType /\ HalfKnown(pit[c])
  BY PitAssumption DEF PitInvariant, PitTypeOK
<1>2. /\ s \in ChannelType /\ HalfKnown(s)
      /\ ValueOf(s) = ValueOf(pit[c])
      /\ ReloadOf(s) = ReloadOf(pit[c])
      /\ s.running = pit[c].running
      /\ PeriodicOf(s) = PeriodicOf(pit[c])
      /\ SnapshotOf(s) \in {SnapshotOf(pit[c]), -1}
  BY <1>1, AfterReadFacts
<1>3. Access(c, s)
  BY DEF ReadCounter
<1> HIDE DEF s
<1>4. PitInvariant' /\ irq0' = FALSE /\ pit' = [pit EXCEPT ![c] = s]
  BY <1>1, <1>2, <1>3, AccessStep
<1>5. StartsFact
  BY <1>1, <1>2, <1>4, StartsOne
<1>6. /\ Values' = [Values EXCEPT ![c] = ValueOf(s)]
      /\ Reloads' = [Reloads EXCEPT ![c] = ReloadOf(s)]
      /\ Runnings' = [Runnings EXCEPT ![c] = s.running]
      /\ Periodics' = [Periodics EXCEPT ![c] = PeriodicOf(s)]
      /\ Snapshots' = [Snapshots EXCEPT ![c] = SnapshotOf(s)]
  BY <1>1, <1>4, OneChannel DEF PitInvariant
<1>7. UNCHANGED <<Values, Reloads, Runnings, Periodics>>
  BY <1>1, <1>2, <1>6, SamePart
<1>8. CASE SnapshotOf(s) = -1
  <2>1. Counters!Release(c)
    BY <1>1, <1>4, <1>6, <1>7, <1>8, AbstractSteps
  <2>2. QED
    BY <1>1, <1>4, <1>5, <2>1 DEF PitStepFacts, Counters!Next, Counters!Guest, Counters!Channels,
                                  Channels
<1>9. CASE SnapshotOf(s) = SnapshotOf(pit[c])
  <2>1. UNCHANGED Snapshots
    BY <1>1, <1>6, <1>9, SamePart
  <2>2. Counters!Rest
    BY <1>4, <1>7, <2>1, AbstractSteps
  <2>3. QED
    BY <1>4, <1>5, <2>2 DEF PitStepFacts, Counters!Next
<1>10. QED
  BY <1>2, <1>8, <1>9

\* pit_write_control: a latch of the count, or a new mode that stops it.
LEMMA WriteControlStep ==
  ASSUME PitInvariant, NEW b \in ControlBytes, WriteControl(b)
  PROVE  PitStepFacts
<1> DEFINE c == ControlChannel(b)
           s == Controlled(pit[c], b)
<1>1. /\ c \in Channels /\ pit[c] \in ChannelType /\ HalfKnown(pit[c])
      /\ b \in 0 .. 255
  BY PitAssumption DEF PitInvariant, PitTypeOK, WriteControl
<1>2. /\ s \in ChannelType /\ HalfKnown(s)
      /\ ValueOf(s) = ValueOf(pit[c])
      /\ ReloadOf(s) = ReloadOf(pit[c])
      /\ s.running = pit[c].running
      /\ \/ /\ PeriodicOf(s) = PeriodicOf(pit[c])
            /\ SnapshotOf(s) = ValueOf(pit[c])
         \/ SnapshotOf(s) = SnapshotOf(pit[c])
  BY <1>1, ControlledFacts
<1>3. Access(c, s)
  BY DEF WriteControl
<1> HIDE DEF c, s
<1>4. PitInvariant' /\ irq0' = FALSE /\ pit' = [pit EXCEPT ![c] = s]
  BY <1>1, <1>2, <1>3, AccessStep
<1>5. StartsFact
  BY <1>1, <1>2, <1>4, StartsOne
<1>6. /\ Values' = [Values EXCEPT ![c] = ValueOf(s)]
      /\ Reloads' = [Reloads EXCEPT ![c] = ReloadOf(s)]
      /\ Runnings' = [Runnings EXCEPT ![c] = s.running]
      /\ Periodics' = [Periodics EXCEPT ![c] = PeriodicOf(s)]
      /\ Snapshots' = [Snapshots EXCEPT ![c] = SnapshotOf(s)]
  BY <1>1, <1>4, OneChannel DEF PitInvariant
<1>7. UNCHANGED <<Values, Reloads, Runnings>>
  BY <1>1, <1>2, <1>6, SamePart
<1>8. CASE PeriodicOf(s) = PeriodicOf(pit[c]) /\ SnapshotOf(s) = ValueOf(pit[c])
  <2>1. UNCHANGED Periodics
    BY <1>1, <1>6, <1>8, SamePart
  <2>2. Values[c] = ValueOf(pit[c])
    BY <1>1 DEF Values
  <2>3. Snapshots' = [Snapshots EXCEPT ![c] = Values[c]]
    BY <1>6, <1>8, <2>2
  <2>4. Counters!Latch(c)
    BY <1>1, <1>4, <1>7, <2>1, <2>3, AbstractSteps
  <2>5. QED
    BY <1>1, <1>4, <1>5, <2>4 DEF PitStepFacts, Counters!Next, Counters!Guest, Counters!Channels,
                                  Channels
<1>9. CASE SnapshotOf(s) = SnapshotOf(pit[c])
  <2>1. UNCHANGED Snapshots
    BY <1>1, <1>6, <1>9, SamePart
  <2>2. PeriodicOf(s) \in BOOLEAN
    BY DEF PeriodicOf
  <2>3. Counters!SetMode(c)
    BY <1>1, <1>4, <1>6, <1>7, <2>1, <2>2, AbstractSteps
  <2>4. QED
    BY <1>1, <1>4, <1>5, <2>3 DEF PitStepFacts, Counters!Next, Counters!Guest, Counters!Channels,
                                  Channels
<1>10. QED
  BY <1>2, <1>8, <1>9

----------------------------------------------------------------------------
\* pit_reset.
LEMMA PitInitStep == PitInit => PitInvariant /\ Counters!Init
<1> SUFFICES ASSUME PitInit PROVE PitInvariant /\ Counters!Init
  OBVIOUS
<1> DEFINE z == [reload_lo |-> 0, reload_hi |-> 0, count_lo |-> 0, count_hi |-> 0,
                 access |-> 0, mode |-> 0, write_phase |-> FALSE,
                 read_phase |-> FALSE, latched_lo |-> 0, latched_hi |-> 0,
                 latched |-> FALSE, running |-> FALSE]
<1>1. pit = [c \in Channels |-> z] /\ pit_cycle_accum = 0 /\ irq0 = FALSE
  BY DEF PitInit
<1>2. 0 \in Byte
  BY PitAssumption DEF Byte
<1>3. z \in ChannelType
  BY <1>2 DEF ChannelType
<1>4. HalfKnown(z) /\ SnapshotOf(z) = -1 /\ z.running = FALSE /\ PeriodicOf(z) = FALSE
  BY DEF HalfKnown, SnapshotOf, PeriodicOf
<1>5. ValueOf(z) = 0 /\ ReloadOf(z) = 0
  BY <1>2, WordRange DEF ValueOf, ReloadOf
<1> HIDE DEF z
<1>6. PitInvariant
  <2>1. pit \in [Channels -> ChannelType] /\ pit_cycle_accum \in 0 .. 255
    BY <1>1, <1>3
  <2>2. irq0 \in BOOLEAN
    BY <1>1
  <2>3. \A c \in Channels : HalfKnown(pit[c])
    BY <1>1, <1>4
  <2>4. QED
    BY <2>1, <2>2, <2>3 DEF PitInvariant, PitTypeOK
<1>7. Counters!Init
  <2>1. \A c \in Channels : pit[c] = z
    BY <1>1
  <2>2. Values = [c \in Channels |-> 0]
    BY <1>5, <2>1 DEF Values
  <2>3. Reloads = [c \in Channels |-> 0]
    BY <1>5, <2>1 DEF Reloads
  <2>4. Runnings = [c \in Channels |-> FALSE]
    BY <1>4, <2>1 DEF Runnings
  <2>5. Periodics = [c \in Channels |-> FALSE]
    BY <1>4, <2>1 DEF Periodics
  <2>6. Snapshots = [c \in Channels |-> -1]
    BY <1>4, <2>1 DEF Snapshots
  <2>7. QED
    BY <1>1, <2>2, <2>3, <2>4, <2>5, <2>6, AbstractSteps
<1>8. QED
  BY <1>6, <1>7

\* Every step.
LEMMA PitNextStep ==
  ASSUME PitInvariant, PitNext
  PROVE  PitStepFacts
BY ElapseStep, TickStep, WriteDataStep, ReadDataStep, WriteControlStep DEF PitNext, Guest

\* A step that changes nothing.
LEMMA PitStutter ==
  ASSUME PitInvariant, UNCHANGED pitVars
  PROVE  PitInvariant' /\ UNCHANGED Counters!vars
<1>1. pit' = pit /\ pit_cycle_accum' = pit_cycle_accum /\ irq0' = irq0
  BY DEF pitVars
<1>2. PitInvariant'
  BY <1>1 DEF PitInvariant, PitTypeOK
<1>3. UNCHANGED Counters!vars
  BY <1>1 DEF Counters!vars
<1>4. QED
  BY <1>2, <1>3

\* The invariant of every behaviour.
LEMMA PitInvariance == PitSpec => []PitInvariant
<1>1. PitInvariant /\ [PitNext]_pitVars => PitInvariant'
  BY PitNextStep, PitStutter DEF PitStepFacts
<1>2. QED
  BY <1>1, PitInitStep, PTL DEF PitSpec

(***************************************************************************)
(* The bytes of pit.s stay bytes and its modes modes, for every width.     *)
(***************************************************************************)
THEOREM TimerTypeCorrect == PitSpec => []PitTypeOK
<1>1. PitInvariant => PitTypeOK
  BY DEF PitInvariant
<1>2. QED
  BY <1>1, PitInvariance, PTL

(***************************************************************************)
(* A write in two halves starts the channel with both (pit_write_data):    *)
(* no channel begins to run while the high byte is awaited.                *)
(***************************************************************************)
THEOREM WholeStarts == PitSpec => StartsWhole
<1>1. PitInvariant /\ [PitNext]_pitVars =>
        [\A c \in Channels :
           pit'[c].running /\ ~pit[c].running => ~pit'[c].write_phase]_pitVars
  BY PitNextStep DEF PitStepFacts, StartsFact
<1>2. QED
  BY <1>1, PitInvariance, PTL DEF PitSpec, StartsWhole

(***************************************************************************)
(* pit.s implements three word counters: borrow, reload, halves, phases    *)
(* and latches, for every width of a byte and everything the guest writes. *)
(***************************************************************************)
THEOREM TimeKept == PitSpec => KeepsTime
<1>1. PitInvariant /\ [PitNext]_pitVars => [Counters!Next]_Counters!vars
  BY PitNextStep, PitStutter DEF PitStepFacts
<1>2. QED
  BY <1>1, PitInitStep, PitInvariance, PTL DEF PitSpec, KeepsTime, Counters!Spec

----------------------------------------------------------------------------
(***************************************************************************)
(* The timer beside the controller.                                        *)
(***************************************************************************)
\* With line 0 unmasked the request for it leaves 0 in X: a free latch takes
\* line 0 before any other, a taken one takes nothing.
LEMMA UnmaskedLeavesX ==
  ASSUME TypeOK, 0 \notin pic_mask
  PROVE  XAfterRequest = 0
<1>1. CASE cpu8088_irq_pending
  BY <1>1 DEF XAfterRequest, Delivered, Deliverable
<1>2. CASE ~cpu8088_irq_pending
  <2>1. Delivered = (pic_pending \cup {0}) \ pic_mask
    BY <1>2 DEF Delivered, Deliverable
  <2>2. pic_pending \subseteq Irq /\ 0 \in Irq
    BY PicAssumption DEF TypeOK, PicTypeOK, Irq
  <2>3. 0 \in Delivered /\ Delivered \in SUBSET Irq
    BY <2>1, <2>2
  <2>4. \A k \in Delivered : 0 <= k
    BY <2>3 DEF Irq
  <2>5. Least(Delivered) \in Delivered /\ \A k \in Delivered : Least(Delivered) <= k
    <3>1. \E n \in Delivered : \A k \in Delivered : n <= k
      BY <2>3, <2>4
    <3>2. QED
      BY <3>1, Zenon DEF Least
  <2>6. Least(Delivered) = 0
    <3>1. PICK n \in 0 .. 7 : n = Least(Delivered)
      BY <2>3, <2>5, Zenon DEF Irq
    <3>2. n <= 0
      BY <2>3, <2>5, <3>1
    <3>3. QED
      BY <3>1, <3>2
  <2> QED
    BY <2>3, <2>6 DEF XAfterRequest
<1>3. QED
  BY <1>1, <1>2

\* A step of the timer alone.
LEMMA TimerStep ==
  ASSUME PitInvariant,
         \/ Elapse
         \/ Tick
         \/ \E c \in Programmed, b \in CounterBytes : WriteCounter(c, b)
         \/ \E c \in Programmed : ReadCounter(c)
         \/ \E b \in ControlBytes : WriteControl(b)
  PROVE  PitInvariant' /\ Counters!Next
<1>1. CounterBytes \subseteq Byte
  BY TimerInterruptAssumption DEF Byte
<1>2. PitNext
  BY <1>1, Zenon DEF PitNext, Guest
<1>3. PitStepFacts
  BY <1>2, PitNextStep
<1>4. QED
  BY <1>3 DEF PitStepFacts

\* A step that leaves the channels alone and requests nothing of line 0.
LEMMA TimerRests ==
  ASSUME PitInvariant, UNCHANGED <<pit, pit_cycle_accum>>, irq0' = FALSE
  PROVE  PitInvariant' /\ Counters!Next
<1>1. PitInvariant'
  BY DEF PitInvariant, PitTypeOK
<1>2. Counters!Rest
  BY DEF Counters!Rest
<1>3. QED
  BY <1>1, <1>2 DEF Counters!Next

\* Even astray the tick leaves bytes in the channels.
LEMMA AstrayStep ==
  ASSUME PitInvariant, pit_cycle_accum >= 4, pit_cycle_accum' = pit_cycle_accum - 4,
         irq0' = TRUE, NEW x, TickAstray(x)
  PROVE  PitInvariant'
<1>1. /\ pit \in [Channels -> ChannelType] /\ pit_cycle_accum \in 0 .. 255
      /\ \A c \in Channels : HalfKnown(pit[c])
  BY DEF PitInvariant, PitTypeOK
<1>2. Channels = {0, 1, 2}
  BY DEF Channels
<1>3. pit_cycle_accum' \in 0 .. 255 /\ irq0' \in BOOLEAN
  BY <1>1
<1>4. ASSUME NEW s \in ChannelType, HalfKnown(s)
      PROVE  /\ Counted(s) \in ChannelType /\ HalfKnown(Counted(s))
             /\ ReloadOrStop(s) \in ChannelType /\ HalfKnown(ReloadOrStop(s))
             /\ TickChannel(s) \in ChannelType /\ HalfKnown(TickChannel(s))
  <2>1. Counted(s) \in ChannelType
    BY CountedWord
  <2>2. Counted(s).write_phase = s.write_phase /\ Counted(s).access = s.access
    BY DEF Counted, ChannelType
  <2>3. /\ ReloadOrStop(s) \in ChannelType
        /\ ReloadOrStop(s).write_phase = s.write_phase
        /\ ReloadOrStop(s).access = s.access
    BY DEF ReloadOrStop, Reloaded, ChannelType
  <2>4. /\ TickChannel(s) \in ChannelType
        /\ TickChannel(s).write_phase = s.write_phase
        /\ TickChannel(s).access = s.access
    BY TickChannelFacts
  <2>5. QED
    BY <1>4, <2>1, <2>2, <2>3, <2>4 DEF HalfKnown
<1>5. /\ pit' \in [Channels -> ChannelType]
      /\ \A c \in Channels : HalfKnown(pit'[c])
  <2>1. CASE x = 1
    <3>1. pit' = [pit EXCEPT ![0] = Counted(pit[0]), ![1] = ReloadOrStop(pit[1]),
                             ![2] = Ticked(2)]
      BY <2>1 DEF TickAstray
    <3>2. Ticked(2) \in ChannelType /\ HalfKnown(Ticked(2))
      BY <1>1, <1>2, <1>4 DEF Ticked
    <3>3. QED
      BY <1>1, <1>2, <1>4, <3>1, <3>2
  <2>2. CASE x # 1
    <3>1. pit' = [pit EXCEPT ![0] = Counted(pit[0])]
      BY <2>2 DEF TickAstray
    <3>2. QED
      BY <1>1, <1>2, <1>4, <3>1
  <2>3. QED
    BY <2>1, <2>2
<1>6. QED
  BY <1>3, <1>5 DEF PitInvariant, PitTypeOK

\* Every step of the composition, from the invariants of both.
LEMMA BothStep ==
  ASSUME TypeOK, PitInvariant, NextBoth
  PROVE  /\ TypeOK' /\ PitInvariant'
         /\ 0 \notin pic_mask => Counters!Next
<1>1. CASE Instruction
  <2>1. TypeOK'
    BY <1>1, WriteStep, ProcessorStep DEF Instruction, StepFacts
  <2>2. QED
    BY <1>1, <2>1, TimerStep DEF Instruction
<1>2. CASE TimerPorts
  <2>1. TypeOK'
    BY <1>2 DEF TimerPorts, TypeOK, PicTypeOK, picVars, initVars, latchVars
  <2>2. QED
    BY <1>2, <2>1, TimerStep DEF TimerPorts
<1>3. CASE OtherDevice
  <2>1. PICK n \in Lines : RequestIrq(n)
    BY <1>3 DEF OtherDevice
  <2>2. TypeOK'
    BY <1>3, <2>1, RequestStep DEF OtherDevice, StepFacts
  <2>3. QED
    BY <1>3, <2>2, TimerRests DEF OtherDevice
<1>4. CASE TickBoth
  <2>1. UNCHANGED cpuVars
    BY <1>4 DEF TickBoth
  <2>2. CASE Fires(pit[0])
    <3>1. RequestIrq(0)
      BY <1>4, <2>2 DEF TickBoth
    <3>2. TypeOK'
      BY <2>1, <3>1, TimerInterruptAssumption, RequestStep DEF StepFacts
    <3>3. CASE XAfterRequest = 0
      BY <1>4, <2>2, <3>2, <3>3, TimerStep DEF TickBoth
    <3>4. CASE XAfterRequest # 0
      <4>1. PitInvariant'
        BY <1>4, <2>2, <3>4, AstrayStep DEF TickBoth
      <4>2. QED
        BY <3>2, <3>4, <4>1, UnmaskedLeavesX
    <3>5. QED
      BY <3>3, <3>4
  <2>3. CASE ~Fires(pit[0])
    <3>1. Tick /\ UNCHANGED <<picVars, latchVars>>
      BY <1>4, <2>3 DEF TickBoth
    <3>2. TypeOK'
      BY <2>1, <3>1 DEF TypeOK, PicTypeOK, picVars, initVars, latchVars, cpuVars
    <3>3. QED
      BY <3>1, <3>2, TimerStep
  <2>4. QED
    BY <2>2, <2>3
<1>5. QED
  BY <1>1, <1>2, <1>3, <1>4 DEF NextBoth

\* The invariants of both parts hold of the composition.
LEMMA BothInvariant == SpecBoth => [](TypeOK /\ PitInvariant)
<1>1. InitBoth => TypeOK /\ PitInvariant
  BY InitTypeOK, PitInitStep DEF InitBoth
<1>2. TypeOK /\ PitInvariant /\ UNCHANGED allVars => TypeOK' /\ PitInvariant'
  BY DEF allVars, timerVars, vars, picVars, initVars, latchVars, cpuVars, TypeOK, PicTypeOK,
         PitInvariant, PitTypeOK
<1>3. TypeOK /\ PitInvariant /\ [NextBoth]_allVars => (TypeOK /\ PitInvariant)'
  BY <1>2, BothStep
<1>4. QED
  BY <1>1, <1>3, PTL DEF SpecBoth

(***************************************************************************)
(* While line 0 is unmasked the timer keeps time beside the controller and *)
(* the other devices, for every width of a byte and everything the guest   *)
(* writes: pic_request_irq leaves in X the channel pit_tick_channel had    *)
(* there, because no line goes before line 0.                              *)
(***************************************************************************)
THEOREM TimeKeptUnmasked == SpecBoth => UnmaskedTimerKeepsTime
<1>1. TypeOK /\ PitInvariant /\ [NextBoth]_allVars =>
        [0 \notin pic_mask => Counters!Next \/ UNCHANGED timerVars]_allVars
  BY BothStep
<1>2. QED
  BY <1>1, BothInvariant, PTL DEF SpecBoth, UnmaskedTimerKeepsTime
=============================================================================
