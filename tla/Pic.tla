-------------------------------- MODULE Pic --------------------------------
(***************************************************************************)
(* The interrupt controller (pic.s) and the one-place latch through which  *)
(* it hands interrupts to the processor (cpu8088_request_irq in            *)
(* interrupts.s).  pic_service runs only inside a request and inside a     *)
(* mask write: not when an end of interrupt is written and not when the    *)
(* processor empties the latch.                                            *)
(***************************************************************************)
EXTENDS Integers, FiniteSets

CONSTANTS
  Lines,        \* the interrupt lines that some device raises
  CommandBytes, \* the bytes the guest writes to port 20h
  DataBytes     \* the bytes the guest writes to port 21h

Irq == 0 .. 7

ASSUME PicAssumption ==
  /\ Lines \subseteq Irq
  /\ CommandBytes \subseteq 0 .. 255
  /\ DataBytes \subseteq 0 .. 255

VARIABLES
  pic_vector_base,
  pic_mask,             \* the masked lines
  pic_pending,          \* the lines that wait for the latch
  pic_in_service,
  pic_init_step,        \* which initialization word port 21h expects; 0: none
  pic_icw1,
  cpu8088_irq_pending,  \* the latch is taken
  cpu8088_irq_vector    \* the vector in the latch

initVars  == <<pic_init_step, pic_icw1>>
latchVars == <<cpu8088_irq_pending, cpu8088_irq_vector>>
picVars   == <<pic_vector_base, pic_mask, pic_pending, pic_in_service, initVars>>

Bit(b, n) == (b \div 2^n) % 2 = 1
BitSet(b) == {n \in Irq : Bit(b, n)}

\* (Variant: the search starts from the last line.)
Greatest(S) == CHOOSE n \in S : \A k \in S : n >= k
Least(S) == CHOOSE n \in S : \A k \in S : n <= k

\* pic_reset, and the keyboard self-test request io_keyboard_reset makes
\* before the first instruction; cpu8088_reset empties the latch.
PicInit ==
  /\ pic_vector_base = 8
  /\ pic_mask = Irq
  /\ pic_pending = {1} \cap Lines
  /\ pic_in_service = {}
  /\ pic_init_step = 0
  /\ pic_icw1 = 0
  /\ cpu8088_irq_pending = FALSE
  /\ cpu8088_irq_vector = 0

(***************************************************************************)
(* pic_service, after the caller has made the waiting lines W and the mask *)
(* M.  A taken latch makes it do nothing.                                  *)
(***************************************************************************)
\* (Variant: the latch is not looked at.)
DeliverableLatchIgnored(W, M) == W \ M
Deliverable(W, M) == IF cpu8088_irq_pending THEN {} ELSE W \ M

\* (Variant: the delivered line stays pending.)
StillWaitingAll(W, n) == W
StillWaiting(W, n) == W \ {n}

Service(W, M) ==
  LET ready == Deliverable(W, M)
  IN  \/ /\ ready = {}
         /\ pic_pending' = W
         /\ UNCHANGED <<pic_in_service, latchVars>>
      \/ /\ ready # {}
         /\ LET n == Least(ready)
            IN  /\ pic_pending' = StillWaiting(W, n)
                /\ pic_in_service' = pic_in_service \cup {n}
                /\ cpu8088_irq_pending' = TRUE
                /\ cpu8088_irq_vector' = (n + pic_vector_base) % 256

RequestIrq(n) ==
  /\ Service(pic_pending \cup {n}, pic_mask)
  /\ UNCHANGED <<pic_vector_base, pic_mask, initVars>>

----------------------------------------------------------------------------
\* Port 20h: bit 4 starts an initialization, which forgets what is waiting
\* but not what the latch holds; otherwise bit 5 is an end of interrupt.
WriteIcw1(b) ==
  /\ Bit(b, 4)
  /\ pic_icw1' = b
  /\ pic_init_step' = 1
  /\ pic_pending' = {}
  /\ pic_in_service' = {}
  /\ UNCHANGED <<pic_vector_base, pic_mask, latchVars>>

WriteOcw(b) ==
  /\ ~Bit(b, 4)
  /\ pic_in_service' = IF Bit(b, 5) THEN {} ELSE pic_in_service
  /\ UNCHANGED <<pic_vector_base, pic_mask, pic_pending, initVars, latchVars>>

WriteCommand(b) == WriteIcw1(b) \/ WriteOcw(b)

\* Port 21h.
StepAfterCascade == IF Bit(pic_icw1, 0) THEN 3 ELSE 0
StepAfterIcw2    == IF Bit(pic_icw1, 1) THEN StepAfterCascade ELSE 2

WriteIcw2(b) ==
  /\ pic_init_step = 1
  /\ pic_vector_base' = b - (b % 8)
  /\ pic_init_step' = StepAfterIcw2
  /\ UNCHANGED <<pic_mask, pic_pending, pic_in_service, pic_icw1, latchVars>>

WriteLaterIcw ==
  /\ pic_init_step \in {2, 3}
  /\ pic_init_step' = IF pic_init_step = 2 THEN StepAfterCascade ELSE 0
  /\ UNCHANGED <<pic_vector_base, pic_mask, pic_pending, pic_in_service,
                 pic_icw1, latchVars>>

\* (Variant: the new mask takes effect at the next request only.)
WriteMaskLazily(b) ==
  /\ pic_init_step = 0
  /\ pic_mask' = BitSet(b)
  /\ UNCHANGED <<pic_vector_base, pic_pending, pic_in_service, initVars, latchVars>>
WriteMask(b) ==
  /\ pic_init_step = 0
  /\ pic_mask' = BitSet(b)
  /\ Service(pic_pending, BitSet(b))
  /\ UNCHANGED <<pic_vector_base, initVars>>

WriteData(b) == WriteIcw2(b) \/ WriteLaterIcw \/ WriteMask(b)

----------------------------------------------------------------------------
PicTypeOK ==
  /\ pic_vector_base \in {8 * k : k \in 0 .. 31}
  /\ pic_mask \subseteq Irq
  /\ pic_pending \subseteq Lines
  /\ pic_in_service \subseteq Lines
  /\ pic_init_step \in 0 .. 3
  /\ pic_icw1 \in 0 .. 255
  /\ cpu8088_irq_pending \in BOOLEAN
  /\ cpu8088_irq_vector \in 0 .. 255
=============================================================================
