--------------------------- MODULE InterruptPath ---------------------------
(***************************************************************************)
(* The whole way of an interrupt: a device raises its line, the controller *)
(* passes it to the processor's latch, the processor polls the latch       *)
(* between instructions (cpu8088_service_pending_interrupt, called first   *)
(* by cpu8088_step) and enters the handler.                                *)
(*                                                                         *)
(* The guest program is arbitrary: any instruction that touches this state *)
(* may come next.  Devices raise lines between or inside instructions: the *)
(* timer after each, the keyboard after each batch of 64, the diskette     *)
(* controller inside an OUT.                                               *)
(***************************************************************************)
EXTENDS Pic

VARIABLES
  intr,                     \* IF, the interrupt flag
  spZero,                   \* SP = 0
  cpu8088_interrupt_shadow, \* 1: the next poll takes no interrupt
  cpu8088_nmi_pending,
  cpu8088_halted

cpuVars == <<intr, spZero, cpu8088_interrupt_shadow, cpu8088_nmi_pending,
             cpu8088_halted>>
vars == <<picVars, latchVars, cpuVars>>

\* cpu8088_reset: IF clear and SP zero.
Init ==
  /\ PicInit
  /\ intr = FALSE
  /\ spZero = TRUE
  /\ cpu8088_interrupt_shadow = 0
  /\ cpu8088_nmi_pending = FALSE
  /\ cpu8088_halted = FALSE

----------------------------------------------------------------------------
(***************************************************************************)
(* The poll.  A non-maskable interrupt comes first and ignores everything  *)
(* else; a shadow is used up and nothing is taken; the latch is taken only *)
(* with IF set and SP not zero.                                            *)
(***************************************************************************)
IrqTaken ==
  /\ ~cpu8088_nmi_pending
  /\ cpu8088_interrupt_shadow = 0
  /\ cpu8088_irq_pending
  /\ ~spZero
  /\ intr

NothingTaken == ~cpu8088_nmi_pending /\ ~IrqTaken

\* cpu8088_interrupt: push FLAGS, CS and IP, clear IF and TF.  Three pushes
\* take SP away from zero, and bring it there only from 6.
Enter ==
  /\ intr' = FALSE
  /\ spZero' \in (IF spZero THEN {FALSE} ELSE BOOLEAN)

EnterNmi ==
  /\ cpu8088_nmi_pending
  /\ Enter
  /\ cpu8088_nmi_pending' = FALSE
  /\ cpu8088_halted' = FALSE
  /\ UNCHANGED <<cpu8088_interrupt_shadow, picVars, latchVars>>

EnterIrq ==
  /\ IrqTaken
  /\ Enter
  /\ cpu8088_irq_pending' = FALSE
  /\ cpu8088_halted' = FALSE
  /\ UNCHANGED <<cpu8088_irq_vector, cpu8088_interrupt_shadow,
                 cpu8088_nmi_pending, picVars>>

\* A poll that takes nothing uses up the shadow; a halted processor then
\* does nothing more.
StayHalted ==
  /\ NothingTaken
  /\ cpu8088_halted
  /\ cpu8088_interrupt_shadow' = 0
  /\ UNCHANGED <<intr, spZero, cpu8088_nmi_pending, cpu8088_halted,
                 picVars, latchVars>>

----------------------------------------------------------------------------
\* The instructions, each after a poll that took nothing.
\* (Variant: the poll's outcome is not looked at.)
RunningAnyway == ~cpu8088_halted
Running == NothingTaken /\ ~cpu8088_halted

Sti ==
  /\ Running
  /\ intr' = TRUE
  /\ cpu8088_interrupt_shadow' = 1
  /\ UNCHANGED <<spZero, cpu8088_nmi_pending, cpu8088_halted,
                 picVars, latchVars>>

Cli ==
  /\ Running
  /\ intr' = FALSE
  /\ cpu8088_interrupt_shadow' = 0
  /\ UNCHANGED <<spZero, cpu8088_nmi_pending, cpu8088_halted,
                 picVars, latchVars>>

\* MOV SS and POP SS; POP may bring SP to zero or away from it.
LoadSs(z) ==
  /\ Running
  /\ spZero' = z
  /\ cpu8088_interrupt_shadow' = 1
  /\ UNCHANGED <<intr, cpu8088_nmi_pending, cpu8088_halted,
                 picVars, latchVars>>

\* Any other instruction: it may move SP, and POPF and IRET load IF.
Ordinary(z, f) ==
  /\ Running
  /\ spZero' = z
  /\ intr' = f
  /\ cpu8088_interrupt_shadow' = 0
  /\ UNCHANGED <<cpu8088_nmi_pending, cpu8088_halted, picVars, latchVars>>

Hlt ==
  /\ Running
  /\ cpu8088_halted' = TRUE
  /\ cpu8088_interrupt_shadow' = 0
  /\ UNCHANGED <<intr, spZero, cpu8088_nmi_pending, picVars, latchVars>>

\* INT n, INTO and the divide fault enter the same way.
SoftwareInterrupt ==
  /\ Running
  /\ Enter
  /\ cpu8088_interrupt_shadow' = 0
  /\ UNCHANGED <<cpu8088_nmi_pending, cpu8088_halted, picVars, latchVars>>

OutPic ==
  /\ Running
  /\ \/ \E b \in CommandBytes : WriteCommand(b)
     \/ \E b \in DataBytes : WriteData(b)
  /\ cpu8088_interrupt_shadow' = 0
  /\ UNCHANGED <<intr, spZero, cpu8088_nmi_pending, cpu8088_halted>>

----------------------------------------------------------------------------
Device ==
  \/ \E n \in Lines : RequestIrq(n) /\ UNCHANGED cpuVars
  \/ /\ cpu8088_nmi_pending' = TRUE
     /\ UNCHANGED <<picVars, latchVars, intr, spZero, cpu8088_interrupt_shadow,
                    cpu8088_halted>>

Step ==
  \/ EnterNmi
  \/ EnterIrq
  \/ StayHalted
  \/ Sti
  \/ Cli
  \/ \E z \in BOOLEAN : LoadSs(z)
  \/ \E z, f \in BOOLEAN : Ordinary(z, f)
  \/ Hlt
  \/ SoftwareInterrupt
  \/ OutPic

Next == Step \/ Device

Spec == Init /\ [][Next]_vars

----------------------------------------------------------------------------
(***************************************************************************)
(* Every register keeps its range; only lines that some device raises are  *)
(* ever pending or in service (pic_service delivers pending lines only).   *)
(***************************************************************************)
TypeOK ==
  /\ PicTypeOK
  /\ intr \in BOOLEAN
  /\ spZero \in BOOLEAN
  /\ cpu8088_interrupt_shadow \in {0, 1}
  /\ cpu8088_nmi_pending \in BOOLEAN
  /\ cpu8088_halted \in BOOLEAN

\* The line in the latch: vector bases are multiples of eight.
Latched == IF cpu8088_irq_pending THEN {cpu8088_irq_vector % 8} ELSE {}

(***************************************************************************)
(* A latched interrupt is not overwritten: as long as the latch is taken   *)
(* its vector stays, whatever lines are raised and whatever the guest      *)
(* writes to the controller ("timer and keyboard events cannot overwrite   *)
(* one another", pic.s).                                                   *)
(***************************************************************************)
LatchNotOverwritten ==
  [][cpu8088_irq_pending /\ cpu8088_irq_pending'
       => cpu8088_irq_vector' = cpu8088_irq_vector]_vars

(***************************************************************************)
(* Every request is accounted for.  A line leaves the waiting lines only   *)
(* for the latch or by an initialization of the controller, which empties  *)
(* them all; the latch gives its line up only when the processor enters    *)
(* the handler; and a line comes to the latch only from the waiting lines  *)
(* or from the device that raises it now, never masked.                    *)
(***************************************************************************)
RequestsConserved ==
  [][/\ \A n \in pic_pending \ pic_pending' : 
          n \in Latched' \/ (pic_pending' = {} /\ pic_init_step' = 1)
     /\ Latched # {} /\ Latched' = {} => EnterIrq
     /\ \A n \in Latched' \ Latched : n \notin pic_pending' /\ n \notin pic_mask']_vars

(***************************************************************************)
(* The controller serves on every event of its own: a step that raises a   *)
(* line or writes the mask leaves no unmasked line waiting beside an empty *)
(* latch.                                                                  *)
(***************************************************************************)
EventsServe ==
  [][pic_mask' # pic_mask \/ ~(pic_pending' \subseteq pic_pending)
       => cpu8088_irq_pending' \/ pic_pending' \subseteq pic_mask']_vars

----------------------------------------------------------------------------
(***************************************************************************)
(* Fairness.  The main loop calls cpu8088_step for ever, so the processor  *)
(* steps for ever; and a running timer raises line 0 for ever, because     *)
(* pit_advance_cycles follows every step and its counter reloads.          *)
(***************************************************************************)
ProcessorFairness == WF_vars(Step)
TimerFairness     == WF_vars(RequestIrq(0) /\ UNCHANGED cpuVars)

FairSpec == Spec /\ ProcessorFairness /\ TimerFairness

Willing ==
  /\ intr /\ ~spZero
  /\ cpu8088_interrupt_shadow = 0

(***************************************************************************)
(* A latched interrupt is entered, if the guest is ready for one again and *)
(* again and non-maskable interrupts (which nothing in the program raises) *)
(* stop.  A halted processor is thereby woken.                             *)
(***************************************************************************)
LatchedIsEntered ==
  <>[](~cpu8088_nmi_pending) /\ []<>Willing
     => (cpu8088_irq_pending ~> ~cpu8088_irq_pending)
=============================================================================
