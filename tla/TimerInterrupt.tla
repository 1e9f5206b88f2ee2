--------------------------- MODULE TimerInterrupt ---------------------------
(***************************************************************************)
(* The timer and the interrupt path together, with the one thing they      *)
(* share beside the request itself: the host's X register.                 *)
(*                                                                         *)
(* pit_tick_channel keeps its channel in X and calls pic_request_irq(0)    *)
(* when channel 0 runs out.  pic_request_irq loads X with the line, 0, and *)
(* the search in pic_service leaves the line it delivers in X.  When that  *)
(* is another line, the rest of pit_tick_channel, and of the loop over the *)
(* channels, works on the channel of that number: line 1 on channel 1; a   *)
(* higher line on memory behind the timer's, where the model stops         *)
(* (pit_astray).                                                           *)
(***************************************************************************)
EXTENDS InterruptPath, Pit

CONSTANT CounterBytes   \* the bytes the guest writes to the channels

\* The program raises lines 0, the timer's, 1 and 6, and the guest writes
\* bytes to the channels; the timer has assumptions of its own (Pit).
ASSUME TimerInterruptAssumption ==
  /\ 0 \in Lines
  /\ Lines \subseteq {0, 1, 6}
  /\ CounterBytes \subseteq Byte

VARIABLE pit_astray   \* the rest of a tick worked on memory behind the channels

timerVars == <<pit, pit_cycle_accum, irq0, pit_astray>>
allVars   == <<vars, timerVars>>

InitBoth == Init /\ PitInit /\ pit_astray = FALSE

\* X after pic_request_irq(0).
Delivered == Deliverable(pic_pending \cup {0}, pic_mask)
XAfterRequest == IF Delivered = {} THEN 0 ELSE Least(Delivered)

\* Channel 0 runs out and X comes back as x: channel 0 is left at zero and
\* running, and channel x is reloaded or stopped in its place.
TickAstray(x) ==
  IF x = 1
    THEN /\ pit' = [pit EXCEPT ![0] = Counted(@), ![1] = ReloadOrStop(@),
                               ![2] = Ticked(2)]
         /\ UNCHANGED pit_astray
    ELSE /\ pit' = [pit EXCEPT ![0] = Counted(@)]
         /\ pit_astray' = TRUE

TickBoth ==
  /\ ~pit_astray
  /\ pit_cycle_accum >= 4
  /\ IF Fires(pit[0])
       THEN /\ RequestIrq(0)
            /\ IF XAfterRequest = 0
                 THEN Tick /\ UNCHANGED pit_astray
                 ELSE /\ pit_cycle_accum' = pit_cycle_accum - 4
                      /\ irq0' = TRUE
                      /\ TickAstray(XAfterRequest)
       ELSE Tick /\ UNCHANGED <<picVars, latchVars, pit_astray>>
  /\ UNCHANGED cpuVars

\* An instruction, followed by its cycles; one that uses the timer's ports
\* leaves the interrupt path alone.
Instruction ==
  /\ ~pit_astray
  /\ Step
  /\ Elapse
  /\ UNCHANGED pit_astray

TimerPorts ==
  /\ \/ \E c \in Programmed, b \in CounterBytes : WriteCounter(c, b)
     \/ \E c \in Programmed : ReadCounter(c)
     \/ \E b \in ControlBytes : WriteControl(b)
  /\ Running
  /\ ~pit_astray
  /\ cpu8088_interrupt_shadow' = 0
  /\ UNCHANGED <<intr, spZero, cpu8088_nmi_pending, cpu8088_halted,
                 picVars, latchVars, pit_astray>>

\* The other devices raise their lines outside pit_advance_cycles.
OtherDevice ==
  /\ ~pit_astray
  /\ pit_cycle_accum < 4
  /\ \E n \in Lines \ {0} : RequestIrq(n)
  /\ irq0' = FALSE
  /\ UNCHANGED <<cpuVars, pit, pit_cycle_accum, pit_astray>>

NextBoth == Instruction \/ TimerPorts \/ TickBoth \/ OtherDevice

SpecBoth == InitBoth /\ [][NextBoth]_allVars

----------------------------------------------------------------------------
(***************************************************************************)
(* The timer takes no harm while its line is unmasked: no other line has   *)
(* a better claim to the latch, so X is 0 after the request.               *)
(***************************************************************************)
UnmaskedTimerKeepsTime ==
  [][0 \notin pic_mask => Counters!Next \/ UNCHANGED timerVars]_allVars
=============================================================================
