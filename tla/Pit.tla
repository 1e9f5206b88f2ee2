-------------------------------- MODULE Pit --------------------------------
(***************************************************************************)
(* The interval timer (pit.s): three channels kept as pairs of bytes, and  *)
(* the cycle accumulator that turns the cycles of each instruction into    *)
(* ticks, four cycles to a tick.                                           *)
(*                                                                         *)
(* pit_advance_cycles adds the cycles and then loops, a tick a turn, while *)
(* the accumulator holds four or more; the guest runs again when it is     *)
(* below four.  Elapse is the addition, Tick a turn of the loop.           *)
(*                                                                         *)
(* Here pic_request_irq(0) is taken to leave the X register, which holds   *)
(* the channel, alone.  It does so unless it delivers another line:        *)
(* TimerInterrupt has that case.                                           *)
(***************************************************************************)
EXTENDS Integers

CONSTANTS
  Base,         \* values of a byte (256)
  Programmed,   \* the channels whose data port the guest uses
  ControlBytes, \* the bytes the guest writes to port 43h
  Elapsed       \* cycles an instruction takes

Channels == 0 .. 2
Byte     == 0 .. Base - 1

\* The dearest instruction takes 213 cycles, so the sum fits a byte.
ASSUME PitAssumption ==
  /\ Base \in Nat \ {0, 1}
  /\ Programmed \subseteq Channels
  /\ ControlBytes \subseteq 0 .. 255
  /\ Elapsed \subseteq 1 .. 252

VARIABLES
  pit,             \* the channels
  pit_cycle_accum,
  irq0             \* the step called pic_request_irq(0)

pitVars == <<pit, pit_cycle_accum, irq0>>

ChannelType ==
  [reload_lo : Byte, reload_hi : Byte, count_lo : Byte, count_hi : Byte,
   access : 0 .. 3, mode : 0 .. 5, write_phase : BOOLEAN,
   read_phase : BOOLEAN, latched_lo : Byte, latched_hi : Byte,
   latched : BOOLEAN, running : BOOLEAN]

\* pit_reset
PitInit ==
  /\ pit = [c \in Channels |->
              [reload_lo |-> 0, reload_hi |-> 0, count_lo |-> 0, count_hi |-> 0,
               access |-> 0, mode |-> 0, write_phase |-> FALSE,
               read_phase |-> FALSE, latched_lo |-> 0, latched_hi |-> 0,
               latched |-> FALSE, running |-> FALSE]]
  /\ pit_cycle_accum = 0
  /\ irq0 = FALSE

----------------------------------------------------------------------------
\* pit_tick_channel.
\* (Variant: the high byte is taken down when the low byte becomes zero.)
CountedEarly(s) ==
  LET lo == (s.count_lo - 1) % Base
  IN  [s EXCEPT !.count_lo = lo,
                !.count_hi = IF lo = 0 THEN (s.count_hi - 1) % Base
                                       ELSE s.count_hi]
Counted(s) ==
  LET lo == (s.count_lo - 1) % Base
  IN  [s EXCEPT !.count_lo = lo,
                !.count_hi = IF lo = Base - 1 THEN (s.count_hi - 1) % Base
                                              ELSE s.count_hi]

AtZero(s) == s.count_lo = 0 /\ s.count_hi = 0

Repeats(s) == s.mode \in {2, 3}

Reloaded(s) == [s EXCEPT !.count_lo = s.reload_lo, !.count_hi = s.reload_hi]

ReloadOrStop(s) ==
  IF Repeats(s) THEN Reloaded(s) ELSE [s EXCEPT !.running = FALSE]

TickChannel(s) ==
  LET k == Counted(s) IN IF AtZero(k) THEN ReloadOrStop(k) ELSE k

Fires(s) == s.running /\ AtZero(Counted(s))

\* (Variant: what is left of the cycles before is dropped.)
ElapseForgets ==
  /\ pit_cycle_accum < 4
  /\ \E n \in Elapsed : pit_cycle_accum' = n
  /\ irq0' = FALSE
  /\ UNCHANGED pit
Elapse ==
  /\ pit_cycle_accum < 4
  /\ \E n \in Elapsed : pit_cycle_accum' = (pit_cycle_accum + n) % 256
  /\ irq0' = FALSE
  /\ UNCHANGED pit

Ticked(c) == IF pit[c].running THEN TickChannel(pit[c]) ELSE pit[c]

Tick ==
  /\ pit_cycle_accum >= 4
  /\ pit_cycle_accum' = pit_cycle_accum - 4
  /\ pit' = [c \in Channels |-> Ticked(c)]
  /\ irq0' = Fires(pit[0])

----------------------------------------------------------------------------
\* The guest's accesses, between two advances.
Access(c, s) ==
  /\ pit_cycle_accum < 4
  /\ pit' = [pit EXCEPT ![c] = s]
  /\ irq0' = FALSE
  /\ UNCHANGED pit_cycle_accum

\* pit_load_channel
Loaded(s) ==
  [Reloaded(s) EXCEPT !.running = TRUE, !.latched = FALSE, !.read_phase = FALSE]

\* Ports 40h to 42h: low byte only, high byte only, or low then high.
\* (Variant: the phase is left at the high byte.)
WrittenPhaseStuck(s, b) ==
  CASE s.access \notin {2, 3} ->
         Loaded([s EXCEPT !.reload_lo = b, !.reload_hi = 0])
    [] s.access = 2 -> Loaded([s EXCEPT !.reload_hi = b, !.reload_lo = 0])
    [] s.access = 3 /\ s.write_phase -> Loaded([s EXCEPT !.reload_hi = b])
    [] OTHER -> [s EXCEPT !.reload_lo = b, !.write_phase = TRUE]
Written(s, b) ==
  CASE s.access \notin {2, 3} ->
         Loaded([s EXCEPT !.reload_lo = b, !.reload_hi = 0])
    [] s.access = 2 -> Loaded([s EXCEPT !.reload_hi = b, !.reload_lo = 0])
    [] s.access = 3 /\ s.write_phase ->
         Loaded([s EXCEPT !.reload_hi = b, !.write_phase = FALSE])
    [] OTHER -> [s EXCEPT !.reload_lo = b, !.write_phase = TRUE]

\* A read of a pair alternates low and high; the high byte of a latched
\* pair releases the latch but leaves the phase.
AfterRead(s) ==
  CASE s.access # 3 -> [s EXCEPT !.latched = FALSE]
    [] s.access = 3 /\ ~s.read_phase -> [s EXCEPT !.read_phase = TRUE]
    [] s.access = 3 /\ s.read_phase /\ s.latched -> [s EXCEPT !.latched = FALSE]
    [] OTHER -> [s EXCEPT !.read_phase = FALSE]

\* Port 43h: two bits of channel (3: nothing), two of access (0: latch the
\* count), three of mode, of which 6 and 7 mean 2 and 3.
ControlChannel(b) == b \div 64
ControlAccess(b)  == (b \div 16) % 4
ControlMode(b) ==
  LET m == (b \div 2) % 8 IN IF m < 6 THEN m ELSE m % 4

CountLatched(s) ==
  [s EXCEPT !.latched_lo = s.count_lo, !.latched_hi = s.count_hi,
            !.latched = TRUE, !.read_phase = FALSE]

Controlled(s, b) ==
  IF ControlAccess(b) = 0
    THEN CountLatched(s)
    ELSE [s EXCEPT !.access = ControlAccess(b), !.mode = ControlMode(b),
                   !.write_phase = FALSE, !.read_phase = FALSE]

WriteCounter(c, b) == Access(c, Written(pit[c], b))
ReadCounter(c)     == Access(c, AfterRead(pit[c]))
WriteControl(b) ==
  /\ ControlChannel(b) \in Channels
  /\ Access(ControlChannel(b), Controlled(pit[ControlChannel(b)], b))

Guest ==
  \/ \E c \in Programmed, b \in Byte : WriteCounter(c, b)
  \/ \E c \in Programmed : ReadCounter(c)
  \/ \E b \in ControlBytes : WriteControl(b)

PitNext == Elapse \/ Tick \/ Guest

PitSpec == PitInit /\ [][PitNext]_pitVars

\* The main loop follows every instruction with pit_advance_cycles, which
\* loops until the accumulator is below four.
PitFairSpec == PitSpec /\ WF_pitVars(Elapse) /\ WF_pitVars(Tick)

----------------------------------------------------------------------------
(***************************************************************************)
(* The bytes stay bytes, the modes those that the tick distinguishes, and  *)
(* the accumulator never overflows.                                        *)
(***************************************************************************)
PitTypeOK ==
  /\ pit \in [Channels -> ChannelType]
  /\ pit_cycle_accum \in 0 .. 255
  /\ irq0 \in BOOLEAN

Word(hi, lo) == hi * Base + lo

(***************************************************************************)
(* The pairs of bytes, with their borrow, their halves and their phases,   *)
(* behave as the counters of Timer: the channels keep time, IRQ 0 comes    *)
(* exactly when channel 0 runs out, and a latched count stands still.      *)
(***************************************************************************)
Counters == INSTANCE Timer WITH
  Modulus  <- Base * Base,
  value    <- [c \in Channels |-> Word(pit[c].count_hi, pit[c].count_lo)],
  reload   <- [c \in Channels |-> Word(pit[c].reload_hi, pit[c].reload_lo)],
  running  <- [c \in Channels |-> pit[c].running],
  periodic <- [c \in Channels |-> pit[c].mode \in {2, 3}],
  snapshot <- [c \in Channels |->
                 IF pit[c].latched THEN Word(pit[c].latched_hi, pit[c].latched_lo)
                                   ELSE -1]
KeepsTime == Counters!Spec

(***************************************************************************)
(* A write in two halves starts the channel with both: the channel starts  *)
(* only from a write, and never between the halves.                        *)
(***************************************************************************)
StartsWhole ==
  [][\A c \in Channels :
       pit'[c].running /\ ~pit[c].running => ~pit'[c].write_phase]_pitVars

(***************************************************************************)
(* A periodic channel 0 that the guest no longer touches raises IRQ 0 for  *)
(* ever.                                                                   *)
(***************************************************************************)
Periodic0 == pit[0].running /\ pit[0].mode \in {2, 3}
TimerFires == <>[][~Guest]_pitVars /\ <>[]Periodic0 => []<>irq0
=============================================================================
