------------------------------- MODULE Timer -------------------------------
(***************************************************************************)
(* What the interval timer promises: three counters of one word each.      *)
(* A tick takes one from every running counter; a counter that comes to    *)
(* zero starts again from its reload value when it is periodic and stops   *)
(* otherwise, and counter 0 raises IRQ 0 then and only then.  A snapshot   *)
(* of a counter does not move with it.                                     *)
(***************************************************************************)
EXTENDS Integers

CONSTANT Modulus   \* a counter counts modulo this number (65536)

Channels == 0 .. 2
Count    == 0 .. Modulus - 1
None     == -1

VARIABLES
  value, reload, running, periodic,   \* functions of the channel
  snapshot,                           \* a count or None
  irq0                                \* the step raised IRQ 0

vars == <<value, reload, running, periodic, snapshot, irq0>>

Init ==
  /\ value = [c \in Channels |-> 0]
  /\ reload = [c \in Channels |-> 0]
  /\ running = [c \in Channels |-> FALSE]
  /\ periodic = [c \in Channels |-> FALSE]
  /\ snapshot = [c \in Channels |-> None]
  /\ irq0 = FALSE

Less(c) == (value[c] - 1) % Modulus
Expires(c) == running[c] /\ Less(c) = 0

Tick ==
  /\ value' = [c \in Channels |->
                 IF ~running[c] THEN value[c]
                 ELSE IF Expires(c) /\ periodic[c] THEN reload[c] ELSE Less(c)]
  /\ running' = [c \in Channels |-> running[c] /\ (Expires(c) => periodic[c])]
  /\ irq0' = Expires(0)
  /\ UNCHANGED <<reload, periodic, snapshot>>

\* The guest sets the reload value, in one write or by halves, and the
\* last write starts the counter.
SetReload(c) ==
  /\ \E n \in Count : reload' = [reload EXCEPT ![c] = n]
  /\ irq0' = FALSE
  /\ UNCHANGED <<value, running, periodic, snapshot>>

Start(c) ==
  /\ \E n \in Count : /\ reload' = [reload EXCEPT ![c] = n]
                      /\ value' = [value EXCEPT ![c] = n]
  /\ running' = [running EXCEPT ![c] = TRUE]
  /\ snapshot' = [snapshot EXCEPT ![c] = None]
  /\ irq0' = FALSE
  /\ UNCHANGED periodic

SetMode(c) ==
  /\ \E p \in BOOLEAN : periodic' = [periodic EXCEPT ![c] = p]
  /\ irq0' = FALSE
  /\ UNCHANGED <<value, reload, running, snapshot>>

Latch(c) ==
  /\ snapshot' = [snapshot EXCEPT ![c] = value[c]]
  /\ irq0' = FALSE
  /\ UNCHANGED <<value, reload, running, periodic>>

Release(c) ==
  /\ snapshot' = [snapshot EXCEPT ![c] = None]
  /\ irq0' = FALSE
  /\ UNCHANGED <<value, reload, running, periodic>>

Rest ==
  /\ irq0' = FALSE
  /\ UNCHANGED <<value, reload, running, periodic, snapshot>>

Guest(c) == SetReload(c) \/ Start(c) \/ SetMode(c) \/ Latch(c) \/ Release(c)

Next == Tick \/ Rest \/ \E c \in Channels : Guest(c)

Spec == Init /\ [][Next]_vars
=============================================================================
