------------------------------ MODULE Keyboard ------------------------------
(***************************************************************************)
(* The way of a key: the host's KERNAL scans its keyboard into a buffer    *)
(* (an interrupt handler does it), host_keyboard_poll takes a key from     *)
(* there once per batch of 64 guest instructions and pushes its make and   *)
(* break codes into a ring, and io_keyboard_service moves codes from the   *)
(* ring by way of a one-place buffer to port 60h, raising IRQ 1.           *)
(*                                                                         *)
(* Several calls make up one handler, so a handler is a composition of     *)
(* functions on the record kb.                                             *)
(***************************************************************************)
EXTENDS Integers, Sequences

CONSTANTS
  RingSize,    \* places in io_keyboard_queue (16)
  HostKeys,    \* make codes of the keys the user strikes
  KernalLimit, \* places in the KERNAL's buffer (10)
  BdaLimit,    \* keystrokes the BIOS's own buffer holds (15)
  PortBytes    \* the bytes the guest writes to port 61h

ASSUME KeyboardAssumption ==
  /\ RingSize \in Nat \ {0, 1}
  /\ HostKeys \subseteq 1 .. 127
  /\ KernalLimit \in Nat
  /\ BdaLimit \in Nat \ {0}
  /\ PortBytes \subseteq 0 .. 255

SelfTestOk == 170
YMake      == 21
Break(make) == make + 128

Unmapped == 0    \* a host key that has no scan code
NoKey    == -1   \* no key is held down

VARIABLES
  kb,                \* the keyboard state of io.s, and the BIOS's buffer
  key_buffer,        \* the KERNAL's buffer, keys given as their make codes
  irq_masked,        \* the host processor's I flag
  pressed,           \* the key the user holds down, until it is scanned
  boot_autokey_sent

hostVars == <<key_buffer, irq_masked, pressed>>
vars == <<kb, hostVars, boot_autokey_sent>>

Slot == 0 .. RingSize - 1
Code == 0 .. 255
Bit(b, n) == (b \div 2^n) % 2 = 1

----------------------------------------------------------------------------
(***************************************************************************)
(* The routines.  asked records that the handler requested IRQ 1;          *)
(* bda_keys counts the keystrokes in the BIOS's buffer at 0040:001A, whose *)
(* pointers both routines rewrite.                                         *)
(***************************************************************************)
Following(i) == (i + 1) % RingSize

\* io_keyboard_push
Push(k, c) ==
  LET full == k.count >= RingSize
  IN  [k EXCEPT !.queue[k.tail] = c,
                !.tail  = Following(k.tail),
                !.head  = IF full THEN Following(k.head) ELSE k.head,
                !.count = IF full THEN RingSize - 1 ELSE k.count + 1]

Present(k) ==
  [k EXCEPT !.wantirq = FALSE, !.pa = k.key_waiting, !.shift_full = TRUE,
            !.bda_keys = 0, !.asked = TRUE]

\* (Variant: the index is advanced before the code is read.)
TakeNextAdvanced(k) ==
  [k EXCEPT !.key_waiting = k.queue[Following(k.head)],
            !.head = Following(k.head), !.count = k.count - 1, !.wantirq = TRUE]
TakeNext(k) ==
  [k EXCEPT !.key_waiting = k.queue[k.head], !.head = Following(k.head),
            !.count = k.count - 1, !.wantirq = TRUE]

\* io_keyboard_service; it does not look at shift_full.
\* (Variant: the request to the interrupt controller is forgotten.)
ServiceSilent(k) ==
  LET p == IF k.wantirq THEN [Present(k) EXCEPT !.asked = k.asked] ELSE k
  IN  IF p.count > 0 THEN TakeNext(p) ELSE p
Service(k) ==
  LET p == IF k.wantirq THEN Present(k) ELSE k
  IN  IF p.count > 0 THEN TakeNext(p) ELSE p

\* io_keyboard_reset; the bytes in the ring stay, and the BIOS's buffer is
\* made to look as if it held one keystroke.
Reset(k) ==
  [k EXCEPT !.head = 0, !.tail = 0, !.count = 0, !.wantirq = FALSE,
            !.shift_full = FALSE, !.pb = 0, !.key_waiting = 0,
            !.pa = SelfTestOk, !.bda_keys = 1, !.asked = TRUE]

RequestIrq1(k) == [k EXCEPT !.asked = TRUE]
Quiet(k)       == [k EXCEPT !.asked = FALSE]

----------------------------------------------------------------------------
(***************************************************************************)
(* The end of a batch of the main loop (hwtest.s): the poll, and once, when *)
(* the guest's instruction pointer stands in the BIOS's prompt, the pushed *)
(* answer.                                                                 *)
(***************************************************************************)
\* (Variant: one service after the two pushes.)
InjectOneService(k, make) ==
  RequestIrq1(Service(Push(Push(k, make), Break(make))))
Inject(k, make) ==
  RequestIrq1(Service(Service(Push(Push(k, make), Break(make)))))

\* host_keyboard_poll: its first service comes before GETIN.
Poll(k, key) ==
  LET s == Service(Quiet(k))
  IN  IF key \in {NoKey, Unmapped} THEN s ELSE Inject(s, key)

AnswerPrompt(k) ==
  RequestIrq1(Service(Service(Service(Push(Push(k, YMake), Break(YMake))))))

NextKey == IF key_buffer = <<>> THEN NoKey ELSE Head(key_buffer)

\* GETIN enables host interrupts when it takes a key.
Getin ==
  \/ key_buffer = <<>> /\ UNCHANGED <<key_buffer, irq_masked>>
  \/ key_buffer # <<>> /\ key_buffer' = Tail(key_buffer) /\ irq_masked' = FALSE

EndOfBatch ==
  /\ Getin
  /\ \/ /\ kb' = Poll(kb, NextKey)
        /\ UNCHANGED boot_autokey_sent
     \/ /\ ~boot_autokey_sent
        /\ boot_autokey_sent' = TRUE
        /\ kb' = AnswerPrompt(Poll(kb, NextKey))
  /\ UNCHANGED pressed

----------------------------------------------------------------------------
\* The guest: port 61h.  A rising bit 6 resets the keyboard, bit 7 clears
\* port 60h and lets the next code through.
ResetOnClockRelease(k, v) ==
  IF Bit(v, 6) /\ ~Bit(k.pb, 6) THEN Reset(k) ELSE k

WritePortB(v) ==
  LET k == [ResetOnClockRelease(Quiet(kb), v) EXCEPT !.pb = v]
  IN  kb' = IF Bit(v, 7) THEN Service([k EXCEPT !.pa = 0, !.shift_full = FALSE])
                         ELSE k

Out61(v) == WritePortB(v) /\ UNCHANGED <<hostVars, boot_autokey_sent>>

\* The guest's BIOS: its interrupt handler buffers a keystroke, its
\* services take one.
BiosStores ==
  /\ kb.bda_keys < BdaLimit
  /\ kb' = [Quiet(kb) EXCEPT !.bda_keys = @ + 1]
  /\ UNCHANGED <<hostVars, boot_autokey_sent>>

BiosTakes ==
  /\ kb.bda_keys > 0
  /\ kb' = [Quiet(kb) EXCEPT !.bda_keys = @ - 1]
  /\ UNCHANGED <<hostVars, boot_autokey_sent>>

----------------------------------------------------------------------------
\* The user, and the KERNAL's interrupt handler, which runs only while the
\* host processor takes interrupts.
Press(key) ==
  /\ pressed = NoKey
  /\ pressed' = key
  /\ UNCHANGED <<kb, key_buffer, irq_masked, boot_autokey_sent>>

KernalScan ==
  /\ ~irq_masked
  /\ pressed # NoKey
  /\ Len(key_buffer) < KernalLimit
  /\ key_buffer' = Append(key_buffer, pressed)
  /\ pressed' = NoKey
  /\ UNCHANGED <<kb, irq_masked, boot_autokey_sent>>

----------------------------------------------------------------------------
\* boot_guest masks host interrupts and resets the keyboard; the KERNAL's
\* buffer holds what was typed before.
Init ==
  /\ kb = Reset([queue |-> [i \in Slot |-> 0], head |-> 0, tail |-> 0,
                 count |-> 0, key_waiting |-> 0, wantirq |-> FALSE, pa |-> 0,
                 shift_full |-> FALSE, pb |-> 0, bda_keys |-> 0,
                 asked |-> FALSE])
  /\ \E n \in 0 .. KernalLimit :
       key_buffer \in [1 .. n -> HostKeys \cup {Unmapped}]
  /\ irq_masked = TRUE
  /\ pressed = NoKey
  /\ boot_autokey_sent = FALSE

Next ==
  \/ EndOfBatch
  \/ \E v \in PortBytes : Out61(v)
  \/ BiosStores
  \/ BiosTakes
  \/ \E k \in HostKeys \cup {Unmapped} : Press(k)
  \/ KernalScan

Spec == Init /\ [][Next]_vars

----------------------------------------------------------------------------
(***************************************************************************)
(* Every field has its range.                                              *)
(***************************************************************************)
KeyboardType ==
  [queue : [Slot -> Code], head : Slot, tail : Slot, count : 0 .. RingSize,
   key_waiting : Code, wantirq : BOOLEAN, pa : Code, shift_full : BOOLEAN,
   pb : Code, bda_keys : 0 .. BdaLimit, asked : BOOLEAN]

TypeOK ==
  /\ kb \in KeyboardType
  /\ key_buffer \in Seq(HostKeys \cup {Unmapped})
  /\ Len(key_buffer) <= KernalLimit
  /\ irq_masked \in BOOLEAN
  /\ pressed \in HostKeys \cup {Unmapped, NoKey}
  /\ boot_autokey_sent \in BOOLEAN

(***************************************************************************)
(* The ring is empty whenever the guest runs: the two or three services    *)
(* that follow two pushes move everything on.  So io_keyboard_push never   *)
(* finds the ring full, and its overflow branch, which would leave one     *)
(* code fewer counted than stored, is never taken.                         *)
(***************************************************************************)
RingDrained == kb.count = 0 /\ kb.head = kb.tail

(***************************************************************************)
(* What is on its way to the port, oldest first.                           *)
(***************************************************************************)
Backlog ==
  (IF kb.wantirq THEN <<kb.key_waiting>> ELSE <<>>)
    \o [i \in 1 .. kb.count |-> kb.queue[(kb.head + i - 1) % RingSize]]

CodesOf ==
  [key \in HostKeys \cup {Unmapped} |->
     IF key = Unmapped THEN <<>> ELSE <<key, Break(key)>>]

(***************************************************************************)
(* Every key taken from the KERNAL's buffer brings its make and its break  *)
(* code to port 60h, in the order typed, none lost, twice or invented,     *)
(* until the guest resets the keyboard.  A handler lets at most five codes *)
(* through: one that waited, a key's two and the prompt's answer.          *)
(***************************************************************************)
Stream == INSTANCE KeyStream WITH
            keys <- key_buffer, backlog <- Backlog, port <- kb.pa,
            Codes <- CodesOf, Answer <- <<YMake, Break(YMake)>>,
            SelfTest <- SelfTestOk, Burst <- 5
InOrder == Stream!Spec

(***************************************************************************)
(* No code comes to the port in silence: a step that shortens the backlog  *)
(* or changes the port to a code requests IRQ 1.                           *)
(***************************************************************************)
CodesAnnounced ==
  [][kb'.pa \notin {kb.pa, 0} \/ Len(Backlog') < Len(Backlog) => kb'.asked]_vars
=============================================================================
