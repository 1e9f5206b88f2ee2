------------------------------ MODULE Cpu8088 ------------------------------
(***************************************************************************)
(* What the processor in 6502 code (Interpreter) and the one in Python     *)
(* (Reference) are two programs for: words, flags, registers, a memory of  *)
(* a megabyte, and ports.  Memory and ports are sparse: what was never     *)
(* written reads as its initial value.                                     *)
(***************************************************************************)
EXTENDS Integers, Sequences, FiniteSets, TLC

W == 65536
Megabyte == 16 * W
Byte == 0 .. 255
Word16 == 0 .. W - 1

\* The flags, by their bits in FLAGS; a set of them is the register.
CF == 0
RESERVED == 1
PF == 2
AF == 4
ZF == 6
SF == 7
TF == 8
IntF == 9
DF == 10
OF == 11
Status == {SF, ZF, AF, PF, CF}
Arithmetic6 == {CF, PF, AF, ZF, SF, OF}

When(condition, flag) == IF condition THEN {flag} ELSE {}

\* The bits of a word, and the word of its bits.
Weight == <<1, 2, 4, 8, 16, 32, 64, 128,
            256, 512, 1024, 2048, 4096, 8192, 16384, 32768>>
BitSet(n) == {i \in 0 .. 15 : (n \div Weight[i + 1]) % 2 = 1}
Number(bits) ==
  LET bit(i) == IF i \in bits THEN Weight[i + 1] ELSE 0
  IN  bit(0) + bit(1) + bit(2) + bit(3) + bit(4) + bit(5) + bit(6) + bit(7)
        + bit(8) + bit(9) + bit(10) + bit(11) + bit(12) + bit(13) + bit(14) + bit(15)

Size(wide) == IF wide THEN W ELSE 256
SignBit(n, wide) == n >= Size(wide) \div 2
SignedOf(n, size) == IF n >= size \div 2 THEN n - size ELSE n
Low(n)  == n % 256
High(n) == (n \div 256) % 256

----------------------------------------------------------------------------
WordRegisters == <<"AX", "CX", "DX", "BX", "SP", "BP", "SI", "DI">>
Segments      == <<"ES", "CS", "SS", "DS">>
RegisterNames == {WordRegisters[i] : i \in 1 .. 8} \cup {Segments[i] : i \in 1 .. 4}
                   \cup {"IP"}

\* Register index of a ModR/M field: the byte registers 4 to 7 are high bytes.
GetRegister(regs, index, wide) ==
  IF wide
    THEN regs[WordRegisters[index + 1]]
    ELSE LET word == regs[WordRegisters[(index % 4) + 1]]
         IN  IF index < 4 THEN Low(word) ELSE High(word)

SetRegister(regs, index, wide, n) ==
  IF wide
    THEN [regs EXCEPT ![WordRegisters[index + 1]] = n % W]
    ELSE [regs EXCEPT ![WordRegisters[(index % 4) + 1]] =
            IF index < 4 THEN 256 * High(@) + Low(n) ELSE 256 * Low(n) + Low(@)]

----------------------------------------------------------------------------
Physical(segment, offset) == (16 * segment + offset) % Megabyte

Get(map, at, default) == IF at \in DOMAIN map THEN map[at] ELSE default
Put(map, at, value) ==
  [x \in DOMAIN map \cup {at} |-> IF x = at THEN value ELSE map[x]]

ReadMemory(mem, segment, offset, wide) ==
  Get(mem, Physical(segment, offset), 0)
    + IF wide THEN 256 * Get(mem, Physical(segment, (offset + 1) % W), 0) ELSE 0

WriteMemory(mem, segment, offset, wide, n) ==
  LET low == Put(mem, Physical(segment, offset), Low(n))
  IN  IF wide THEN Put(low, Physical(segment, (offset + 1) % W), High(n)) ELSE low

\* Two sparse maps that read alike.
SameMap(a, b, default) ==
  \A at \in DOMAIN a \cup DOMAIN b : Get(a, at, default) = Get(b, at, default)

----------------------------------------------------------------------------
(***************************************************************************)
(* A machine: registers, flags, memory, whether it has halted, how many    *)
(* instructions interrupts still stand back for, and the ports it is given *)
(* with the I/O of the step in hand, and where an interrupt taken in it    *)
(* returns to.                                                             *)
(***************************************************************************)
Machine(regs, flags, mem, ports) ==
  [regs |-> regs, flags |-> flags, mem |-> mem, halted |-> FALSE, shadow |-> 0,
   ports |-> ports, ppi |-> 0, phase |-> FALSE, io |-> <<>>, return |-> {}]

\* The byte k places after IP, and the machine n bytes further on.
CodeAt(s, k)   == Get(s.mem, Physical(s.regs.CS, (s.regs.IP + k) % W), 0)
CodeWord(s, k) == CodeAt(s, k) + 256 * CodeAt(s, k + 1)
Displacement8(s, k) == SignedOf(CodeAt(s, k), 256)
Consumed(s, n) == [s EXCEPT !.regs.IP = (@ + n) % W]
Jump(s, ip)    == [s EXCEPT !.regs.IP = ip % W]

SegmentPrefix ==
  [prefix \in {\h26, \h2E, \h36, \h3E} |-> Segments[((prefix \div 8) % 4) + 1]]
RepeatPrefixes == {\hF2, \hF3}
Prefixes == DOMAIN SegmentPrefix \cup RepeatPrefixes \cup {\hF0}

\* In a segment of nothing but prefixes the search for the opcode has no end.
PrefixesEnd(s) == ~\A n \in 0 .. W - 1 : CodeAt(s, n) \in Prefixes
PrefixCount(s) ==
  CHOOSE n \in 0 .. W - 1 :
    CodeAt(s, n) \notin Prefixes /\ \A m \in 0 .. n - 1 : CodeAt(s, m) \in Prefixes

\* The last of the first n bytes that is one of these prefixes, or 0.
LastPrefix(s, n, these) ==
  LET at == {k \in 0 .. n - 1 : CodeAt(s, k) \in these}
  IN  IF at = {} THEN 0 ELSE CodeAt(s, CHOOSE k \in at : \A j \in at : j <= k)

(***************************************************************************)
(* The ports as runner.py has them: a port answers what was last written   *)
(* to it, or ones; the keyboard's, the configuration's and the display     *)
(* status have answers of their own until they are written.                *)
(***************************************************************************)
PortValue(s, port) ==
  CASE port \in DOMAIN s.ports -> s.ports[port]
    [] port \notin DOMAIN s.ports /\ port = \h60  -> 0
    [] port \notin DOMAIN s.ports /\ port = \h61  -> s.ppi
    [] port \notin DOMAIN s.ports /\ port = \h62  -> IF 3 \in BitSet(s.ppi) THEN 6 ELSE 13
    [] port \notin DOMAIN s.ports /\ port = \h3DA -> IF s.phase THEN 9 ELSE 0
    [] OTHER -> 255

Event(direction, port, value) == [direction |-> direction, port |-> port, value |-> value]

\* read_port_u8 and write_port_u8: the machine afterwards.
PortRead(s, port) ==
  [s EXCEPT !.phase = IF port = \h3DA /\ port \notin DOMAIN s.ports THEN ~@ ELSE @,
            !.io = Append(@, Event("in", port, PortValue(s, port)))]

PortWritten(s, port, value) ==
  [s EXCEPT !.ports = Put(@, port, value),
            !.ppi = IF port = \h61 THEN value ELSE @,
            !.io = Append(@, Event("out", port, value))]
=============================================================================
