------------------------------- MODULE Oracle -------------------------------
(***************************************************************************)
(* tools/ref8088/unicorn_oracle.py: a vector is run on the reference, and  *)
(* what its trace says is then held against an x86 emulator, step by step. *)
(* The emulator is external.  What an x86 does as an 8088 does it is taken *)
(* to do as the reference, except where the script hooks it, and one round *)
(* of a repeated string at a time; flags that an x86 leaves undefined are  *)
(* any.  At the first instruction in which an x86 is another processor     *)
(* (AsAn8088) the comparison is given up: what comes of it is unknown.     *)
(***************************************************************************)
EXTENDS Reference

CONSTANTS Vectors,   \* the vectors of the suite
          Patience   \* bound: emu_start calls before a comparison is given up

\* run_vector masks words and bytes.  FLAGS is what the 8088 can hold: its
\* reserved bit is set, the four bits that it does not have are not.  Of the
\* expectations a vector has the addresses, and whether there are any of the
\* I/O: the values are the reference's, or run_vector raises.
ASSUME VectorsAssumption ==
  \A v \in Vectors :
    /\ DOMAIN v.regs \subseteq RegisterNames
    /\ \A r \in DOMAIN v.regs : v.regs[r] \in Word16
    /\ v.flags \subseteq 0 .. 11 /\ RESERVED \in v.flags
    /\ v.program \in Seq(Byte)
    /\ DOMAIN v.memory \subseteq 0 .. Megabyte - 1
    /\ \A a \in DOMAIN v.memory : v.memory[a] \in Byte
    /\ DOMAIN v.ports \subseteq Word16 /\ v.ports \in [DOMAIN v.ports -> Byte]
    /\ v.irq \subseteq Byte /\ v.nmi \in BOOLEAN
    /\ v.expectedMemory \subseteq 0 .. Megabyte - 1 /\ v.expectedIo \in BOOLEAN

VARIABLES
  vector,      \* the vector in hand
  stage,       \* "reference", then "oracle", then "done" or "unknown"
  expected,    \* the trace of the reference
  oracle,      \* the emulator, with the script's ports
  at,          \* the entry of the trace that is being compared
  tries,       \* emu_start calls for this entry
  repeating,   \* has_repeat, once it is known
  undefined,   \* history: the flags that the last instruction left undefined
  alarm        \* an assertion failed

oracleVars == <<vector, stage, expected, oracle, at, tries, repeating, undefined, alarm>>
allVars == <<vars, oracleVars>>

----------------------------------------------------------------------------
\* software_interrupt: the hook that does what the 8088 would.
HookInterrupt(m, number, override) ==
  LET ip == IF override = {} THEN m.regs.IP ELSE CHOOSE o \in override : TRUE
      framed == Push(Push(Push(m, FlagsWord(m)), m.regs.CS), ip)
  IN  [framed EXCEPT !.flags = @ \ {IntF, TF},
                     !.regs.IP = ReadMemory(framed.mem, 0, 4 * number, TRUE),
                     !.regs.CS = ReadMemory(framed.mem, 0, 4 * number + 2, TRUE)]

\* port_in: the port of the keyboard is like any other here, and those of
\* the switches answer for themselves whatever they were given.
OraclePort(m, port) ==
  CASE port = \h61 -> m.ppi
    [] port = \h62 -> IF 3 \in BitSet(m.ppi) THEN 6 ELSE 13
    [] port = \h3DA /\ port \notin DOMAIN m.ports -> IF m.phase THEN 9 ELSE 0
    [] OTHER -> Get(m.ports, port, 255)

ByteIn(m, port) ==
  [m EXCEPT !.phase = IF port = \h3DA /\ port \notin DOMAIN m.ports THEN ~@ ELSE @,
            !.io = Append(@, Event("in", port, OraclePort(m, port)))]

PortIn(d) ==
  LET m == PortNamed(d)
      second == (Port(d) + 1) % W
      first == ByteIn(m, Port(d))
      both  == ByteIn(first, second)
      n == OraclePort(m, Port(d)) + IF d.wide THEN 256 * OraclePort(first, second) ELSE 0
  IN  Write(IF d.wide THEN both ELSE first, Accumulator(d.wide), n)

ByteOut(m, port, byte) ==
  [m EXCEPT !.ports = Put(@, port, byte),
            !.ppi = IF port = \h61 THEN byte ELSE @,
            !.io = Append(@, Event("out", port, byte))]

\* (Variant: a word goes out as its low byte twice.)
PortOutLowTwice(d) ==
  LET m == PortNamed(d)
      first == ByteOut(m, Port(d), Low(m.regs.AX))
  IN  IF d.wide THEN ByteOut(first, (Port(d) + 1) % W, Low(m.regs.AX)) ELSE first

PortOut(d) ==
  LET m == PortNamed(d)
      first == ByteOut(m, Port(d), Low(m.regs.AX))
  IN  IF d.wide THEN ByteOut(first, (Port(d) + 1) % W, High(m.regs.AX)) ELSE first

----------------------------------------------------------------------------
\* External: what one emu_start of one instruction does.
Strings == {"movs", "cmps", "stos", "lods", "scas"}
Hooked  == {"int3", "int_imm8", "into"}

RepeatRound(m, d) ==
  LET once == StringOnce(d, d.s)
      over == once.regs.CX = 0
                \/ (d.handler \in {"cmps", "scas"} /\ (ZF \in once.flags) = (d.repeat = \hF2))
  IN  CASE d.s.regs.CX = 0 -> d.s
        [] d.s.regs.CX # 0 /\ over -> once
        [] OTHER -> Jump(once, m.regs.IP)

DivisionFaults(d) ==
  LET m == DecodeModrm(d.s, d.wide, d.override)
  IN  d.handler = "group3" /\ m.reg \in {6, 7} /\ Division(m.s, m.operand, m.reg = 7).error

InterruptNumber(d) ==
  CASE d.handler = "int3" -> 3
    [] d.handler = "into" -> 4
    [] d.handler = "int_imm8" -> CodeAt(d.s, 0)

EmulatedAs(m, d, r, override) ==
  CASE d.handler \in Strings /\ d.repeat # 0 -> Ok(RepeatRound(m, d))
    [] d.handler \in {"in_imm", "in_dx"} -> Ok(PortIn(d))
    [] d.handler \in {"out_imm", "out_dx"} -> Ok(PortOut(d))
    [] DivisionFaults(d) -> Ok(HookInterrupt(m, 0, override))
    [] d.handler \in Hooked ->
         Ok(IF d.handler = "into" /\ OF \notin m.flags THEN d.s
            ELSE HookInterrupt(Consumed(d.s, IF d.handler = "int_imm8" THEN 1 ELSE 0),
                               InterruptNumber(d), override))
    [] d.handler = "hlt" -> Ok(d.s)
    [] OTHER -> r

\* The ModR/M byte's register field, which names the operation of a group.
Extension(d) == (CodeAt(d.s, 0) \div 8) % 8
Logical(d) ==
  LET logic == {"and", "or", "xor"}
  IN  \/ d.handler \in {"test_modrm", "test_acc_imm"}
      \/ d.handler = "group3" /\ Extension(d) = 0
      \/ d.handler = "alu_rm_imm" /\ Operations[Extension(d) + 1] \in logic
      \/ /\ d.handler \in {"alu_modrm", "alu_acc_imm"}
         /\ Operations[((d.opcode \div 8) % 8) + 1] \in logic

\* What an x86 leaves undefined of the flags.
UndefinedFlags(d) ==
  LET e == Extension(d)
      count == ShiftCount(d)
      width == IF d.wide THEN 16 ELSE 8
  IN  CASE Logical(d) -> {AF}
        [] d.handler = "group3" /\ e \in {4, 5} -> {SF, ZF, AF, PF}
        [] d.handler = "group3" /\ e \in {6, 7} /\ ~DivisionFaults(d) -> Arithmetic6
        [] d.handler = "shift" ->
             When(count \notin {0, 1}, OF) \cup When(count # 0 /\ e \in {4, 5, 7}, AF)
               \cup When(count >= width /\ e \in {4, 5}, CF)
        [] d.handler = "daa" -> {OF}
        [] d.handler \in {"aam", "aad"} -> {CF, AF, OF}
        [] OTHER -> {}

\* The machines that a machine may be if these flags are any.
WithUndefined(m, flags) ==
  {[m EXCEPT !.flags = (@ \ flags) \cup chosen] : chosen \in SUBSET flags}

(***************************************************************************)
(* Where an x86 does as an 8088.  It has no end of the megabyte, and none  *)
(* of a segment for the second byte of a word; what it pushes of FLAGS has *)
(* other bits; it takes a shift count modulo 32, repeats as REPNE whatever *)
(* the order of the prefixes, locks few instructions, has others where the *)
(* 8088 has none, and a trap flag that works.  Here as well are the two    *)
(* things that the script's side does otherwise: the segment override of   *)
(* A0 to A3, which the reference does not know, and more prefixes than the *)
(* eight bytes in which the script looks for a repetition.                 *)
(***************************************************************************)
OtherFlags == {3, 5, TF}
ShortPrefixes(m) == ~\A n \in 0 .. 7 : CodeAt(m, n) \in Prefixes
Inside(m) ==
  /\ \A i \in DOMAIN Segments : 16 * m.regs[Segments[i]] + W <= Megabyte
  /\ m.regs.IP + 16 <= W
  /\ m.regs.SP % 2 = 0

WithOperand == {"alu_modrm", "alu_rm_imm", "test_modrm", "xchg_modrm", "mov_modrm", "mov_segment",
                "load_far_pointer", "mov_rm_imm", "shift", "group3", "group4", "group5"}
OperandInside(d) ==
  LET operand == DecodeModrm(d.s, d.wide, d.override).operand
  IN  /\ d.handler \in WithOperand /\ operand.kind = "memory" => operand.offset + 4 <= W
      /\ d.handler = "mov_moffs" => d.override = "" /\ CodeWord(d.s, 0) + 2 <= W
      /\ d.handler \in Strings => d.s.regs.SI + 2 <= W /\ d.s.regs.DI + 2 <= W

SameInstruction(m, d) ==
  LET leading == {CodeAt(m, k) : k \in 0 .. PrefixCount(m) - 1}
  IN  /\ \hF0 \notin leading /\ ~(RepeatPrefixes \subseteq leading)
      /\ d.opcode \notin {\h0F, \h9C}
      /\ d.handler = "shift" => ShiftCount(d) < 32 /\ Extension(d) # 6

----------------------------------------------------------------------------
\* The reference runs the vector to its end, or raises and ends everything.
RunReference ==
  /\ stage = "reference"
  /\ Step
  /\ expected' = Append(expected, trace'[1])
  /\ stage' = CASE trace'[1].status = "raised" -> "done"
                [] trace'[1].status # "raised" /\ Len(expected') = vector.steps -> "oracle"
                [] OTHER -> "reference"
  /\ UNCHANGED <<vector, oracle, at, tries, repeating, undefined, alarm>>

Entry == expected[at]
FlagMask == Arithmetic6 \cup {TF, IntF, DF}
AdjustsFirst == vector.program # <<>> /\ vector.program[1] \in {\hD4, \hD5}
ComparedFlags == IF AdjustsFirst THEN {PF, ZF, SF} ELSE FlagMask

Agrees(m, flags) ==
  /\ \A r \in RegisterNames : m.regs[r] = Entry.after[r]
  /\ m.flags \cap flags = Entry.after["FLAGS"] \cap flags

\* The comparison that follows an entry: an alarm ends the script.
Compared(m, flags) ==
  /\ alarm' = ~Agrees(m, flags)
  /\ stage' = IF Agrees(m, flags) THEN stage ELSE "done"
  /\ at' = at + 1
  /\ tries' = 0
  /\ repeating' = FALSE

Comparing == stage = "oracle" /\ at <= Len(expected) /\ tries < Patience
InterruptEntries == {"IRQ", "NMI"}
Injected == Entry.mnemonic \in InterruptEntries
Instruction == Fetched(oracle)
Outcome(d) == EmulatedAs(oracle, d, Handled(d), Entry.return)

\* The program lies in memory as the reference has it, and the entry that is
\* next is one in which an x86 does as an 8088.
AsAn8088 ==
  /\ LET regs == Loaded(vector).regs
     IN  16 * regs.CS + regs.IP + Len(vector.program) <= Megabyte
  /\ oracle.flags \cap OtherFlags = {}
  /\ ~Injected =>
       /\ ShortPrefixes(oracle) /\ Inside(oracle)
       /\ OperandInside(Instruction)
       /\ SameInstruction(oracle, Instruction)

\* Nor has the instruction ended as it would not on an x86: with an opcode
\* that the 8088 has not, an error of the reference, or such flags.
EndedAlike(r) == r.status \in {"ok", "halted"} /\ r.s.flags \cap OtherFlags = {}

\* External: the emulator does what only an x86 does.
Leave ==
  /\ stage' = "unknown"
  /\ UNCHANGED <<oracle, at, tries, repeating, undefined, alarm>>

TakeInterrupt ==
  /\ Comparing /\ Injected /\ AsAn8088
  /\ \E number \in IF Entry.mnemonic = "NMI" THEN {2} ELSE vector.irq :
       LET m == HookInterrupt(oracle, number, {})
       IN  oracle' = m /\ Compared(m, FlagMask)
  /\ undefined' = {}
  /\ UNCHANGED <<vars, vector, expected>>

\* (Variant: the round is over when the counter has run out.)
RepeatCompleteAtZero(m) == m.regs.CX = 0 /\ m.regs.IP = Entry.after["IP"]
RepeatComplete(m) == m.regs.CX = Entry.after["CX"] /\ m.regs.IP = Entry.after["IP"]

HasRepeat == repeating \/ LastPrefix(oracle, PrefixCount(oracle), RepeatPrefixes) # 0

\* What is done after one emu_start that left the emulator as m.
Resumed(m) ==
  /\ oracle' = m
  /\ IF ~HasRepeat \/ RepeatComplete(m)
       THEN Compared(m, ComparedFlags)
       ELSE /\ tries' = tries + 1 /\ repeating' = TRUE
            /\ UNCHANGED <<stage, at, alarm>>

EmulateOnce ==
  /\ Comparing /\ ~Injected /\ AsAn8088
  /\ \E d \in {Instruction} : \E r \in {Outcome(d)} :
       \/ ~EndedAlike(r) /\ Leave
       \/ /\ EndedAlike(r)
          /\ undefined' = UndefinedFlags(d)
          /\ \E after \in WithUndefined(r.s, UndefinedFlags(d)) : Resumed(after)
  /\ UNCHANGED <<vars, vector, expected>>

Diverge == Comparing /\ ~AsAn8088 /\ Leave /\ UNCHANGED <<vars, vector, expected>>

\* What the ports of the reference saw.
Events == LET joined[i \in 0 .. Len(expected)] ==
                IF i = 0 THEN <<>> ELSE joined[i - 1] \o expected[i].io
          IN  joined[Len(expected)]

\* At the end: the blocks of memory that the vector expects, and the I/O if
\* it expects any.
CompareEnd ==
  /\ stage = "oracle" /\ at > Len(expected)
  /\ alarm' = \/ \E a \in vector.expectedMemory : Get(oracle.mem, a, 0) # Get(cpu.mem, a, 0)
              \/ vector.expectedIo /\ oracle.io # Events
  /\ stage' = "done"
  /\ UNCHANGED <<vars, vector, expected, oracle, at, tries, repeating, undefined>>

Finished == (stage \in {"done", "unknown"} \/ tries = Patience) /\ UNCHANGED allVars

Init ==
  /\ vector \in Vectors
  /\ Begin(vector)
  /\ stage = "reference" /\ expected = <<>>
  /\ oracle = Loaded(vector)
  /\ at = 1 /\ tries = 0 /\ repeating = FALSE /\ undefined = {} /\ alarm = FALSE

Next == RunReference \/ TakeInterrupt \/ EmulateOnce \/ Diverge \/ CompareEnd \/ Finished

Spec == Init /\ [][Next]_allVars

----------------------------------------------------------------------------
Earlier(k) == IF k = 1 THEN Recorded(Loaded(vector)) ELSE expected[k - 1].after

\* An interrupt handler that only returns leaves nothing behind: after the
\* IRET the interrupted program has its registers, its stack and its flags
\* back and goes on at the place the frame names, whatever caused the
\* interrupt and whatever state it came upon (step's interrupt and iret).
FramesReturn ==
  \A k \in 1 .. Len(expected) - 1 :
    expected[k].return # {} /\ expected[k + 1].mnemonic = "iret" =>
      \E ip \in expected[k].return :
        expected[k + 1].after = [Earlier(k) EXCEPT !["IP"] = ip]

\* A stack is loaded whole: between an instruction that changes SS and the
\* one after it no maskable interrupt is taken, so that SS and SP can be
\* given their values one after the other (interrupt_shadow).
StackLoadedWhole ==
  \A k \in 1 .. Len(expected) - 1 :
    expected[k].after["SS"] # Earlier(k)["SS"] => expected[k + 1].mnemonic # "IRQ"

\* Where the script's ports are not the reference's.
SwitchPorts == {\h60, \h61, \h62}
IdlesHalted == \E k \in 1 .. Len(expected) : expected[k].mnemonic = "HLT"
ReadsSwitches ==
  \E i \in 1 .. Len(Events) : Events[i].direction = "in" /\ Events[i].port \in SwitchPorts
LeftUndefined ==
  LET entry == expected[at - 1]
      right == entry.after["FLAGS"]
      wrong == ((oracle.flags \ right) \cup (right \ oracle.flags)) \cap ComparedFlags
  IN  /\ at > 1 /\ wrong # {} /\ wrong \subseteq undefined
      /\ \A r \in RegisterNames : oracle.regs[r] = entry.after[r]
AdjustedEarlier == AdjustsFirst /\ at > 2

\* The comparison raises no alarm of its own making.  As long as a program
\* keeps to what an x86 does as an 8088, the script's interrupt entry, its
\* ports and its repeat loop lead where the reference went, in registers and
\* flags at every step and in memory and I/O at the end.  An alarm comes of
\* flags that the instruction just compared left undefined, and of nothing
\* else, but for three kinds of vector: one that idles halted (the emulator
\* runs on), one that reads the ports of the switches (the script has its
\* own answers), and one that begins with AAM or AAD and goes on (what the
\* flags that are not compared in it do later).
AlarmsExplained ==
  alarm => LeftUndefined \/ IdlesHalted \/ ReadsSwitches \/ AdjustedEarlier

\* The comparison ends: the loop that drives a repeated instruction until
\* CX and IP are the reference's reaches that point, whichever way the
\* repetition ended and whatever prefixes it had, before the rounds of this
\* model are used up.  A program that leaves what an x86 does as an 8088 is
\* followed up to there only; a vector that idles halted is left out: the emulator
\* runs past the halt, and for what it finds there the loop may have no end.
RoundsEnd == tries = Patience => IdlesHalted
=============================================================================
