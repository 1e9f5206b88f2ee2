---------------------------- MODULE OracleProofs ----------------------------
(***************************************************************************)
(* For every vector that run_vector can load: the reference processor's    *)
(* registers stay words and its memory bytes, a stack is loaded whole, and *)
(* an interrupt handler that only returns leaves nothing behind.  What a   *)
(* handler does to the machine is said once for each operator it is made   *)
(* of; the invariant then follows from the last entry of the trace alone.  *)
(***************************************************************************)
EXTENDS Oracle, WellFoundedInduction, TLAPS

----------------------------------------------------------------------------
(***************************************************************************)
(* The machines: what a step begins and ends with.                         *)
(***************************************************************************)
Addresses == 0 .. Megabyte - 1
Memories  == UNION {[D -> Byte] : D \in SUBSET Addresses}
PortMaps  == UNION {[D -> Byte] : D \in SUBSET Word16}
FlagSets  == {f \in SUBSET (0 .. 11) : RESERVED \in f}
EventRows == [direction : {"in", "out"}, port : Word16, value : Byte]
Machines ==
  [regs : [RegisterNames -> Word16], flags : FlagSets, mem : Memories,
   halted : BOOLEAN, shadow : {0, 1}, ports : PortMaps, ppi : Byte, phase : BOOLEAN,
   io : Seq(EventRows), return : SUBSET Word16]

\* Numbers.
LEMMA Sizes == W = 65536 /\ Megabyte = 1048576
BY DEF W, Megabyte
LEMMA InWord16 == \A n : n \in Word16 <=> n \in Int /\ 0 <= n /\ n < 65536
<1>1. W \in Int
  BY Sizes
<1>2. \A n : n \in Word16 <=> n \in Int /\ 0 <= n /\ n < W
  BY <1>1 DEF Word16
<1>3. QED
  BY <1>2, Sizes
LEMMA InByte == \A n : n \in Byte <=> n \in Int /\ 0 <= n /\ n < 256
BY DEF Byte
LEMMA InAddresses == \A n : n \in Addresses <=> n \in Int /\ 0 <= n /\ n < 1048576
<1>1. Megabyte \in Int
  BY Sizes
<1>2. \A n : n \in Addresses <=> n \in Int /\ 0 <= n /\ n < Megabyte
  BY <1>1 DEF Addresses
<1>3. QED
  BY <1>2, Sizes
LEMMA Modulo ==
  /\ \A n \in Int : n % 256 \in Int /\ 0 <= n % 256 /\ n % 256 < 256
  /\ \A n \in Int : n % 65536 \in Int /\ 0 <= n % 65536 /\ n % 65536 < 65536
  /\ \A n \in Int : n % 1048576 \in Int /\ 0 <= n % 1048576 /\ n % 1048576 < 1048576
BY SMT
LEMMA WordOf == \A n \in Int : n % W \in Word16
BY Modulo, InWord16, SMT DEF W
LEMMA LowByte == \A n \in Int : Low(n) \in Byte
BY Modulo, InByte DEF Low
LEMMA HighByte == \A n \in Int : High(n) \in Byte
<1>1. \A n \in Int : n \div 256 \in Int
  BY SMT
<1>2. QED
  BY <1>1, Modulo, InByte DEF High
LEMMA TwoBytes ==
  ASSUME NEW n \in Word16
  PROVE  Low(n) + 256 * High(n) = n
<1>1. n \in Int /\ 0 <= n /\ n < 65536
  BY InWord16
<1>2. PICK k \in Int : k = n \div 256 /\ n = 256 * k + (n % 256)
  BY <1>1, SMT
<1>3. n % 256 \in Int /\ 0 <= n % 256 /\ n % 256 < 256
  BY <1>1, Modulo
<1>4. 0 <= k /\ k < 256
  BY <1>1, <1>2, <1>3, SMT
<1>5. k % 256 = k
  BY <1>4, SMT
<1>6. QED
  BY <1>1, <1>2, <1>3, <1>5, SMT DEF Low, High
LEMMA Joined ==
  ASSUME NEW lo \in Byte, NEW hi \in Byte
  PROVE  lo + 256 * hi \in Word16 /\ 256 * hi + lo \in Word16
<1>1. lo \in Int /\ 0 <= lo /\ lo < 256 /\ hi \in Int /\ 0 <= hi /\ hi < 256
  BY InByte
<1>2. QED
  BY <1>1, InWord16, SMT
LEMMA PhysicalAddress ==
  ASSUME NEW segment \in Int, NEW offset \in Int
  PROVE  Physical(segment, offset) \in Addresses
<1>1. 16 * segment + offset \in Int
  OBVIOUS
<1>2. Physical(segment, offset) = (16 * segment + offset) % 1048576
  BY Sizes DEF Physical
<1>3. QED
  BY <1>1, <1>2, Modulo, InAddresses, SMT
LEMMA PhysicalDistinct ==
  ASSUME NEW segment \in Word16, NEW a \in Word16, NEW b \in Word16, a # b
  PROVE  Physical(segment, a) # Physical(segment, b)
<1>1. /\ segment \in Int /\ a \in Int /\ 0 <= a /\ a < 65536
      /\ b \in Int /\ 0 <= b /\ b < 65536
  BY InWord16
<1>2. \A n \in Int : \E k \in Int : n = 1048576 * k + (n % 1048576)
  <2> TAKE n \in Int
  <2>1. n \div 1048576 \in Int /\ n = 1048576 * (n \div 1048576) + (n % 1048576)
    BY SMT
  <2>2. QED
    BY <2>1
<1>3. PICK n \in Int : n = 16 * segment + a
  BY <1>1
<1>4. PICK m \in Int : m = 16 * segment + b
  BY <1>1
<1>5. PICK k \in Int : n = 1048576 * k + (n % 1048576)
  BY <1>2
<1>6. PICK l \in Int : m = 1048576 * l + (m % 1048576)
  BY <1>2
<1>7. n % 1048576 \in Int /\ m % 1048576 \in Int
  BY Modulo
<1>8. ASSUME n % 1048576 = m % 1048576
      PROVE  FALSE
  <2>1. a - b = 1048576 * (k - l)
    BY <1>1, <1>3, <1>4, <1>5, <1>6, <1>7, <1>8, SMT
  <2>2. QED
    BY <1>1, <2>1, SMT
<1>9. /\ Physical(segment, a) = n % 1048576
      /\ Physical(segment, b) = m % 1048576
  <2>1. /\ Physical(segment, a) = (16 * segment + a) % 1048576
        /\ Physical(segment, b) = (16 * segment + b) % 1048576
    BY Sizes DEF Physical
  <2>2. QED
    BY <1>3, <1>4, <2>1, SMT
<1>10. QED
  BY <1>8, <1>9

----------------------------------------------------------------------------
(***************************************************************************)
(* Memory.                                                                 *)
(***************************************************************************)
LEMMA MapRead ==
  ASSUME NEW S, NEW m \in UNION {[D -> Byte] : D \in SUBSET S}, NEW a, NEW b \in Byte
  PROVE  Get(m, a, b) \in Byte
BY DEF Get

LEMMA MapPut ==
  ASSUME NEW S, NEW m \in UNION {[D -> Byte] : D \in SUBSET S}, NEW a \in S, NEW b \in Byte
  PROVE  Put(m, a, b) \in UNION {[D -> Byte] : D \in SUBSET S}
<1>1. PICK D \in SUBSET S : m \in [D -> Byte]
  OBVIOUS
<1>2. Put(m, a, b) \in [D \cup {a} -> Byte]
  BY <1>1 DEF Put
<1>3. D \cup {a} \in SUBSET S
  BY <1>1
<1>4. QED
  BY <1>2, <1>3

\* What was put is there, and nothing else has changed.
LEMMA PutGet ==
  ASSUME NEW m, NEW a, NEW b, NEW v, NEW default
  PROVE  Get(Put(m, a, v), b, default) = IF a = b THEN v ELSE Get(m, b, default)
BY DEF Get, Put

LEMMA Zero ==
  0 \in Byte /\ 0 \in Word16 /\ 1 \in Word16 /\ Byte \subseteq Word16 /\ Word16 \subseteq Int
BY InByte, InWord16

LEMMA MemoryRead ==
  ASSUME NEW m \in Memories, NEW a
  PROVE  Get(m, a, 0) \in Byte
BY MapRead, Zero DEF Memories

LEMMA MemoryPut ==
  ASSUME NEW m \in Memories, NEW a \in Addresses, NEW b \in Byte
  PROVE  Put(m, a, b) \in Memories
BY MapPut DEF Memories

LEMMA Readable ==
  ASSUME NEW m \in Memories, NEW segment, NEW offset, NEW wide
  PROVE  /\ ReadMemory(m, segment, offset, wide) \in Word16
         /\ ~wide => ReadMemory(m, segment, offset, wide) \in Byte
<1> DEFINE lo == Get(m, Physical(segment, offset), 0)
           hi == Get(m, Physical(segment, (offset + 1) % W), 0)
<1>1. lo \in Byte /\ hi \in Byte
  BY MemoryRead
<1>2. ReadMemory(m, segment, offset, wide) = lo + IF wide THEN 256 * hi ELSE 0
  BY DEF ReadMemory
<1> HIDE DEF lo, hi
<1>3. lo + 256 * hi \in Word16 /\ lo + 0 = lo /\ lo \in Word16
  BY <1>1, Joined, InByte, Zero
<1>4. QED
  BY <1>1, <1>2, <1>3

LEMMA Writable ==
  ASSUME NEW m \in Memories, NEW segment \in Int, NEW offset \in Int, NEW wide, NEW n \in Int
  PROVE  WriteMemory(m, segment, offset, wide, n) \in Memories
<1>1. Low(n) \in Byte /\ High(n) \in Byte
  BY LowByte, HighByte
<1>2. Put(m, Physical(segment, offset), Low(n)) \in Memories
  BY <1>1, PhysicalAddress, MemoryPut
<1>3. offset + 1 \in Int
  OBVIOUS
<1>4. (offset + 1) % W \in Int
  BY <1>3, WordOf, InWord16
<1>5. Put(Put(m, Physical(segment, offset), Low(n)),
          Physical(segment, (offset + 1) % W), High(n)) \in Memories
  BY <1>1, <1>2, <1>4, PhysicalAddress, MemoryPut
<1>6. QED
  BY <1>2, <1>5 DEF WriteMemory

LEMMA NextOffset ==
  ASSUME NEW a \in Word16
  PROVE  /\ (a + 1) % W \in Word16 /\ (a + 1) % W # a
         /\ \A b \in Word16 : a # b => (a + 1) % W # (b + 1) % W
<1>1. a \in Int /\ 0 <= a /\ a < 65536
  BY InWord16
<1>2. a + 1 \in Int
  BY <1>1
<1>3. (a + 1) % W \in Word16
  BY <1>2, WordOf
<1>4. \A b \in Int : 0 <= b /\ b < 65536 => (b + 1) % 65536 = IF b = 65535 THEN 0 ELSE b + 1
  BY SMT
<1>5. \A b \in Word16 : b \in Int /\ (b + 1) % W = IF b = 65535 THEN 0 ELSE b + 1
  BY <1>4, InWord16, Sizes
<1>6. (a + 1) % W # a
  BY <1>1, <1>5, SMT
<1>7. ASSUME NEW b \in Word16, a # b
      PROVE  (a + 1) % W # (b + 1) % W
  <2>1. b \in Int /\ 0 <= b /\ b < 65536
    BY InWord16
  <2>2. QED
    BY <1>1, <1>5, <1>7, <2>1, SMT
<1>8. QED
  BY <1>3, <1>6, <1>7

----------------------------------------------------------------------------
(***************************************************************************)
(* Registers and operands.                                                 *)
(***************************************************************************)
LEMMA Names ==
  /\ RegisterNames = {"AX", "CX", "DX", "BX", "SP", "BP", "SI", "DI", "ES", "CS", "SS", "DS", "IP"}
  /\ \A i \in 0 .. 7 : WordRegisters[i + 1] \in RegisterNames \ {"SS", "CS", "DS", "ES", "IP"}
  /\ \A i \in 0 .. 3 : Segments[i + 1] \in {"ES", "CS", "SS", "DS"}
<1>1. {WordRegisters[i] : i \in 1 .. 8} = {"AX", "CX", "DX", "BX", "SP", "BP", "SI", "DI"}
  BY DEF WordRegisters
<1>2. {Segments[i] : i \in 1 .. 4} = {"ES", "CS", "SS", "DS"}
  BY DEF Segments
<1>3. \A i \in 0 .. 7 : WordRegisters[i + 1] \in {"AX", "CX", "DX", "BX", "SP", "BP", "SI", "DI"}
  BY DEF WordRegisters
<1>4. \A i \in 0 .. 3 : Segments[i + 1] \in {"ES", "CS", "SS", "DS"}
  BY DEF Segments
<1>5. QED
  BY <1>1, <1>2, <1>3, <1>4 DEF RegisterNames

Registers == [RegisterNames -> Word16]

LEMMA Registered ==
  ASSUME NEW regs \in Registers, NEW index \in 0 .. 7, NEW wide
  PROVE  /\ GetRegister(regs, index, wide) \in Word16
         /\ ~wide => GetRegister(regs, index, wide) \in Byte
<1>1. index % 4 \in 0 .. 7
  OBVIOUS
<1>2. /\ regs[WordRegisters[index + 1]] \in Word16
      /\ regs[WordRegisters[(index % 4) + 1]] \in Word16
  BY <1>1, Names DEF Registers
<1>3. QED
  BY <1>2, LowByte, HighByte, Zero DEF GetRegister

LEMMA Changed ==
  ASSUME NEW regs \in Registers, NEW index \in 0 .. 7, NEW wide, NEW n \in Int
  PROVE  /\ SetRegister(regs, index, wide, n) \in Registers
         /\ \A r \in {"SS", "CS", "DS", "ES", "IP"} : SetRegister(regs, index, wide, n)[r] = regs[r]
<1> DEFINE name == WordRegisters[IF wide THEN index + 1 ELSE (index % 4) + 1]
           value == IF wide THEN n % W
                    ELSE IF index < 4 THEN 256 * High(regs[name]) + Low(n)
                                      ELSE 256 * Low(n) + Low(regs[name])
<1>1. SetRegister(regs, index, wide, n) = [regs EXCEPT ![name] = value]
  BY DEF SetRegister
<1>2. index % 4 \in 0 .. 7
  OBVIOUS
<1>3. name \in RegisterNames \ {"SS", "CS", "DS", "ES", "IP"}
  BY <1>2, Names
<1> HIDE DEF name
<1>4. regs[name] \in Int
  BY <1>3, Zero DEF Registers
<1>5. value \in Word16
  BY <1>4, WordOf, LowByte, HighByte, Joined
<1> HIDE DEF value
<1>6. QED
  BY <1>1, <1>3, <1>5 DEF Registers

Operands ==
  [kind : {"register"}, index : 0 .. 7, wide : BOOLEAN]
    \cup [kind : {"memory"}, segment : Word16, offset : Word16, wide : BOOLEAN]

LEMMA OperandKinds ==
  ASSUME NEW o \in Operands
  PROVE  \/ o.kind = "register" /\ o.index \in 0 .. 7 /\ o.wide \in BOOLEAN
         \/ o.kind = "memory" /\ o.segment \in Word16 /\ o.offset \in Word16 /\ o.wide \in BOOLEAN
BY DEF Operands

LEMMA RegisterType ==
  ASSUME NEW index \in 0 .. 7, NEW wide \in BOOLEAN
  PROVE  /\ RegisterOperand(index, wide) \in Operands
         /\ RegisterOperand(index, wide).wide = wide
BY DEF RegisterOperand, Operands

(***************************************************************************)
(* A machine that another has become: it is one, and the stack's segment   *)
(* and what an interrupt left are as they were.                            *)
(***************************************************************************)
Kept(s, t) ==
  /\ t \in Machines
  /\ t.return = s.return
  /\ t.regs["SS"] = s.regs["SS"]

LEMMA Itself == \A s \in Machines : Kept(s, s)
BY DEF Kept

LEMMA Chained == \A r, s, t : Kept(r, s) /\ Kept(s, t) => Kept(r, t)
BY DEF Kept

LEMMA MachineParts ==
  ASSUME NEW s \in Machines
  PROVE  /\ s.regs \in Registers /\ s.flags \in FlagSets /\ s.mem \in Memories
         /\ s.ports \in PortMaps /\ s.ppi \in Byte /\ s.return \in SUBSET Word16
         /\ s.phase \in BOOLEAN /\ s.io \in Seq(EventRows)
         /\ \A r \in RegisterNames : s.regs[r] \in Word16 /\ s.regs[r] \in Int
         /\ s.regs.IP \in Word16 /\ s.regs.CS \in Word16 /\ s.regs.SP \in Word16
         /\ s.regs.SS \in Word16 /\ s.regs.AX \in Word16 /\ s.regs.CX \in Word16
         /\ s.regs.DX \in Word16
         /\ s.regs.DS \in Word16 /\ s.regs.ES \in Word16 /\ s.regs.SI \in Word16
         /\ s.regs.DI \in Word16
BY Names, Zero DEF Machines, Registers

LEMMA ReadType ==
  ASSUME NEW s \in Machines, NEW o \in Operands
  PROVE  /\ Read(s, o) \in Word16
         /\ ~o.wide => Read(s, o) \in Byte
BY MachineParts, OperandKinds, Registered, Readable DEF Read

LEMMA WriteKept ==
  ASSUME NEW s \in Machines, NEW o \in Operands, NEW n \in Int
  PROVE  /\ Kept(s, Write(s, o, n))
         /\ Write(s, o, n).regs.IP = s.regs.IP /\ Write(s, o, n).flags = s.flags
<1>1. CASE o.kind = "register" /\ o.index \in 0 .. 7
  <2> DEFINE t == SetRegister(s.regs, o.index, o.wide, n)
  <2>1. t \in Registers /\ t["SS"] = s.regs["SS"] /\ t["IP"] = s.regs["IP"]
    BY <1>1, MachineParts, Changed
  <2>2. Write(s, o, n) = [s EXCEPT !.regs = t]
    BY <1>1 DEF Write
  <2> HIDE DEF t
  <2>3. QED
    BY <2>1, <2>2 DEF Kept, Machines, Registers
<1>2. CASE o.kind = "memory" /\ o.segment \in Word16 /\ o.offset \in Word16
  <2> DEFINE t == WriteMemory(s.mem, o.segment, o.offset, o.wide, n)
  <2>1. t \in Memories
    BY <1>2, MachineParts, Writable, Zero
  <2>2. Write(s, o, n) = [s EXCEPT !.mem = t]
    BY <1>2 DEF Write
  <2> HIDE DEF t
  <2>3. QED
    BY <2>1, <2>2 DEF Kept, Machines
<1>3. QED
  BY <1>1, <1>2, OperandKinds

LEMMA CodeByte == \A s \in Machines : \A k : CodeAt(s, k) \in Byte /\ CodeAt(s, k) \in Int
<1> TAKE s \in Machines
<1>1. s.mem \in Memories
  BY MachineParts
<1>2. \A a : Get(s.mem, a, 0) \in Byte
  BY <1>1, MemoryRead
<1>3. QED
  BY <1>2, Zero DEF CodeAt

LEMMA CodeNumbers ==
  ASSUME NEW s \in Machines, NEW k
  PROVE  /\ CodeWord(s, k) \in Word16 /\ CodeWord(s, k) \in Int
         /\ Displacement8(s, k) \in Int
<1>1. CodeAt(s, k) \in Byte /\ CodeAt(s, k + 1) \in Byte
  BY CodeByte
<1>2. CodeWord(s, k) \in Word16
  BY <1>1, Joined DEF CodeWord
<1>3. CodeAt(s, k) \in Int
  BY <1>1, Zero
<1>4. 256 \div 2 = 128
  OBVIOUS
<1>5. \A n \in Int : (IF n >= 128 THEN n - 256 ELSE n) \in Int
  OBVIOUS
<1>6. Displacement8(s, k) = IF CodeAt(s, k) >= 128 THEN CodeAt(s, k) - 256 ELSE CodeAt(s, k)
  BY <1>4 DEF Displacement8, SignedOf
<1>7. QED
  BY <1>2, <1>3, <1>5, <1>6, Zero

\* New registers, and a new value of one register.
LEMMA RegistersKept ==
  ASSUME NEW s \in Machines, NEW x \in Registers
  PROVE  /\ [s EXCEPT !.regs = x] \in Machines
         /\ x["SS"] = s.regs["SS"] => Kept(s, [s EXCEPT !.regs = x])
         /\ [s EXCEPT !.regs = x].regs = x
         /\ [s EXCEPT !.regs = x].flags = s.flags
         /\ [s EXCEPT !.regs = x].mem = s.mem
         /\ [s EXCEPT !.regs = x].return = s.return
BY DEF Machines, Registers, Kept

LEMMA OneRegister ==
  ASSUME NEW regs \in Registers, NEW name \in RegisterNames, NEW n \in Word16
  PROVE  /\ [regs EXCEPT ![name] = n] \in Registers
         /\ [regs EXCEPT ![name] = n][name] = n
         /\ \A r \in RegisterNames \ {name} : [regs EXCEPT ![name] = n][r] = regs[r]
BY DEF Registers

\* The address of the next instruction.
LEMMA IpKept ==
  ASSUME NEW s \in Machines, NEW n \in Int
  PROVE  /\ Kept(s, Consumed(s, n)) /\ Kept(s, Jump(s, n))
         /\ Consumed(s, n).flags = s.flags /\ Consumed(s, n).mem = s.mem
         /\ \A r \in RegisterNames \ {"IP"} : Consumed(s, n).regs[r] = s.regs[r]
<1>1. s.regs.IP \in Int /\ s.regs \in Registers
  BY MachineParts, Zero
<1>2. s.regs.IP + n \in Int
  BY <1>1
<1>3. (s.regs.IP + n) % W \in Word16 /\ n % W \in Word16
  BY <1>2, WordOf
<1>4. "IP" \in RegisterNames /\ "SS" \in RegisterNames \ {"IP"}
  BY Names
<1> DEFINE x == [s.regs EXCEPT !["IP"] = (s.regs.IP + n) % W]
           y == [s.regs EXCEPT !["IP"] = n % W]
<1>5. Consumed(s, n) = [s EXCEPT !.regs = x] /\ Jump(s, n) = [s EXCEPT !.regs = y]
  BY DEF Consumed, Jump
<1>6. /\ x \in Registers /\ y \in Registers
      /\ \A r \in RegisterNames \ {"IP"} : x[r] = s.regs[r] /\ y[r] = s.regs[r]
  BY <1>1, <1>3, <1>4, OneRegister
<1> HIDE DEF x, y
<1>7. QED
  BY <1>4, <1>5, <1>6, RegistersKept

----------------------------------------------------------------------------
(***************************************************************************)
(* The flags as a word: sixteen binary digits, and back.                   *)
(***************************************************************************)
LEMMA Weights ==
  /\ Weight[1] = 1 /\ Weight[2] = 2 /\ Weight[3] = 4 /\ Weight[4] = 8
  /\ Weight[5] = 16 /\ Weight[6] = 32 /\ Weight[7] = 64 /\ Weight[8] = 128
  /\ Weight[9] = 256 /\ Weight[10] = 512 /\ Weight[11] = 1024 /\ Weight[12] = 2048
  /\ Weight[13] = 4096 /\ Weight[14] = 8192 /\ Weight[15] = 16384 /\ Weight[16] = 32768
BY DEF Weight

\* A number by its digits, from the highest: what the digits before the
\* k-th come to, and what those after it do.
Digit(bits, i) == IF i \in bits THEN 1 ELSE 0
LEMMA DigitType == \A bits, i : Digit(bits, i) \in {0, 1} /\ Digit(bits, i) \in Int
BY DEF Digit

LEMMA ByDigits ==
  ASSUME NEW bits
  PROVE  Number(bits) =
           Digit(bits, 0) + 2 * Digit(bits, 1) + 4 * Digit(bits, 2) + 8 * Digit(bits, 3)
           + 16 * Digit(bits, 4) + 32 * Digit(bits, 5) + 64 * Digit(bits, 6) + 128 * Digit(bits, 7)
           + 256 * Digit(bits, 8) + 512 * Digit(bits, 9) + 1024 * Digit(bits, 10)
           + 2048 * Digit(bits, 11) + 4096 * Digit(bits, 12) + 8192 * Digit(bits, 13)
           + 16384 * Digit(bits, 14) + 32768 * Digit(bits, 15)
<1>1. \A i, w : w \in Int => (IF i \in bits THEN w ELSE 0) = w * Digit(bits, i)
  BY DEF Digit
<1> DEFINE bit(i) == IF i \in bits THEN Weight[i + 1] ELSE 0
<1>2. Number(bits) = bit(0) + bit(1) + bit(2) + bit(3) + bit(4) + bit(5) + bit(6) + bit(7)
        + bit(8) + bit(9) + bit(10) + bit(11) + bit(12) + bit(13) + bit(14) + bit(15)
  BY DEF Number
<1>3. /\ bit(0) = 1 * Digit(bits, 0) /\ bit(1) = 2 * Digit(bits, 1) 
      /\ bit(2) = 4 * Digit(bits, 2) /\ bit(3) = 8 * Digit(bits, 3) 
      /\ bit(4) = 16 * Digit(bits, 4) /\ bit(5) = 32 * Digit(bits, 5) 
      /\ bit(6) = 64 * Digit(bits, 6) /\ bit(7) = 128 * Digit(bits, 7) 
      /\ bit(8) = 256 * Digit(bits, 8) /\ bit(9) = 512 * Digit(bits, 9) 
      /\ bit(10) = 1024 * Digit(bits, 10) /\ bit(11) = 2048 * Digit(bits, 11) 
      /\ bit(12) = 4096 * Digit(bits, 12) /\ bit(13) = 8192 * Digit(bits, 13) 
      /\ bit(14) = 16384 * Digit(bits, 14) /\ bit(15) = 32768 * Digit(bits, 15) 
  BY <1>1, Weights
<1>4. 1 * Digit(bits, 0) = Digit(bits, 0)
  BY DigitType
<1> HIDE DEF bit
<1>5. QED
  BY <1>2, <1>3, <1>4

LEMMA Halved ==
  \A a \in {0, 1} : \A h \in Int :
    a + 2 * h \in Int /\ (a + 2 * h) \div 2 = h /\ (a + 2 * h) % 2 = a
BY SMT

LEMMA Halves ==
  \A n \in Int : \A m \in Int :
    /\ n \div 1 = m => n \div 2 = m \div 2
    /\ n \div 2 = m => n \div 4 = m \div 2
    /\ n \div 4 = m => n \div 8 = m \div 2
    /\ n \div 8 = m => n \div 16 = m \div 2
    /\ n \div 16 = m => n \div 32 = m \div 2
    /\ n \div 32 = m => n \div 64 = m \div 2
    /\ n \div 64 = m => n \div 128 = m \div 2
    /\ n \div 128 = m => n \div 256 = m \div 2
    /\ n \div 256 = m => n \div 512 = m \div 2
    /\ n \div 512 = m => n \div 1024 = m \div 2
    /\ n \div 1024 = m => n \div 2048 = m \div 2
    /\ n \div 2048 = m => n \div 4096 = m \div 2
    /\ n \div 4096 = m => n \div 8192 = m \div 2
    /\ n \div 8192 = m => n \div 16384 = m \div 2
    /\ n \div 16384 = m => n \div 32768 = m \div 2
BY SMT

LEMMA NumberDigits ==
  ASSUME NEW bits
  PROVE  /\ Number(bits) \in Int /\ 0 <= Number(bits) /\ Number(bits) < 65536
         /\ \A i \in 0 .. 15 : (Number(bits) \div Weight[i + 1]) % 2 = Digit(bits, i)
<1>a0. PICK a0 \in {0, 1} : a0 = Digit(bits, 0)
  BY DigitType
<1>a1. PICK a1 \in {0, 1} : a1 = Digit(bits, 1)
  BY DigitType
<1>a2. PICK a2 \in {0, 1} : a2 = Digit(bits, 2)
  BY DigitType
<1>a3. PICK a3 \in {0, 1} : a3 = Digit(bits, 3)
  BY DigitType
<1>a4. PICK a4 \in {0, 1} : a4 = Digit(bits, 4)
  BY DigitType
<1>a5. PICK a5 \in {0, 1} : a5 = Digit(bits, 5)
  BY DigitType
<1>a6. PICK a6 \in {0, 1} : a6 = Digit(bits, 6)
  BY DigitType
<1>a7. PICK a7 \in {0, 1} : a7 = Digit(bits, 7)
  BY DigitType
<1>a8. PICK a8 \in {0, 1} : a8 = Digit(bits, 8)
  BY DigitType
<1>a9. PICK a9 \in {0, 1} : a9 = Digit(bits, 9)
  BY DigitType
<1>a10. PICK a10 \in {0, 1} : a10 = Digit(bits, 10)
  BY DigitType
<1>a11. PICK a11 \in {0, 1} : a11 = Digit(bits, 11)
  BY DigitType
<1>a12. PICK a12 \in {0, 1} : a12 = Digit(bits, 12)
  BY DigitType
<1>a13. PICK a13 \in {0, 1} : a13 = Digit(bits, 13)
  BY DigitType
<1>a14. PICK a14 \in {0, 1} : a14 = Digit(bits, 14)
  BY DigitType
<1>a15. PICK a15 \in {0, 1} : a15 = Digit(bits, 15)
  BY DigitType
<1>1. PICK n \in Int : n = a0 + 2 * a1 + 4 * a2 + 8 * a3 + 16 * a4 + 32 * a5
            + 64 * a6 + 128 * a7 + 256 * a8 + 512 * a9 + 1024 * a10
            + 2048 * a11 + 4096 * a12 + 8192 * a13 + 16384 * a14 + 32768 * a15
  OBVIOUS
<1>2. Number(bits) = n
  BY <1>1, ByDigits, <1>a0, <1>a1, <1>a2, <1>a3, <1>a4, <1>a5, <1>a6, <1>a7, <1>a8, <1>a9,
     <1>a10, <1>a11, <1>a12, <1>a13, <1>a14, <1>a15
<1>3. 0 <= n /\ n < 65536
  BY <1>1, SMT
<1> DEFINE h16 == 0
           h15 == a15 + 2 * h16
           h14 == a14 + 2 * h15
           h13 == a13 + 2 * h14
           h12 == a12 + 2 * h13
           h11 == a11 + 2 * h12
           h10 == a10 + 2 * h11
           h9 == a9 + 2 * h10
           h8 == a8 + 2 * h9
           h7 == a7 + 2 * h8
           h6 == a6 + 2 * h7
           h5 == a5 + 2 * h6
           h4 == a4 + 2 * h5
           h3 == a3 + 2 * h4
           h2 == a2 + 2 * h3
           h1 == a1 + 2 * h2
           h0 == a0 + 2 * h1
<1>4. n = h0
  BY <1>1, SMT
<1>t16. h16 \in Int
  OBVIOUS
<1> HIDE DEF h16
<1>t15. h15 \in Int /\ h15 \div 2 = h16 /\ h15 % 2 = a15
  BY <1>t16, Halved
<1> HIDE DEF h15
<1>t14. h14 \in Int /\ h14 \div 2 = h15 /\ h14 % 2 = a14
  BY <1>t15, Halved
<1> HIDE DEF h14
<1>t13. h13 \in Int /\ h13 \div 2 = h14 /\ h13 % 2 = a13
  BY <1>t14, Halved
<1> HIDE DEF h13
<1>t12. h12 \in Int /\ h12 \div 2 = h13 /\ h12 % 2 = a12
  BY <1>t13, Halved
<1> HIDE DEF h12
<1>t11. h11 \in Int /\ h11 \div 2 = h12 /\ h11 % 2 = a11
  BY <1>t12, Halved
<1> HIDE DEF h11
<1>t10. h10 \in Int /\ h10 \div 2 = h11 /\ h10 % 2 = a10
  BY <1>t11, Halved
<1> HIDE DEF h10
<1>t9. h9 \in Int /\ h9 \div 2 = h10 /\ h9 % 2 = a9
  BY <1>t10, Halved
<1> HIDE DEF h9
<1>t8. h8 \in Int /\ h8 \div 2 = h9 /\ h8 % 2 = a8
  BY <1>t9, Halved
<1> HIDE DEF h8
<1>t7. h7 \in Int /\ h7 \div 2 = h8 /\ h7 % 2 = a7
  BY <1>t8, Halved
<1> HIDE DEF h7
<1>t6. h6 \in Int /\ h6 \div 2 = h7 /\ h6 % 2 = a6
  BY <1>t7, Halved
<1> HIDE DEF h6
<1>t5. h5 \in Int /\ h5 \div 2 = h6 /\ h5 % 2 = a5
  BY <1>t6, Halved
<1> HIDE DEF h5
<1>t4. h4 \in Int /\ h4 \div 2 = h5 /\ h4 % 2 = a4
  BY <1>t5, Halved
<1> HIDE DEF h4
<1>t3. h3 \in Int /\ h3 \div 2 = h4 /\ h3 % 2 = a3
  BY <1>t4, Halved
<1> HIDE DEF h3
<1>t2. h2 \in Int /\ h2 \div 2 = h3 /\ h2 % 2 = a2
  BY <1>t3, Halved
<1> HIDE DEF h2
<1>t1. h1 \in Int /\ h1 \div 2 = h2 /\ h1 % 2 = a1
  BY <1>t2, Halved
<1> HIDE DEF h1
<1>t0. h0 \in Int /\ h0 \div 2 = h1 /\ h0 % 2 = a0
  BY <1>t1, Halved
<1> HIDE DEF h0
<1>d0. n \div 1 = h0
  BY <1>4, <1>t0, SMT
<1>d1. n \div 2 = h1
  BY <1>t0, <1>d0, Halves
<1>d2. n \div 4 = h2
  BY <1>t1, <1>d1, Halves
<1>d3. n \div 8 = h3
  BY <1>t2, <1>d2, Halves
<1>d4. n \div 16 = h4
  BY <1>t3, <1>d3, Halves
<1>d5. n \div 32 = h5
  BY <1>t4, <1>d4, Halves
<1>d6. n \div 64 = h6
  BY <1>t5, <1>d5, Halves
<1>d7. n \div 128 = h7
  BY <1>t6, <1>d6, Halves
<1>d8. n \div 256 = h8
  BY <1>t7, <1>d7, Halves
<1>d9. n \div 512 = h9
  BY <1>t8, <1>d8, Halves
<1>d10. n \div 1024 = h10
  BY <1>t9, <1>d9, Halves
<1>d11. n \div 2048 = h11
  BY <1>t10, <1>d10, Halves
<1>d12. n \div 4096 = h12
  BY <1>t11, <1>d11, Halves
<1>d13. n \div 8192 = h13
  BY <1>t12, <1>d12, Halves
<1>d14. n \div 16384 = h14
  BY <1>t13, <1>d13, Halves
<1>d15. n \div 32768 = h15
  BY <1>t14, <1>d14, Halves
<1>5. \A i \in 0 .. 3 : (n \div Weight[i + 1]) % 2 = Digit(bits, i)
  BY <1>a0, <1>d0, <1>t0, <1>a1, <1>d1, <1>t1, <1>a2, <1>d2, <1>t2, <1>a3, <1>d3, <1>t3, Weights
<1>6. \A i \in 4 .. 7 : (n \div Weight[i + 1]) % 2 = Digit(bits, i)
  BY <1>a4, <1>d4, <1>t4, <1>a5, <1>d5, <1>t5, <1>a6, <1>d6, <1>t6, <1>a7, <1>d7, <1>t7, Weights
<1>7. \A i \in 8 .. 11 : (n \div Weight[i + 1]) % 2 = Digit(bits, i)
  BY <1>a8, <1>d8, <1>t8, <1>a9, <1>d9, <1>t9, <1>a10, <1>d10, <1>t10, <1>a11, <1>d11, <1>t11,
     Weights
<1>8. \A i \in 12 .. 15 : (n \div Weight[i + 1]) % 2 = Digit(bits, i)
  BY <1>a12, <1>d12, <1>t12, <1>a13, <1>d13, <1>t13, <1>a14, <1>d14, <1>t14, <1>a15, <1>d15,
     <1>t15, Weights
<1>9. QED
  BY <1>2, <1>3, <1>5, <1>6, <1>7, <1>8

LEMMA BitsOfNumber ==
  ASSUME NEW bits \in SUBSET (0 .. 15)
  PROVE  BitSet(Number(bits)) = bits
<1>1. BitSet(Number(bits)) = {i \in 0 .. 15 : Digit(bits, i) = 1}
  BY NumberDigits DEF BitSet
<1>2. \A i : Digit(bits, i) = 1 <=> i \in bits
  BY DEF Digit
<1>3. QED
  BY <1>1, <1>2

\* FLAGS is read back as it was pushed: the four bits that the 8088 does not
\* have are set in the word and dropped again.
LEMMA FlagsAgain ==
  ASSUME NEW s \in Machines
  PROVE  FlagsWord(s) \in Word16 /\ FlagsFrom(FlagsWord(s)) = s.flags
<1>1. s.flags \in SUBSET (0 .. 11) /\ RESERVED \in s.flags
  BY DEF Machines, FlagSets
<1>2. s.flags \cup 12 .. 15 \in SUBSET (0 .. 15)
  BY <1>1
<1>3. FlagsWord(s) \in Word16
  BY NumberDigits, InWord16 DEF FlagsWord
<1>4. BitSet(FlagsWord(s)) = s.flags \cup 12 .. 15
  BY <1>2, BitsOfNumber DEF FlagsWord
<1>5. (s.flags \cup 12 .. 15) \ 12 .. 15 = s.flags
  BY <1>1
<1>6. QED
  BY <1>1, <1>3, <1>4, <1>5 DEF FlagsFrom

LEMMA FlagsTaken == \A n : FlagsFrom(n) \in FlagSets
<1> TAKE n
<1>1. BitSet(n) \ 12 .. 15 \in SUBSET (0 .. 11)
  BY DEF BitSet
<1>2. QED
  BY <1>1 DEF FlagsFrom, FlagSets, RESERVED

FlagBits == 0 .. 11

LEMMA Bits ==
  /\ {CF, PF, AF, ZF, SF, OF, TF, IntF, DF, RESERVED} \subseteq FlagBits
  /\ \A f \in FlagBits : \A c : When(c, f) \in SUBSET FlagBits
  /\ \A f \in FlagSets : f \in SUBSET FlagBits /\ RESERVED \in f
  /\ \A f \in SUBSET FlagBits : RESERVED \in f => f \in FlagSets
BY DEF CF, PF, AF, ZF, SF, OF, TF, IntF, DF, RESERVED, FlagBits, When, FlagSets

\* New flags.
LEMMA FlagsKept ==
  ASSUME NEW s \in Machines, NEW f \in FlagSets
  PROVE  /\ Kept(s, [s EXCEPT !.flags = f])
         /\ [s EXCEPT !.flags = f].regs = s.regs /\ [s EXCEPT !.flags = f].mem = s.mem
BY DEF Machines, Kept

LEMMA SetFlagsKept ==
  ASSUME NEW s \in Machines, NEW touched, NEW set \in SUBSET FlagBits
  PROVE  /\ Kept(s, SetFlags(s, touched, set))
         /\ SetFlags(s, touched, set).regs = s.regs /\ SetFlags(s, touched, set).mem = s.mem
<1>1. s.flags \in SUBSET FlagBits
  BY MachineParts, Bits
<1>2. (s.flags \ touched) \cup set \cup {RESERVED} \in FlagSets
  BY <1>1, Bits
<1>3. QED
  BY <1>2, FlagsKept DEF SetFlags

LEMMA ResultBits == \A n, wide : ResultFlags(n, wide) \in SUBSET FlagBits
<1> TAKE n, wide
<1>1. \A f \in {PF, ZF, SF} : f \in FlagBits
  BY Bits
<1>2. \A c : When(c, PF) \in SUBSET FlagBits /\ When(c, ZF) \in SUBSET FlagBits
              /\ When(c, SF) \in SUBSET FlagBits
  BY <1>1, Bits
<1>3. QED
  BY <1>2 DEF ResultFlags

LEMMA SizeType == \A wide : Size(wide) \in Int /\ Size(wide) > 0 /\ Size(wide) <= 65536
BY Sizes DEF Size

LEMMA SizeOf ==
  ASSUME NEW n \in Int, NEW wide
  PROVE  /\ n % Size(wide) \in Word16 /\ n % Size(wide) \in Int
         /\ ~wide => n % Size(wide) \in Byte
<1>1. n % W \in Word16 /\ n % 256 \in Byte
  BY WordOf, Modulo, InByte
<1>2. QED
  BY <1>1, Zero DEF Size

LEMMA LogicType ==
  ASSUME NEW operation \in {"and", "or", "xor"}, NEW left, NEW right
  PROVE  Logic(operation, left, right) \in Int
BY NumberDigits DEF Logic

OperationNames == {"add", "or", "adc", "sbb", "and", "sub", "xor", "cmp"}

LEMMA OperationOf == \A i \in 0 .. 7 : Operations[i + 1] \in OperationNames
BY DEF Operations, OperationNames

LEMMA AluKept ==
  ASSUME NEW s \in Machines, NEW operation \in OperationNames, NEW left \in Int, NEW right \in Int,
         NEW wide
  PROVE  /\ Alu(s, operation, left, right, wide).n \in Int
         /\ Kept(s, Alu(s, operation, left, right, wide).s)
         /\ Alu(s, operation, left, right, wide).s.regs = s.regs
         /\ Alu(s, operation, left, right, wide).s.mem = s.mem
<1> DEFINE sign(n) == SignBit(n, wide)
           carry == IF CF \in s.flags THEN 1 ELSE 0
           sum  == left + right + IF operation = "adc" THEN carry ELSE 0
           owed == right + IF operation = "sbb" THEN carry ELSE 0
           lows == (left % 16) + (right % 16) + (sum - left - right)
           res  == CASE operation \in {"add", "adc"} -> sum % Size(wide)
                     [] operation \in {"sub", "sbb", "cmp"} -> (left - owed) % Size(wide)
                     [] OTHER -> Logic(operation, left, right)
           set  == CASE operation \in {"add", "adc"} ->
                          When(sum >= Size(wide), CF) \cup When(lows > 15, AF)
                            \cup When(sign(left) = sign(right) /\ sign(res) # sign(left), OF)
                     [] operation \in {"sub", "sbb", "cmp"} ->
                          When(left < owed, CF)
                            \cup When(left % 16 < (right % 16) + owed - right, AF)
                            \cup When(sign(left) # sign(right) /\ sign(res) # sign(left), OF)
                     [] OTHER -> {}
<1>1. Alu(s, operation, left, right, wide)
        = [n |-> res, s |-> SetFlags(s, Arithmetic6, set \cup ResultFlags(res, wide))]
  BY DEF Alu
<1>2. sum \in Int /\ left - owed \in Int
  <2>1. carry \in Int
    OBVIOUS
  <2> HIDE DEF carry
  <2>2. QED
    BY <2>1
<1>3. res \in Int
  <2> HIDE DEF sum, owed
  <2>1. sum % Size(wide) \in Int /\ (left - owed) % Size(wide) \in Int
    BY <1>2, SizeOf
  <2>2. operation \in {"and", "or", "xor"} => Logic(operation, left, right) \in Int
    BY LogicType
  <2>3. QED
    BY <2>1, <2>2 DEF OperationNames
<1>4. set \in SUBSET FlagBits
  <2>1. CF \in FlagBits /\ AF \in FlagBits /\ OF \in FlagBits
    BY Bits
  <2>2. \A c : When(c, CF) \in SUBSET FlagBits /\ When(c, AF) \in SUBSET FlagBits
                /\ When(c, OF) \in SUBSET FlagBits
    BY <2>1, Bits
  <2> DEFINE c1 == When(sum >= Size(wide), CF)
             a1 == When(lows > 15, AF)
             o1 == When(sign(left) = sign(right) /\ sign(res) # sign(left), OF)
             c2 == When(left < owed, CF)
             a2 == When(left % 16 < (right % 16) + owed - right, AF)
             o2 == When(sign(left) # sign(right) /\ sign(res) # sign(left), OF)
  <2>3. c1 \in SUBSET FlagBits /\ a1 \in SUBSET FlagBits /\ o1 \in SUBSET FlagBits
    BY <2>2
  <2>4. c2 \in SUBSET FlagBits /\ a2 \in SUBSET FlagBits /\ o2 \in SUBSET FlagBits
    BY <2>2
  <2>5. set = CASE operation \in {"add", "adc"} -> c1 \cup a1 \cup o1
                [] operation \in {"sub", "sbb", "cmp"} -> c2 \cup a2 \cup o2
                [] OTHER -> {}
    OBVIOUS
  <2> HIDE DEF c1, a1, o1, c2, a2, o2, set
  <2>6. QED
    BY <2>3, <2>4, <2>5
<1> HIDE DEF set, res
<1>5. set \cup ResultFlags(res, wide) \in SUBSET FlagBits
  BY <1>4, ResultBits
<1>6. QED
  BY <1>1, <1>3, <1>5, SetFlagsKept

----------------------------------------------------------------------------
(***************************************************************************)
(* An instruction in hand, its operands and its immediate value.           *)
(***************************************************************************)
Overrides == {"", "ES", "CS", "SS", "DS"}
Instructions ==
  [s : Machines, opcode : Byte, handler : DOMAIN HandlerRows \cup {NoHandler},
   override : Overrides, repeat : Byte, wide : BOOLEAN]

LEMMA InHand ==
  ASSUME NEW d \in Instructions
  PROVE  /\ d.s \in Machines /\ d.opcode \in Byte /\ d.opcode \in Int
         /\ d.override \in Overrides /\ d.wide \in BOOLEAN
BY InByte DEF Instructions

LEMMA ModrmFields ==
  ASSUME NEW b \in Byte
  PROVE  /\ b % 8 \in 0 .. 7 /\ (b \div 8) % 8 \in 0 .. 7 /\ (b \div 8) % 4 \in 0 .. 3
         /\ b % 16 \in 0 .. 15
<1>1. b \in Int /\ b \div 8 \in Int
  BY InByte
<1>2. \A n \in Int : n % 8 \in 0 .. 7 /\ n % 4 \in 0 .. 3 /\ n % 16 \in 0 .. 15
  OBVIOUS
<1>3. QED
  BY <1>1, <1>2

LEMMA BaseNames ==
  \A rm \in 0 .. 7 :
    /\ Bases[rm + 1][1] \in {"BX", "BP", "SI", "DI"}
    /\ Len(Bases[rm + 1]) = 2 => Bases[rm + 1][2] \in {"SI", "DI"}
BY DEF Bases

LEMMA Decoded ==
  ASSUME NEW s \in Machines, NEW wide \in BOOLEAN, NEW override \in Overrides
  PROVE  LET m == DecodeModrm(s, wide, override)
         IN  /\ m.operand \in Operands /\ m.operand.wide = wide /\ m.reg \in 0 .. 7
             /\ m.s \in Machines /\ Kept(s, m.s)
             /\ m.s.flags = s.flags /\ m.s.mem = s.mem
             /\ \A r \in RegisterNames \ {"IP"} : m.s.regs[r] = s.regs[r]
<1> DEFINE modrm == CodeAt(s, 0)
           mod == modrm \div 64
           rm == modrm % 8
           names == Bases[rm + 1]
           direct == mod = 0 /\ rm = 6
           base == s.regs[names[1]] + IF Len(names) = 2 THEN s.regs[names[2]] ELSE 0
           disp == CASE direct \/ mod = 2 -> CodeWord(s, 1)
                     [] mod = 1 -> Displacement8(s, 1)
                     [] OTHER -> 0
           segment == IF override # "" THEN override
                      ELSE IF rm \in {2, 3, 6} /\ ~direct THEN "SS" ELSE "DS"
           offset == ((IF direct THEN 0 ELSE base) + disp) % W
           operand == IF mod = 3 THEN [kind |-> "register", index |-> rm, wide |-> wide]
                      ELSE [kind |-> "memory", segment |-> s.regs[segment], wide |-> wide,
                            offset |-> offset]
           length == IF direct \/ mod = 2 THEN 3 ELSE IF mod = 1 THEN 2 ELSE 1
<1>1. DecodeModrm(s, wide, override)
        = [operand |-> operand, reg |-> (modrm \div 8) % 8, s |-> Consumed(s, length)]
  BY DEF DecodeModrm
<1>2. modrm \in Byte
  BY CodeByte
<1>3. rm \in 0 .. 7 /\ (modrm \div 8) % 8 \in 0 .. 7
  BY <1>2, ModrmFields
<1>4. base \in Int
  <2>1. \A r \in {"BX", "BP", "SI", "DI"} : s.regs[r] \in Int
    BY MachineParts, Names
  <2>2. /\ names[1] \in {"BX", "BP", "SI", "DI"}
        /\ Len(names) = 2 => names[2] \in {"BX", "BP", "SI", "DI"}
    BY <1>3, BaseNames
  <2> HIDE DEF names
  <2>3. s.regs[names[1]] \in Int /\ (Len(names) = 2 => s.regs[names[2]] \in Int)
    BY <2>1, <2>2
  <2>4. QED
    BY <2>3
<1>5. disp \in Int
  BY CodeNumbers
<1>6. offset \in Word16
  <2> HIDE DEF base, disp, direct
  <2>1. (IF direct THEN 0 ELSE base) + disp \in Int
    BY <1>4, <1>5
  <2>2. QED
    BY <2>1, WordOf
<1>7. s.regs[segment] \in Word16
  <2>1. segment \in {"ES", "CS", "SS", "DS"}
    BY DEF Overrides
  <2> HIDE DEF segment
  <2>2. QED
    BY <2>1, MachineParts, Names
<1>8. length \in Int
  OBVIOUS
<1> HIDE DEF offset, segment, rm, mod, length
<1>9. operand \in Operands /\ operand.wide = wide
  BY <1>3, <1>6, <1>7 DEF Operands
<1> HIDE DEF operand, modrm
<1>10. /\ Kept(s, Consumed(s, length))
       /\ Consumed(s, length).flags = s.flags /\ Consumed(s, length).mem = s.mem
       /\ \A r \in RegisterNames \ {"IP"} : Consumed(s, length).regs[r] = s.regs[r]
  BY <1>8, IpKept
<1>11. QED
  BY <1>1, <1>3, <1>9, <1>10 DEF Kept

LEMMA Immediately ==
  ASSUME NEW s \in Machines, NEW wide
  PROVE  /\ Immediate(s, wide).n \in Int
         /\ Immediate(s, wide).s \in Machines /\ Kept(s, Immediate(s, wide).s)
<1>1. CodeWord(s, 0) \in Int /\ CodeAt(s, 0) \in Int
  BY CodeNumbers, CodeByte
<1>2. Kept(s, Consumed(s, IF wide THEN 2 ELSE 1))
  BY IpKept
<1>3. QED
  BY <1>1, <1>2 DEF Immediate, Kept

----------------------------------------------------------------------------
(***************************************************************************)
(* The stack.                                                              *)
(***************************************************************************)
LEMMA Pushed ==
  ASSUME NEW s \in Machines, NEW n \in Int
  PROVE  /\ Push(s, n) \in Machines /\ Kept(s, Push(s, n))
         /\ Push(s, n).flags = s.flags
         /\ Push(s, n).mem = WriteMemory(s.mem, s.regs.SS, (s.regs.SP - 2) % W, TRUE, n)
         /\ Push(s, n).regs = [s.regs EXCEPT !["SP"] = (s.regs.SP - 2) % W]
         /\ (s.regs.SP - 2) % W \in Word16
<1> DEFINE sp == (s.regs.SP - 2) % W
           m == WriteMemory(s.mem, s.regs.SS, sp, TRUE, n)
           x == [s.regs EXCEPT !["SP"] = sp]
<1>1. s.regs.SP \in Int /\ s.regs.SS \in Int /\ s.mem \in Memories /\ s.regs \in Registers
  BY MachineParts, Zero
<1>2. s.regs.SP - 2 \in Int
  BY <1>1
<1>3. sp \in Word16
  BY <1>2, WordOf
<1>4. m \in Memories
  BY <1>1, <1>3, Writable, Zero
<1>5. "SP" \in RegisterNames /\ "SS" \in RegisterNames \ {"SP"}
  BY Names
<1>6. x \in Registers /\ x["SS"] = s.regs["SS"]
  BY <1>1, <1>3, <1>5, OneRegister
<1>7. Push(s, n) = [s EXCEPT !.regs = x, !.mem = m]
  BY DEF Push
<1> HIDE DEF x, m, sp
<1>8. [s EXCEPT !.regs = x, !.mem = m] \in Machines
  BY <1>4, <1>6 DEF Machines, Registers
<1>9. /\ [s EXCEPT !.regs = x, !.mem = m].regs = x
      /\ [s EXCEPT !.regs = x, !.mem = m].mem = m
      /\ [s EXCEPT !.regs = x, !.mem = m].flags = s.flags
      /\ [s EXCEPT !.regs = x, !.mem = m].return = s.return
  BY DEF Machines
<1>10. QED
  BY <1>3, <1>6, <1>7, <1>8, <1>9 DEF Kept, x, m, sp

LEMMA PoppedKept ==
  ASSUME NEW s \in Machines
  PROVE  /\ Popped(s) \in Machines /\ Kept(s, Popped(s))
         /\ Top(s) \in Word16 /\ Top(s) \in Int
         /\ Popped(s).mem = s.mem /\ Popped(s).flags = s.flags
         /\ (s.regs.SP + 2) % W \in Word16
         /\ Popped(s).regs = [s.regs EXCEPT !["SP"] = (s.regs.SP + 2) % W]
<1> DEFINE x == [s.regs EXCEPT !["SP"] = (s.regs.SP + 2) % W]
<1>1. s.regs.SP \in Int /\ s.mem \in Memories /\ s.regs \in Registers
  BY MachineParts, Zero
<1>2. s.regs.SP + 2 \in Int
  BY <1>1
<1>3. (s.regs.SP + 2) % W \in Word16
  BY <1>2, WordOf
<1>4. "SP" \in RegisterNames /\ "SS" \in RegisterNames \ {"SP"}
  BY Names
<1>5. x \in Registers /\ x["SS"] = s.regs["SS"]
  BY <1>1, <1>3, <1>4, OneRegister
<1>6. Popped(s) = [s EXCEPT !.regs = x]
  BY DEF Popped
<1>7. Top(s) \in Word16
  BY <1>1, Readable DEF Top
<1> HIDE DEF x
<1>8. Kept(s, Popped(s)) /\ Popped(s).regs = x /\ Popped(s).mem = s.mem /\ Popped(s).flags = s.flags
  BY <1>5, <1>6, RegistersKept
<1>9. QED
  BY <1>3, <1>7, <1>8, Zero DEF Kept, x

----------------------------------------------------------------------------
(***************************************************************************)
(* The frame of an interrupt: where it goes back to, the code segment and  *)
(* the flags, one under the other, and nothing else is lost.               *)
(***************************************************************************)
Above(a) == (a + 2) % W
Below(a) == (a - 2) % W

\* Two words of a stack lie apart.
Apart(a, b) == a # b /\ (a + 1) % W # b /\ a # (b + 1) % W

LEMMA Steps ==
  ASSUME NEW a \in Word16
  PROVE  /\ Below(a) \in Word16 /\ Above(Below(a)) = a
         /\ Apart(Below(a), a) /\ Apart(Below(Below(a)), a)
<1>1. \A n \in Int : 0 <= n /\ n < 65536 =>
         /\ (n - 2) % 65536 = IF n < 2 THEN n + 65534 ELSE n - 2
         /\ (n + 2) % 65536 = IF n > 65533 THEN n - 65534 ELSE n + 2
         /\ (n + 1) % 65536 = IF n > 65534 THEN 0 ELSE n + 1
  BY SMT
<1>2. a \in Int /\ 0 <= a /\ a < 65536
  BY InWord16
<1>3. PICK b \in Int : b = IF a < 2 THEN a + 65534 ELSE a - 2
  BY <1>2
<1>4. PICK c \in Int : c = IF b < 2 THEN b + 65534 ELSE b - 2
  OBVIOUS
<1>5. 0 <= b /\ b < 65536 /\ 0 <= c /\ c < 65536
  BY <1>2, <1>3, <1>4, SMT
<1>6. Below(a) = b /\ Below(b) = c
  BY <1>1, <1>2, <1>3, <1>4, <1>5, Sizes DEF Below
<1>7. Above(b) = a
  <2>1. (b + 2) % 65536 = IF b > 65533 THEN b - 65534 ELSE b + 2
    BY <1>1, <1>5
  <2>2. (IF b > 65533 THEN b - 65534 ELSE b + 2) = a
    BY <1>2, <1>3
  <2>3. QED
    BY <2>1, <2>2, Sizes DEF Above
<1>8. /\ (a + 1) % W = IF a > 65534 THEN 0 ELSE a + 1
      /\ (b + 1) % W = IF b > 65534 THEN 0 ELSE b + 1
      /\ (c + 1) % W = IF c > 65534 THEN 0 ELSE c + 1
  BY <1>1, <1>2, <1>5, Sizes
<1>9. Apart(b, a)
  BY <1>2, <1>3, <1>5, <1>8, SMT DEF Apart
<1>10. Apart(c, a)
  BY <1>2, <1>3, <1>4, <1>5, <1>8, SMT DEF Apart
<1>11. QED
  BY <1>5, <1>6, <1>7, <1>9, <1>10, InWord16

WordAt(m, segment, offset) == ReadMemory(m, segment, offset, TRUE)
WithWord(m, segment, offset, n) == WriteMemory(m, segment, offset, TRUE, n)

LEMMA WordThere ==
  ASSUME NEW m, NEW segment \in Word16, NEW offset \in Word16, NEW n \in Word16
  PROVE  WordAt(WithWord(m, segment, offset, n), segment, offset) = n
<1> DEFINE a == Physical(segment, offset)
           b == Physical(segment, (offset + 1) % W)
           k == Put(Put(m, a, Low(n)), b, High(n))
<1>1. a # b
  BY NextOffset, PhysicalDistinct
<1>2. WithWord(m, segment, offset, n) = k
  BY DEF WithWord, WriteMemory
<1>3. WordAt(k, segment, offset) = Get(k, a, 0) + 256 * Get(k, b, 0)
  BY DEF WordAt, ReadMemory
<1> HIDE DEF a, b
<1>4. Get(k, a, 0) = Low(n) /\ Get(k, b, 0) = High(n)
  BY <1>1, PutGet
<1>5. QED
  BY <1>2, <1>3, <1>4, TwoBytes

LEMMA WordApart ==
  ASSUME NEW m, NEW segment \in Word16, NEW offset \in Word16, NEW other \in Word16, NEW n,
         Apart(offset, other)
  PROVE  WordAt(WithWord(m, segment, offset, n), segment, other) = WordAt(m, segment, other)
<1> DEFINE a == Physical(segment, offset)
           b == Physical(segment, (offset + 1) % W)
           c == Physical(segment, other)
           e == Physical(segment, (other + 1) % W)
           k == Put(Put(m, a, Low(n)), b, High(n))
<1>1. a # c /\ a # e /\ b # c /\ b # e
  BY NextOffset, PhysicalDistinct DEF Apart
<1>2. WithWord(m, segment, offset, n) = k
  BY DEF WithWord, WriteMemory
<1>3. \A x : WordAt(x, segment, other) = Get(x, c, 0) + 256 * Get(x, e, 0)
  BY DEF WordAt, ReadMemory
<1> HIDE DEF a, b, c, e
<1>4. Get(k, c, 0) = Get(m, c, 0) /\ Get(k, e, 0) = Get(m, e, 0)
  BY <1>1, PutGet
<1>5. QED
  BY <1>2, <1>3, <1>4

LEMMA ThreeWords ==
  ASSUME NEW m, NEW segment \in Word16, NEW a \in Word16, NEW b \in Word16, NEW c \in Word16,
         NEW x \in Word16, NEW y \in Word16, NEW z \in Word16,
         Apart(c, b), Apart(c, a), Apart(b, a),
         NEW m3, m3 = WithWord(WithWord(WithWord(m, segment, a, x), segment, b, y), segment, c, z)
  PROVE  WordAt(m3, segment, c) = z /\ WordAt(m3, segment, b) = y /\ WordAt(m3, segment, a) = x
<1>1. WordAt(m3, segment, c) = z
  BY WordThere
<1>2. WordAt(m3, segment, b) = y
  BY WordThere, WordApart
<1>3. WordAt(m3, segment, a) = x
  BY WordThere, WordApart
<1>4. QED
  BY <1>1, <1>2, <1>3

Framed(regs, flags, t) ==
  /\ \A r \in RegisterNames \ {"SP", "IP", "CS"} : t.regs[r] = regs[r]
  /\ \E ip \in Word16 :
       LET word(spot) == WordAt(t.mem, t.regs.SS, spot)
           sp == t.regs.SP
       IN  /\ t.return = {ip}
           /\ word(sp) = ip
           /\ word(Above(sp)) = regs["CS"]
           /\ FlagsFrom(word(Above(Above(sp)))) = flags
           /\ Above(Above(Above(sp))) = regs["SP"]

LEMMA Interrupted ==
  ASSUME NEW s \in Machines, NEW number
  PROVE  /\ Interrupt(s, number) \in Machines
         /\ Framed(s.regs, s.flags, Interrupt(s, number))
<1> DEFINE word == FlagsWord(s)
           f1 == Push(s, word)
           f2 == Push(f1, s.regs.CS)
           f3 == Push(f2, s.regs.IP)
           ss == s.regs.SS
           a  == Below(s.regs.SP)
           b  == Below(a)
           c  == Below(b)
           m1 == WriteMemory(s.mem, ss, a, TRUE, word)
           m2 == WriteMemory(m1, ss, b, TRUE, s.regs.CS)
           m3 == WriteMemory(m2, ss, c, TRUE, s.regs.IP)
           flags == (f3.flags \ {IntF, TF}) \cup {} \cup {RESERVED}
           ip == ReadMemory(f3.mem, 0, 4 * number, TRUE)
           cs == ReadMemory(f3.mem, 0, 4 * number + 2, TRUE)
           t == Interrupt(s, number)
<1>1. /\ word \in Word16 /\ s.regs.CS \in Word16 /\ s.regs.IP \in Word16 /\ ss \in Word16
      /\ s.regs.SP \in Word16 /\ s.regs \in Registers
  BY FlagsAgain, MachineParts
<1>2. a \in Word16 /\ b \in Word16 /\ c \in Word16
  BY <1>1, Steps
<1>n. {"SP", "CS", "IP", "SS"} \subseteq RegisterNames
  BY Names
<1>3. f1 \in Machines /\ f1.regs = [s.regs EXCEPT !["SP"] = a] /\ f1.mem = m1
  BY <1>1, Pushed, Zero DEF Below
<1>4. f1.regs.SP = a /\ f1.regs.SS = ss /\ \A r \in RegisterNames \ {"SP"} : f1.regs[r] = s.regs[r]
  BY <1>1, <1>2, <1>3, <1>n, OneRegister
<1>5. f2 \in Machines /\ f2.regs = [f1.regs EXCEPT !["SP"] = b] /\ f2.mem = m2
  <2> HIDE DEF f1, m1, a
  <2>1. QED
    BY <1>1, <1>3, <1>4, Pushed, Zero DEF Below
<1>6. f2.regs.SP = b /\ f2.regs.SS = ss /\ \A r \in RegisterNames \ {"SP"} : f2.regs[r] = s.regs[r]
  <2> HIDE DEF f1, f2, b
  <2>1. f1.regs \in Registers
    BY <1>3, MachineParts
  <2>2. QED
    BY <1>2, <1>4, <1>5, <1>n, <2>1, OneRegister
<1>7. f3 \in Machines /\ f3.regs = [f2.regs EXCEPT !["SP"] = c] /\ f3.mem = m3
  <2> HIDE DEF f2, m2, b
  <2>1. QED
    BY <1>1, <1>5, <1>6, Pushed, Zero DEF Below
<1>8. f3.regs.SP = c /\ f3.regs.SS = ss /\ \A r \in RegisterNames \ {"SP"} : f3.regs[r] = s.regs[r]
  <2> HIDE DEF f2, f3, c
  <2>1. f2.regs \in Registers
    BY <1>5, MachineParts
  <2>2. QED
    BY <1>2, <1>6, <1>7, <1>n, <2>1, OneRegister
<1>9. /\ WordAt(m3, ss, c) = s.regs.IP
      /\ WordAt(m3, ss, b) = s.regs.CS
      /\ WordAt(m3, ss, a) = word
  <2> HIDE DEF word, ss, a, b, c
  <2>1. Apart(c, b) /\ Apart(c, a) /\ Apart(b, a)
    BY <1>1, <1>2, Steps DEF a, b, c
  <2> DEFINE ip0 == s.regs.IP
             cs0 == s.regs.CS
  <2>2. ip0 \in Word16 /\ cs0 \in Word16
    BY <1>1
  <2>3. m3 = WithWord(WithWord(WithWord(s.mem, ss, a, word), ss, b, cs0), ss, c, ip0)
    BY DEF WithWord
  <2> HIDE DEF ip0, cs0, m1, m2, m3
  <2>4. WordAt(m3, ss, c) = ip0 /\ WordAt(m3, ss, b) = cs0 /\ WordAt(m3, ss, a) = word
    BY <1>1, <1>2, <2>1, <2>2, <2>3, ThreeWords
  <2>5. QED
    BY <2>4 DEF ip0, cs0
<1>10. ip \in Word16 /\ cs \in Word16
  BY <1>7, MachineParts, Readable
<1>11. flags \in FlagSets
  BY <1>7, MachineParts, Bits
<1>12. t = [f3 EXCEPT !.flags = flags, !.return = {s.regs.IP},
                      !.regs = [[f3.regs EXCEPT !["IP"] = ip] EXCEPT !["CS"] = cs]]
  BY DEF Interrupt, SetFlags
<1> HIDE DEF f1, f2, f3, m1, m2, m3, ip, cs, flags, word, t
<1>13. f3.regs \in Registers
  BY <1>7, MachineParts
<1> DEFINE y == [f3.regs EXCEPT !["IP"] = ip]
           x == [y EXCEPT !["CS"] = cs]
<1>14. x \in Registers /\ \A r \in RegisterNames \ {"IP", "CS"} : x[r] = f3.regs[r]
  <2>1. y \in Registers /\ \A r \in RegisterNames \ {"IP"} : y[r] = f3.regs[r]
    BY <1>10, <1>13, <1>n, OneRegister
  <2> HIDE DEF y
  <2>2. x \in Registers /\ \A r \in RegisterNames \ {"CS"} : x[r] = y[r]
    BY <1>10, <1>n, <2>1, OneRegister
  <2>3. QED
    BY <2>1, <2>2
<1> HIDE DEF x
<1>15. t = [f3 EXCEPT !.flags = flags, !.return = {s.regs.IP}, !.regs = x]
  BY <1>12 DEF x, y
<1>16. t \in Machines
  BY <1>1, <1>7, <1>11, <1>14, <1>15 DEF Machines, Registers
<1>17. t.regs = x /\ t.mem = m3 /\ t.return = {s.regs.IP}
  BY <1>7, <1>15 DEF Machines
<1>18. /\ t.regs.SP = c /\ t.regs.SS = ss
       /\ \A r \in RegisterNames \ {"SP", "IP", "CS"} : t.regs[r] = s.regs[r]
  BY <1>8, <1>14, <1>17, <1>n
<1>19. Above(c) = b /\ Above(b) = a /\ Above(a) = s.regs.SP
  BY <1>1, <1>2, Steps
<1>20. FlagsFrom(word) = s.flags
  BY FlagsAgain DEF word
<1>21. Framed(s.regs, s.flags, t)
  <2> HIDE DEF a, b, c, ss
  <2>1. QED
    BY <1>1, <1>9, <1>17, <1>18, <1>19, <1>20 DEF Framed
<1>22. QED
  BY <1>16, <1>21 DEF t

----------------------------------------------------------------------------
(***************************************************************************)
(* What a handler may make of a machine: the stack's segment stays or      *)
(* interrupts stand back, and if there is somewhere to return to, that is  *)
(* because a whole frame was pushed.                                       *)
(***************************************************************************)
Sound(s, t) ==
  /\ t \in Machines
  /\ t.regs["SS"] = s.regs["SS"] \/ t.shadow = 1
  /\ t.return = s.return \/ Framed(s.regs, s.flags, t)

LEMMA SoundKept == \A s, t : Kept(s, t) => Sound(s, t)
BY DEF Kept, Sound

LEMMA Results == \A s : Ok(s).s = s /\ Invalid(s).s = s
BY DEF Ok, Invalid, Done

\* Moves.
LEMMA XchgAccumulatorSound ==
  ASSUME NEW d \in Instructions
  PROVE  Sound(d.s, XchgAccumulator(d).s)
<1> DEFINE name == WordRegisters[(d.opcode % 8) + 1]
           y == [d.s.regs EXCEPT !["AX"] = d.s.regs[name]]
           x == [y EXCEPT ![name] = d.s.regs["AX"]]
<1>1. d.s \in Machines /\ d.opcode \in Byte
  BY InHand
<1>2. name \in RegisterNames \ {"SS"} /\ "AX" \in RegisterNames \ {"SS"} /\ "SS" \in RegisterNames
  BY <1>1, ModrmFields, Names
<1>3. XchgAccumulator(d) = Ok([d.s EXCEPT !.regs = x])
  BY DEF XchgAccumulator
<1> HIDE DEF name
<1>4. d.s.regs \in Registers /\ d.s.regs[name] \in Word16 /\ d.s.regs["AX"] \in Word16
  BY <1>1, <1>2, MachineParts
<1>5. y \in Registers /\ y["SS"] = d.s.regs["SS"]
  BY <1>2, <1>4, OneRegister
<1> HIDE DEF y
<1>6. x \in Registers /\ x["SS"] = d.s.regs["SS"]
  BY <1>2, <1>4, <1>5, OneRegister
<1> HIDE DEF x
<1>7. QED
  BY <1>1, <1>3, <1>6, RegistersKept, SoundKept, Results

LEMMA RegisterSet ==
  ASSUME NEW s \in Machines, NEW name \in RegisterNames \ {"SS"}, NEW n \in Word16
  PROVE  Kept(s, [s EXCEPT !.regs[name] = n])
<1>1. [s EXCEPT !.regs[name] = n] = [s EXCEPT !.regs = [s.regs EXCEPT ![name] = n]]
  OBVIOUS
<1>2. "SS" \in RegisterNames \ {name} /\ s.regs \in Registers
  BY Names, MachineParts
<1>3. [s.regs EXCEPT ![name] = n] \in Registers /\ [s.regs EXCEPT ![name] = n]["SS"] = s.regs["SS"]
  BY <1>2, OneRegister
<1>4. QED
  BY <1>1, <1>3, RegistersKept

LEMMA CwdSound ==
  ASSUME NEW d \in Instructions
  PROVE  Sound(d.s, Cwd(d).s)
<1> DEFINE n == IF SignBit(d.s.regs.AX, TRUE) THEN W - 1 ELSE 0
<1>1. W - 1 \in Word16
  BY Sizes, InWord16
<1>2. n \in Word16
  BY <1>1, Zero
<1>3. Cwd(d) = Ok([d.s EXCEPT !.regs["DX"] = n])
  BY DEF Cwd
<1> HIDE DEF n
<1>4. "DX" \in RegisterNames \ {"SS"}
  BY Names
<1>5. QED
  BY <1>2, <1>3, <1>4, InHand, RegisterSet, SoundKept, Results

LEMMA MovRegImmSound ==
  ASSUME NEW d \in Instructions
  PROVE  Sound(d.s, MovRegImm(d).s)
<1> DEFINE wide == d.handler = "mov_r16_imm16"
           immediate == Immediate(d.s, wide)
           o == RegisterOperand(d.opcode % 8, wide)
<1>1. d.s \in Machines /\ d.opcode \in Byte
  BY InHand
<1>2. immediate.n \in Int /\ immediate.s \in Machines /\ Kept(d.s, immediate.s)
  BY <1>1, Immediately
<1>3. d.opcode % 8 \in 0 .. 7 /\ wide \in BOOLEAN
  BY <1>1, ModrmFields
<1>4. o \in Operands
  BY <1>3, RegisterType
<1>5. MovRegImm(d) = Ok(Write(immediate.s, o, immediate.n))
  BY DEF MovRegImm
<1> HIDE DEF immediate, o
<1>6. Kept(immediate.s, Write(immediate.s, o, immediate.n))
  BY <1>2, <1>4, WriteKept
<1>7. QED
  BY <1>2, <1>5, <1>6, Chained, SoundKept, Results

\* The operand and the register of an instruction with a ModR/M byte.
LEMMA InModrm ==
  ASSUME NEW d \in Instructions, NEW wide \in BOOLEAN
  PROVE  LET m == DecodeModrm(d.s, wide, d.override)
         IN  /\ m.operand \in Operands /\ m.operand.wide = wide /\ m.reg \in 0 .. 7
             /\ RegisterOperand(m.reg, wide) \in Operands
             /\ m.s \in Machines /\ Kept(d.s, m.s)
             /\ m.s.flags = d.s.flags
             /\ \A r \in RegisterNames \ {"IP"} : m.s.regs[r] = d.s.regs[r]
<1> DEFINE m == DecodeModrm(d.s, wide, d.override)
<1>1. d.s \in Machines /\ d.override \in Overrides
  BY InHand
<1>2. /\ m.operand \in Operands /\ m.operand.wide = wide /\ m.reg \in 0 .. 7
      /\ m.s \in Machines /\ Kept(d.s, m.s) /\ m.s.flags = d.s.flags
      /\ \A r \in RegisterNames \ {"IP"} : m.s.regs[r] = d.s.regs[r]
  BY <1>1, Decoded
<1> HIDE DEF m
<1>3. RegisterOperand(m.reg, wide) \in Operands
  BY <1>2, RegisterType
<1>4. QED
  BY <1>2, <1>3 DEF m

LEMMA ReadInt ==
  ASSUME NEW s \in Machines, NEW o \in Operands
  PROVE  Read(s, o) \in Int
BY ReadType, Zero

LEMMA MovModrmSound ==
  ASSUME NEW d \in Instructions
  PROVE  Sound(d.s, MovModrm(d).s)
<1> DEFINE m == DecodeModrm(d.s, d.wide, d.override)
           reg == RegisterOperand(m.reg, d.wide)
           a == Write(m.s, reg, Read(m.s, m.operand))
           b == Write(m.s, m.operand, Read(m.s, reg))
<1>1. m.operand \in Operands /\ reg \in Operands /\ m.s \in Machines /\ Kept(d.s, m.s)
  BY InHand, InModrm
<1>2. MovModrm(d) = Ok(IF 1 \in BitSet(d.opcode) THEN a ELSE b)
  BY DEF MovModrm
<1> HIDE DEF m, reg
<1>3. Kept(m.s, a) /\ Kept(m.s, b)
  BY <1>1, ReadInt, WriteKept
<1> HIDE DEF a, b
<1>4. QED
  BY <1>1, <1>2, <1>3, Chained, SoundKept, Results

LEMMA XchgModrmSound ==
  ASSUME NEW d \in Instructions
  PROVE  Sound(d.s, XchgModrm(d).s)
<1> DEFINE m == DecodeModrm(d.s, d.wide, d.override)
           reg == RegisterOperand(m.reg, d.wide)
           a == Write(m.s, m.operand, Read(m.s, reg))
           b == Write(a, reg, Read(m.s, m.operand))
<1>1. m.operand \in Operands /\ reg \in Operands /\ m.s \in Machines /\ Kept(d.s, m.s)
  BY InHand, InModrm
<1>2. XchgModrm(d) = Ok(b)
  BY DEF XchgModrm
<1> HIDE DEF m, reg
<1>3. Kept(m.s, a)
  BY <1>1, ReadInt, WriteKept
<1>4. a \in Machines
  BY <1>3 DEF Kept
<1> HIDE DEF a
<1>5. Kept(a, b)
  BY <1>1, <1>4, ReadInt, WriteKept
<1> HIDE DEF b
<1>6. QED
  BY <1>1, <1>2, <1>3, <1>5, Chained, SoundKept, Results

\* A segment register: only the stack's makes interrupts stand back.
LEMMA SegmentLoaded ==
  ASSUME NEW r \in Machines, NEW s \in Machines, NEW name \in {"ES", "CS", "SS", "DS"},
         NEW n \in Word16, Kept(r, s)
  PROVE  Sound(r, LoadSegment(s, name, n))
<1> DEFINE x == [s.regs EXCEPT ![name] = n]
           shadow == IF name = "SS" THEN 1 ELSE s.shadow
           t == [s EXCEPT !.regs = x, !.shadow = shadow]
<1>1. LoadSegment(s, name, n) = t
  BY DEF LoadSegment
<1>2. name \in RegisterNames /\ "SS" \in RegisterNames
  BY Names
<1>3. x \in Registers /\ (name # "SS" => x["SS"] = s.regs["SS"])
  BY <1>2, MachineParts, OneRegister
<1>4. shadow \in {0, 1} /\ (name = "SS" => shadow = 1)
  BY DEF Machines
<1> HIDE DEF x, shadow
<1>5. t \in Machines /\ t.regs = x /\ t.shadow = shadow /\ t.return = s.return
  BY <1>3, <1>4 DEF Machines, Registers
<1> HIDE DEF t
<1>6. QED
  BY <1>1, <1>3, <1>4, <1>5 DEF Sound, Kept

LEMMA MovSegmentSound ==
  ASSUME NEW d \in Instructions
  PROVE  Sound(d.s, MovSegment(d).s)
<1> DEFINE m == DecodeModrm(d.s, TRUE, d.override)
           name == Segments[m.reg + 1]
           a == Write(m.s, m.operand, m.s.regs[name])
           b == LoadSegment(m.s, name, Read(m.s, m.operand))
<1>1. m.operand \in Operands /\ m.reg \in 0 .. 7 /\ m.s \in Machines /\ Kept(d.s, m.s)
  BY InModrm
<1>2. MovSegment(d) = IF m.reg > 3 \/ (d.opcode = \h8E /\ m.reg = 1) THEN Invalid(m.s)
                      ELSE Ok(IF d.opcode = \h8C THEN a ELSE b)
  BY DEF MovSegment
<1>3. ASSUME ~(m.reg > 3)
      PROVE  Sound(d.s, a) /\ Sound(d.s, b)
  <2> HIDE DEF m
  <2>f. m.reg \in 0 .. 3
    BY <1>1, <1>3
  <2>g. name \in {"ES", "CS", "SS", "DS"}
    BY <2>f, Names
  <2> HIDE DEF name
  <2>1. name \in {"ES", "CS", "SS", "DS"} /\ name \in RegisterNames
    BY <2>g, Names
  <2>r. Read(m.s, m.operand) \in Word16
    BY <1>1, ReadType
  <2>i. m.s.regs[name] \in Int
    BY <1>1, <2>1, MachineParts
  <2>2. Read(m.s, m.operand) \in Word16 /\ m.s.regs[name] \in Int
    BY <2>r, <2>i
  <2>3. Kept(m.s, a)
    BY <1>1, <2>2, WriteKept
  <2>4. Sound(d.s, b)
    BY <1>1, <2>1, <2>2, InHand, SegmentLoaded
  <2>5. QED
    BY <1>1, <2>3, <2>4, Chained, SoundKept
<1> HIDE DEF m, a, b
<1>4. QED
  BY <1>1, <1>2, <1>3, SoundKept, Results

LEMMA MovRmImmSound ==
  ASSUME NEW d \in Instructions
  PROVE  Sound(d.s, MovRmImm(d).s)
<1> DEFINE m == DecodeModrm(d.s, d.wide, d.override)
           immediate == Immediate(m.s, d.wide)
           a == Write(immediate.s, m.operand, immediate.n)
<1>1. m.operand \in Operands /\ m.s \in Machines /\ Kept(d.s, m.s)
  BY InHand, InModrm
<1>2. MovRmImm(d) = IF m.reg # 0 THEN Invalid(m.s) ELSE Ok(a)
  BY DEF MovRmImm
<1> HIDE DEF m
<1>3. immediate.n \in Int /\ immediate.s \in Machines /\ Kept(m.s, immediate.s)
  BY <1>1, Immediately
<1> HIDE DEF immediate
<1>4. Kept(immediate.s, a)
  BY <1>1, <1>3, WriteKept
<1> HIDE DEF a
<1>5. QED
  BY <1>1, <1>2, <1>3, <1>4, Chained, SoundKept, Results

LEMMA LoadFarPointerSound ==
  ASSUME NEW d \in Instructions
  PROVE  Sound(d.s, LoadFarPointer(d).s)
<1> DEFINE m == DecodeModrm(d.s, TRUE, d.override)
           segment == ReadMemory(m.s.mem, m.operand.segment, (m.operand.offset + 2) % W, TRUE)
           o == RegisterOperand(m.reg, TRUE)
           loaded == Write(m.s, o, Read(m.s, m.operand))
           name == IF d.opcode = \hC4 THEN "ES" ELSE "DS"
           t == [loaded EXCEPT !.regs[name] = segment]
<1>1. m.operand \in Operands /\ o \in Operands /\ m.s \in Machines /\ Kept(d.s, m.s)
  BY InModrm
<1>2. LoadFarPointer(d) = IF m.operand.kind # "memory" THEN Invalid(m.s) ELSE Ok(t)
  BY DEF LoadFarPointer
<1>3. segment \in Word16
  BY <1>1, MachineParts, Readable
<1> HIDE DEF m, o, segment
<1>4. Kept(m.s, loaded)
  BY <1>1, ReadInt, WriteKept
<1>5. loaded \in Machines
  BY <1>4 DEF Kept
<1>6. name \in RegisterNames \ {"SS"}
  BY Names
<1> HIDE DEF loaded, name
<1>7. Kept(loaded, t)
  BY <1>3, <1>5, <1>6, RegisterSet
<1> HIDE DEF t
<1>8. QED
  BY <1>1, <1>2, <1>4, <1>7, Chained, SoundKept, Results

LEMMA MovMoffsSound ==
  ASSUME NEW d \in Instructions
  PROVE  Sound(d.s, MovMoffs(d).s)
<1> DEFINE s == Consumed(d.s, 2)
           there == [kind |-> "memory", segment |-> s.regs.DS, offset |-> CodeWord(d.s, 0),
                     wide |-> d.wide]
           acc == Accumulator(d.wide)
           a == Write(s, there, Read(s, acc))
           b == Write(s, acc, Read(s, there))
<1>1. d.s \in Machines /\ d.wide \in BOOLEAN
  BY InHand
<1>2. Kept(d.s, s) /\ s \in Machines
  BY <1>1, IpKept DEF Kept
<1>3. MovMoffs(d) = Ok(IF 1 \in BitSet(d.opcode) THEN a ELSE b)
  BY DEF MovMoffs
<1> HIDE DEF s
<1>4. s.regs.DS \in Word16 /\ CodeWord(d.s, 0) \in Word16
  BY <1>1, <1>2, MachineParts, CodeNumbers
<1>5. there \in Operands /\ acc \in Operands
  BY <1>1, <1>4, RegisterType DEF Operands, Accumulator
<1> HIDE DEF there, acc
<1>6. Kept(s, a) /\ Kept(s, b)
  BY <1>2, <1>5, ReadInt, WriteKept
<1> HIDE DEF a, b
<1>7. QED
  BY <1>2, <1>3, <1>6, Chained, SoundKept, Results

\* One change after another.
LEMMA TwoKept ==
  \A r, s, t : Kept(r, s) /\ Kept(s, t) => Kept(r, t) /\ Sound(r, t) /\ t \in Machines
BY Chained, SoundKept DEF Kept

\* The stack.
LEMMA PushRegSound ==
  ASSUME NEW d \in Instructions
  PROVE  Sound(d.s, PushReg(d).s)
<1> DEFINE n == GetRegister(d.s.regs, d.opcode % 8, TRUE)
<1>1. d.s \in Machines /\ d.opcode % 8 \in 0 .. 7 /\ d.s.regs \in Registers
  BY InHand, ModrmFields, MachineParts
<1>2. n \in Word16
  BY <1>1, Registered
<1>3. n \in Int
  BY <1>2, Zero
<1>4. PushReg(d) = Ok(Push(d.s, n))
  BY DEF PushReg
<1> HIDE DEF n
<1>5. Kept(d.s, Push(d.s, n))
  BY <1>1, <1>3, Pushed
<1>6. QED
  BY <1>4, <1>5, SoundKept, Results

LEMMA PopRegSound ==
  ASSUME NEW d \in Instructions
  PROVE  Sound(d.s, PopReg(d).s)
<1> DEFINE o == RegisterOperand(d.opcode % 8, TRUE)
           p == Popped(d.s)
           t == Write(p, o, Top(d.s))
<1>1. d.s \in Machines /\ d.opcode % 8 \in 0 .. 7
  BY InHand, ModrmFields
<1>2. o \in Operands
  BY <1>1, RegisterType
<1>3. p \in Machines /\ Kept(d.s, p) /\ Top(d.s) \in Int
  BY <1>1, PoppedKept
<1>4. PopReg(d) = Ok(t)
  BY DEF PopReg
<1> HIDE DEF o, p
<1>5. Kept(p, t)
  BY <1>2, <1>3, WriteKept
<1> HIDE DEF t
<1>6. QED
  BY <1>3, <1>4, <1>5, TwoKept, Results

LEMMA SegmentStackSound ==
  ASSUME NEW d \in Instructions
  PROVE  Sound(d.s, SegmentStack(d).s)
<1> DEFINE name == Segments[((d.opcode \div 8) % 4) + 1]
           a == LoadSegment(Popped(d.s), name, Top(d.s))
           b == Push(d.s, d.s.regs[name])
<1>1. d.s \in Machines /\ (d.opcode \div 8) % 4 \in 0 .. 3
  BY InHand, ModrmFields
<1>2. name \in {"ES", "CS", "SS", "DS"}
  BY <1>1, Names
<1>3. SegmentStack(d) = Ok(IF d.wide THEN a ELSE b)
  BY DEF SegmentStack
<1> HIDE DEF name
<1>4. Sound(d.s, a)
  BY <1>1, <1>2, PoppedKept, SegmentLoaded
<1>5. d.s.regs[name] \in Int
  BY <1>1, <1>2, Names, MachineParts
<1>6. Kept(d.s, b)
  BY <1>1, <1>5, Pushed
<1> HIDE DEF a, b
<1>7. QED
  BY <1>3, <1>4, <1>6, SoundKept, Results

LEMMA PushfSound ==
  ASSUME NEW d \in Instructions
  PROVE  Sound(d.s, Pushf(d).s)
<1>1. d.s \in Machines /\ FlagsWord(d.s) \in Int
  BY InHand, FlagsAgain, Zero
<1>2. QED
  BY <1>1, Pushed, SoundKept, Results DEF Pushf

LEMMA PopfSound ==
  ASSUME NEW d \in Instructions
  PROVE  Sound(d.s, Popf(d).s)
<1> DEFINE p == Popped(d.s)
           f == FlagsFrom(Top(d.s))
           t == [p EXCEPT !.flags = f]
<1>1. p \in Machines /\ Kept(d.s, p) /\ f \in FlagSets
  BY InHand, PoppedKept, FlagsTaken
<1>2. Popf(d) = Ok(t)
  BY DEF Popf
<1> HIDE DEF p, f
<1>3. Kept(p, t)
  BY <1>1, FlagsKept
<1> HIDE DEF t
<1>4. QED
  BY <1>1, <1>2, <1>3, TwoKept, Results

LEMMA SahfSound ==
  ASSUME NEW d \in Instructions
  PROVE  Sound(d.s, Sahf(d).s)
<1> DEFINE set == BitSet(GetRegister(d.s.regs, 4, FALSE)) \cap Status
<1>1. Status \subseteq FlagBits
  BY Bits DEF Status
<1>2. set \in SUBSET FlagBits
  BY <1>1
<1>3. Sahf(d) = Ok(SetFlags(d.s, Status, set))
  BY DEF Sahf
<1> HIDE DEF set
<1>4. QED
  BY <1>2, <1>3, InHand, SetFlagsKept, SoundKept, Results

LEMMA LahfSound ==
  ASSUME NEW d \in Instructions
  PROVE  Sound(d.s, Lahf(d).s)
<1> DEFINE o == RegisterOperand(4, FALSE)
           n == Low(Number(d.s.flags))
<1>1. o \in Operands
  BY DEF RegisterOperand, Operands
<1>2. n \in Int
  BY NumberDigits, LowByte, InByte
<1>3. Lahf(d) = Ok(Write(d.s, o, n))
  BY DEF Lahf
<1> HIDE DEF o, n
<1>4. Kept(d.s, Write(d.s, o, n))
  BY <1>1, <1>2, InHand, WriteKept
<1>5. QED
  BY <1>3, <1>4, SoundKept, Results

----------------------------------------------------------------------------
\* Arithmetic: the operation, then what is written.
LEMMA Written ==
  ASSUME NEW s \in Machines, NEW operation \in OperationNames, NEW left \in Int,
         NEW right \in Int, NEW wide, NEW o \in Operands
  PROVE  LET r == Alu(s, operation, left, right, wide)
         IN  Kept(s, r.s) /\ Kept(s, Write(r.s, o, r.n))
<1> DEFINE r == Alu(s, operation, left, right, wide)
<1>1. r.n \in Int /\ Kept(s, r.s)
  BY AluKept
<1> HIDE DEF r
<1>2. r.s \in Machines
  BY <1>1 DEF Kept
<1>3. Kept(r.s, Write(r.s, o, r.n))
  BY <1>1, <1>2, WriteKept
<1>4. Kept(s, r.s) /\ Kept(s, Write(r.s, o, r.n))
  BY <1>1, <1>3, Chained
<1>5. QED
  BY <1>4 DEF r

LEMMA AluModrmSound ==
  ASSUME NEW d \in Instructions, NEW operation \in OperationNames
  PROVE  Sound(d.s, AluModrm(d, operation).s)
<1> DEFINE m == DecodeModrm(d.s, d.wide, d.override)
           reg == RegisterOperand(m.reg, d.wide)
           toReg == 1 \in BitSet(d.opcode)
           destination == IF toReg THEN reg ELSE m.operand
           source == IF toReg THEN m.operand ELSE reg
           r == Alu(m.s, operation, Read(m.s, destination), Read(m.s, source), d.wide)
           a == Write(r.s, destination, r.n)
<1>1. m.operand \in Operands /\ reg \in Operands /\ m.s \in Machines /\ Kept(d.s, m.s)
  BY InHand, InModrm
<1>2. AluModrm(d, operation)
        = Ok(IF operation = "cmp" \/ d.handler = "test_modrm" THEN r.s ELSE a)
  BY DEF AluModrm
<1> HIDE DEF m, reg
<1>3. destination \in Operands /\ source \in Operands
  BY <1>1
<1> HIDE DEF destination, source
<1>4. Read(m.s, destination) \in Int /\ Read(m.s, source) \in Int
  BY <1>1, <1>3, ReadInt
<1>5. Kept(m.s, r.s) /\ Kept(m.s, a)
  BY <1>1, <1>3, <1>4, Written
<1> HIDE DEF r, a
<1>6. QED
  BY <1>1, <1>2, <1>5, TwoKept, Results

LEMMA AluRmImmSound ==
  ASSUME NEW d \in Instructions
  PROVE  Sound(d.s, AluRmImm(d).s)
<1> DEFINE m == DecodeModrm(d.s, d.wide, d.override)
           operation == Operations[m.reg + 1]
           near == [n |-> Displacement8(m.s, 0) % W, s |-> Consumed(m.s, 1)]
           immediate == IF d.opcode = \h83 THEN near ELSE Immediate(m.s, d.wide)
           r == Alu(immediate.s, operation, Read(immediate.s, m.operand), immediate.n, d.wide)
           a == Write(r.s, m.operand, r.n)
<1>1. m.operand \in Operands /\ m.reg \in 0 .. 7 /\ m.s \in Machines /\ Kept(d.s, m.s)
  BY InHand, InModrm
<1>2. AluRmImm(d) = Ok(IF operation = "cmp" THEN r.s ELSE a)
  BY DEF AluRmImm
<1> HIDE DEF m
<1>3. operation \in OperationNames
  BY <1>1, OperationOf
<1> HIDE DEF operation
<1>4. immediate.n \in Int /\ Kept(m.s, immediate.s)
  <2>1. Displacement8(m.s, 0) % W \in Int
    BY <1>1, CodeNumbers, WordOf, Zero
  <2>2. near.n \in Int /\ Kept(m.s, near.s)
    BY <1>1, <2>1, IpKept
  <2> HIDE DEF near
  <2>3. QED
    BY <1>1, <2>2, Immediately
<1> HIDE DEF immediate
<1>5. immediate.s \in Machines
  BY <1>4 DEF Kept
<1>6. Read(immediate.s, m.operand) \in Int
  BY <1>1, <1>5, ReadInt
<1>7. Kept(immediate.s, r.s) /\ Kept(immediate.s, a)
  BY <1>1, <1>3, <1>4, <1>5, <1>6, Written
<1> HIDE DEF r, a
<1>8. QED
  BY <1>1, <1>2, <1>4, <1>7, TwoKept, Results

LEMMA AluAccImmSound ==
  ASSUME NEW d \in Instructions, NEW operation \in OperationNames
  PROVE  Sound(d.s, AluAccImm(d, operation).s)
<1> DEFINE immediate == Immediate(d.s, d.wide)
           acc == Accumulator(d.wide)
           r == Alu(immediate.s, operation, Read(d.s, acc), immediate.n, d.wide)
           a == Write(r.s, acc, r.n)
<1>1. d.s \in Machines /\ d.wide \in BOOLEAN
  BY InHand
<1>2. acc \in Operands
  BY <1>1, RegisterType DEF Accumulator
<1>3. immediate.n \in Int /\ immediate.s \in Machines /\ Kept(d.s, immediate.s)
  BY <1>1, Immediately
<1>4. AluAccImm(d, operation)
        = Ok(IF operation = "cmp" \/ d.handler = "test_acc_imm" THEN r.s ELSE a)
  BY DEF AluAccImm
<1> HIDE DEF immediate, acc
<1>5. Read(d.s, acc) \in Int
  BY <1>1, <1>2, ReadInt
<1>6. Kept(immediate.s, r.s) /\ Kept(immediate.s, a)
  BY <1>2, <1>3, <1>5, Written
<1> HIDE DEF r, a
<1>7. QED
  BY <1>3, <1>4, <1>6, TwoKept, Results

LEMMA SteppedKept ==
  ASSUME NEW s \in Machines, NEW operand \in Operands, NEW up
  PROVE  Kept(s, Stepped(s, operand, up))
<1> DEFINE r == Alu(s, IF up THEN "add" ELSE "sub", Read(s, operand), 1, operand.wide)
           a == Write(r.s, operand, r.n)
           f == (a.flags \ {CF}) \cup (s.flags \cap {CF})
           t == [a EXCEPT !.flags = f]
<1>1. Read(s, operand) \in Int
  BY ReadInt
<1>2. (IF up THEN "add" ELSE "sub") \in OperationNames
  BY DEF OperationNames
<1>3. Kept(s, a)
  BY <1>1, <1>2, Written
<1>4. Stepped(s, operand, up) = t
  BY DEF Stepped
<1> HIDE DEF r, a
<1>5. a \in Machines
  BY <1>3 DEF Kept
<1>6. CF # RESERVED /\ CF \in FlagBits
  BY Bits DEF CF, RESERVED
<1>7. a.flags \in SUBSET FlagBits /\ RESERVED \in a.flags /\ s.flags \in SUBSET FlagBits
  BY <1>5, MachineParts, Bits
<1>8. f \in FlagSets
  BY <1>6, <1>7, Bits
<1> HIDE DEF f
<1>9. Kept(a, t)
  BY <1>5, <1>8, FlagsKept
<1> HIDE DEF t
<1>10. QED
  BY <1>3, <1>4, <1>9, Chained

LEMMA IncDecRegSound ==
  ASSUME NEW d \in Instructions
  PROVE  Sound(d.s, IncDecReg(d).s)
<1>1. d.s \in Machines /\ d.opcode % 8 \in 0 .. 7
  BY InHand, ModrmFields
<1>2. RegisterOperand(d.opcode % 8, TRUE) \in Operands
  BY <1>1, RegisterType
<1> DEFINE t == Stepped(d.s, RegisterOperand(d.opcode % 8, TRUE), d.opcode < \h48)
<1>3. Kept(d.s, t)
  BY <1>1, <1>2, SteppedKept
<1>4. IncDecReg(d) = Ok(t)
  BY DEF IncDecReg
<1> HIDE DEF t
<1>5. QED
  BY <1>3, <1>4, SoundKept, Results

LEMMA Group4Sound ==
  ASSUME NEW d \in Instructions
  PROVE  Sound(d.s, Group4(d).s)
<1> DEFINE m == DecodeModrm(d.s, FALSE, d.override)
           t == Stepped(m.s, m.operand, m.reg = 0)
<1>1. m.operand \in Operands /\ m.s \in Machines /\ Kept(d.s, m.s)
  BY InModrm
<1>2. Group4(d) = IF m.reg \in {0, 1} THEN Ok(t) ELSE Invalid(m.s)
  BY DEF Group4
<1> HIDE DEF m
<1>3. Kept(m.s, t)
  BY <1>1, SteppedKept
<1> HIDE DEF t
<1>4. QED
  BY <1>1, <1>2, <1>3, TwoKept, SoundKept, Results

LEMMA Group5Sound ==
  ASSUME NEW d \in Instructions
  PROVE  Sound(d.s, Group5(d).s)
<1> DEFINE m == DecodeModrm(d.s, TRUE, d.override)
           target == Read(m.s, m.operand)
           p == IF m.reg = 2 THEN Push(m.s, m.s.regs.IP) ELSE m.s
           t == Jump(p, target)
<1>1. m.operand \in Operands /\ m.s \in Machines /\ Kept(d.s, m.s)
  BY InModrm
<1>2. Group5(d) = IF m.reg \notin {2, 4} THEN Invalid(m.s) ELSE Ok(t)
  BY DEF Group5
<1> HIDE DEF m
<1>3. target \in Int
  BY <1>1, ReadInt
<1>4. m.s.regs.IP \in Int
  BY <1>1, MachineParts, Zero
<1>5. Kept(m.s, p)
  BY <1>1, <1>4, Pushed, Itself
<1> HIDE DEF p, target
<1>6. p \in Machines
  BY <1>5 DEF Kept
<1>7. Kept(p, t)
  BY <1>3, <1>6, IpKept
<1> HIDE DEF t
<1>8. Kept(d.s, t)
  BY <1>1, <1>5, <1>7, Chained
<1>9. QED
  BY <1>1, <1>2, <1>8, SoundKept, Results

----------------------------------------------------------------------------
\* Multiplication and division.
LEMMA SoundAgain ==
  ASSUME NEW r, NEW s, NEW t, Kept(r, s), Sound(s, t), s.flags = r.flags,
         \A x \in RegisterNames \ {"IP"} : s.regs[x] = r.regs[x]
  PROVE  Sound(r, t)
<1>1. {"SS", "SP", "CS"} \subseteq RegisterNames \ {"IP"}
  BY Names
<1>2. Framed(s.regs, s.flags, t) => Framed(r.regs, r.flags, t)
  BY <1>1 DEF Framed
<1>3. QED
  BY <1>1, <1>2 DEF Sound, Kept

LEMMA TwoRegisters ==
  ASSUME NEW s \in Machines, NEW a \in Word16, NEW b \in Word16
  PROVE  Kept(s, [s EXCEPT !.regs["AX"] = a, !.regs["DX"] = b])
<1> DEFINE y == [s.regs EXCEPT !["AX"] = a]
           x == [y EXCEPT !["DX"] = b]
<1>1. {"AX", "DX"} \subseteq RegisterNames \ {"SS"} /\ "SS" \in RegisterNames
  BY Names
<1>2. y \in Registers /\ y["SS"] = s.regs["SS"]
  BY <1>1, MachineParts, OneRegister
<1>3. [s EXCEPT !.regs["AX"] = a, !.regs["DX"] = b] = [s EXCEPT !.regs = x]
  OBVIOUS
<1> HIDE DEF y
<1>4. x \in Registers /\ x["SS"] = s.regs["SS"]
  BY <1>1, <1>2, OneRegister
<1> HIDE DEF x
<1>5. QED
  BY <1>3, <1>4, RegistersKept

LEMMA SignedType ==
  ASSUME NEW n \in Int, NEW wide
  PROVE  SignedOf(n, Size(wide)) \in Int
<1>1. Size(wide) \in Int
  BY SizeType
<1>2. QED
  BY <1>1 DEF SignedOf

LEMMA MultiplyKept ==
  ASSUME NEW s \in Machines, NEW operand \in Operands, NEW signed
  PROVE  Kept(s, Multiply(s, operand, signed))
<1> DEFINE wide == operand.wide
           size == Size(wide)
           value(n) == IF signed THEN SignedOf(n, size) ELSE n
           left == value(s.regs.AX % size)
           right == value(Read(s, operand))
           product == left * right
           upper == (product \div size) % size
           lower == product % size
           over  == upper # IF signed /\ SignBit(lower, wide) THEN size - 1 ELSE 0
           flags == When(over, CF) \cup When(over, OF) \cup ResultFlags(lower, wide)
           ax == IF wide THEN lower ELSE size * upper + lower
           y == [s.regs EXCEPT !["AX"] = ax]
           dx == IF wide THEN upper ELSE y["DX"]
           x == [y EXCEPT !["DX"] = dx]
           t == [s EXCEPT !.regs = x]
<1>1. Multiply(s, operand, signed) = SetFlags(t, Arithmetic6, flags)
  BY DEF Multiply
<1>2. flags \in SUBSET FlagBits
  <2>1. CF \in FlagBits /\ OF \in FlagBits
    BY Bits
  <2>2. \A c : When(c, CF) \in SUBSET FlagBits /\ When(c, OF) \in SUBSET FlagBits
    BY <2>1, Bits
  <2> HIDE DEF over, lower
  <2>3. QED
    BY <2>2, ResultBits
<1> HIDE DEF flags, over
<1>3. left \in Int /\ right \in Int
  <2>1. s.regs.AX \in Int /\ Read(s, operand) \in Int
    BY MachineParts, ReadInt, Zero
  <2>2. s.regs.AX % size \in Int
    BY <2>1, SizeOf
  <2> HIDE DEF wide
  <2>3. QED
    BY <2>1, <2>2, SignedType
<1> HIDE DEF left, right, value
<1>4. product \in Int
  BY <1>3
<1> HIDE DEF product
<1>5. size \in Int /\ size > 0
  BY SizeType
<1>6. product \div size \in Int
  BY <1>4, <1>5
<1>7. upper \in Word16 /\ lower \in Word16 /\ (~wide => upper \in Byte /\ lower \in Byte)
  BY <1>4, <1>6, SizeOf
<1>8. ~wide => size = 256
  BY DEF Size
<1> HIDE DEF upper, lower, size
<1>9. ax \in Word16
  BY <1>7, <1>8, Joined
<1> HIDE DEF ax
<1>10. {"AX", "DX"} \subseteq RegisterNames \ {"SS"} /\ "SS" \in RegisterNames
  BY Names
<1>11. y \in Registers /\ y["SS"] = s.regs["SS"] /\ y["DX"] \in Word16
  <2>1. y \in Registers /\ y["SS"] = s.regs["SS"]
    BY <1>9, <1>10, MachineParts, OneRegister
  <2>2. QED
    BY <1>10, <2>1 DEF Registers
<1> HIDE DEF y
<1>12. dx \in Word16
  BY <1>7, <1>11
<1> HIDE DEF dx
<1>13. x \in Registers /\ x["SS"] = s.regs["SS"]
  BY <1>10, <1>11, <1>12, OneRegister
<1> HIDE DEF x
<1>14. Kept(s, t) /\ t \in Machines
  BY <1>13, RegistersKept
<1> HIDE DEF t
<1>15. Kept(t, SetFlags(t, Arithmetic6, flags))
  BY <1>2, <1>14, SetFlagsKept
<1>16. QED
  BY <1>1, <1>14, <1>15, Chained

LEMMA DivisionType ==
  ASSUME NEW s \in Machines, NEW operand \in Operands, NEW signed
  PROVE  LET r == Division(s, operand, signed)
         IN  ~r.error => r.quotient \in Int /\ r.rest \in Int
<1> DEFINE wide == operand.wide
           size == Size(wide)
           value(n) == IF signed THEN SignedOf(n, W) ELSE n
           dividend == IF wide THEN value(s.regs.DX) * W + s.regs.AX ELSE value(s.regs.AX)
           divisor  == IF signed THEN SignedOf(Read(s, operand), size) ELSE Read(s, operand)
           whole    == Magnitude(dividend) \div Magnitude(divisor)
           quotient == IF (dividend < 0) # (divisor < 0) THEN -whole ELSE whole
           rest     == dividend - quotient * divisor
           fits     == quotient \in IF signed THEN -(size \div 2) .. (size \div 2) - 1
                                              ELSE 0 .. size - 1
           r == Division(s, operand, signed)
<1>1. r = IF divisor = 0 \/ ~fits THEN [error |-> TRUE]
          ELSE [error |-> FALSE, quotient |-> quotient, rest |-> rest]
  BY DEF Division
<1>2. s.regs.AX \in Int /\ s.regs.DX \in Int /\ Read(s, operand) \in Int
  BY MachineParts, ReadInt, Zero
<1>3. value(s.regs.DX) \in Int /\ value(s.regs.AX) \in Int
  <2>1. \A n \in Int : SignedOf(n, W) \in Int
    BY Sizes DEF SignedOf
  <2>2. QED
    BY <1>2, <2>1
<1>4. dividend \in Int
  <2> HIDE DEF value
  <2>1. W \in Int
    BY Sizes
  <2>2. QED
    BY <1>2, <1>3, <2>1
<1>5. divisor \in Int
  BY <1>2, SignedType
<1> HIDE DEF dividend, divisor, fits, r
<1> SUFFICES ~r.error => r.quotient \in Int /\ r.rest \in Int
  BY DEF r
<1>6. CASE divisor = 0
  BY <1>1, <1>6
<1>7. CASE divisor # 0
  <2>1. Magnitude(dividend) \in Int /\ Magnitude(divisor) \in Int /\ Magnitude(divisor) > 0
    BY <1>4, <1>5, <1>7 DEF Magnitude
  <2>2. whole \in Int
    BY <2>1
  <2> HIDE DEF whole
  <2>3. quotient \in Int
    BY <2>2
  <2> HIDE DEF quotient
  <2>4. rest \in Int
    BY <1>4, <1>5, <2>3
  <2> HIDE DEF rest
  <2>5. QED
    BY <1>1, <2>3, <2>4
<1>8. QED
  BY <1>6, <1>7

LEMMA DivideSound ==
  ASSUME NEW s \in Machines, NEW operand \in Operands, NEW signed
  PROVE  Sound(s, Divide(s, operand, signed))
<1> DEFINE r == Division(s, operand, signed)
           q == r.quotient
           p == r.rest
           a == [s EXCEPT !.regs["AX"] = q % W, !.regs["DX"] = p % W]
           n == 256 * (p % 256) + (q % 256)
           b == [s EXCEPT !.regs["AX"] = n]
<1>1. Divide(s, operand, signed) =
        IF r.error THEN Interrupt(s, 0) ELSE IF operand.wide THEN a ELSE b
  BY DEF Divide
<1>2. ~r.error => q \in Int /\ p \in Int
  BY DivisionType
<1> HIDE DEF r, q, p
<1>3. CASE r.error
  <2>1. Interrupt(s, 0) \in Machines /\ Framed(s.regs, s.flags, Interrupt(s, 0))
    BY Interrupted
  <2>2. Interrupt(s, 0).regs["SS"] = s.regs["SS"]
    BY <2>1, Names DEF Framed
  <2>3. QED
    BY <1>1, <1>3, <2>1, <2>2 DEF Sound
<1>4. CASE ~r.error
  <2>1. q % W \in Word16 /\ p % W \in Word16 /\ q % 256 \in Byte /\ p % 256 \in Byte
    BY <1>2, <1>4, WordOf, Modulo, InByte
  <2>2. n \in Word16
    BY <2>1, Joined
  <2>3. "AX" \in RegisterNames \ {"SS"}
    BY Names
  <2>4. Kept(s, a)
    BY <2>1, TwoRegisters
  <2> HIDE DEF n
  <2>5. Kept(s, b)
    BY <2>2, <2>3, RegisterSet
  <2> HIDE DEF a, b
  <2>6. QED
    BY <1>1, <1>4, <2>4, <2>5, SoundKept
<1>5. QED
  BY <1>3, <1>4

LEMMA Group3Sound ==
  ASSUME NEW d \in Instructions
  PROVE  Sound(d.s, Group3(d).s)
<1> DEFINE m == DecodeModrm(d.s, d.wide, d.override)
           value == Read(m.s, m.operand)
           immediate == Immediate(m.s, d.wide)
           tested == Alu(immediate.s, "and", value, immediate.n, d.wide).s
           inverse == Write(m.s, m.operand, Size(d.wide) - 1 - value)
           multiplied == Multiply(m.s, m.operand, m.reg = 5)
           divided == Divide(m.s, m.operand, m.reg = 7)
<1>1. /\ m.operand \in Operands /\ m.s \in Machines /\ Kept(d.s, m.s) /\ m.s.flags = d.s.flags
      /\ \A r \in RegisterNames \ {"IP"} : m.s.regs[r] = d.s.regs[r]
  BY InHand, InModrm
<1>2. Group3(d) = CASE m.reg = 0 -> Ok(tested)
                    [] m.reg = 2 -> Ok(inverse)
                    [] m.reg \in {4, 5} -> Ok(multiplied)
                    [] m.reg \in {6, 7} -> Ok(divided)
                    [] OTHER -> Invalid(m.s)
  BY DEF Group3
<1> HIDE DEF m
<1>3. value \in Int
  BY <1>1, ReadInt
<1> HIDE DEF value
<1>4. immediate.n \in Int /\ immediate.s \in Machines /\ Kept(m.s, immediate.s)
  BY <1>1, Immediately
<1> HIDE DEF immediate
<1>5. "and" \in OperationNames
  BY DEF OperationNames
<1>6. Kept(immediate.s, tested)
  BY <1>3, <1>4, <1>5, AluKept
<1>7. Size(d.wide) - 1 - value \in Int
  BY <1>3, SizeType
<1>8. Kept(m.s, inverse)
  BY <1>1, <1>7, WriteKept
<1>9. Kept(m.s, multiplied)
  BY <1>1, MultiplyKept
<1>10. Sound(m.s, divided)
  BY <1>1, DivideSound
<1> HIDE DEF tested, inverse, multiplied, divided
<1>11. Sound(d.s, divided)
  BY <1>1, <1>10, SoundAgain
<1>12. Kept(d.s, tested) /\ Kept(d.s, inverse) /\ Kept(d.s, multiplied)
  BY <1>1, <1>4, <1>6, <1>8, <1>9, Chained
<1>13. Sound(d.s, m.s) /\ Sound(d.s, tested) /\ Sound(d.s, inverse) /\ Sound(d.s, multiplied)
  BY <1>1, <1>12, SoundKept
<1>14. \/ Group3(d) = Ok(tested) \/ Group3(d) = Ok(inverse) \/ Group3(d) = Ok(multiplied)
       \/ Group3(d) = Ok(divided) \/ Group3(d) = Invalid(m.s)
  BY <1>2
<1>15. QED
  BY <1>11, <1>13, <1>14, Results

----------------------------------------------------------------------------
(***************************************************************************)
(* A loop as a function of how often it has gone round: there is one, and  *)
(* what every round keeps it never leaves.                                 *)
(***************************************************************************)
LEMMA Least ==
  ASSUME NEW T \in SUBSET Nat, T # {}
  PROVE  \E k \in T : \A i \in T : k <= i
<1>1. PICK k \in T : \A i \in T : ~(<<i, k>> \in OpToRel(<, Nat))
  BY WFMin, NatLessThanWellFounded
<1>2. \A i \in T : ~(i < k)
  BY <1>1 DEF OpToRel
<1>3. QED
  BY <1>2

LEMMA Remains ==
  ASSUME NEW X, NEW n \in Nat, NEW g, g[0] \in X,
         \A i \in 1 .. n : g[i - 1] \in X => g[i] \in X
  PROVE  \A i \in 0 .. n : g[i] \in X
<1> DEFINE T == {i \in 0 .. n : g[i] \notin X}
<1>1. SUFFICES T = {}
  OBVIOUS
<1>2. SUFFICES ASSUME T # {}
               PROVE  FALSE
  OBVIOUS
<1>3. PICK k \in T : \A i \in T : k <= i
  <2>1. T \in SUBSET Nat
    OBVIOUS
  <2> HIDE DEF T
  <2>2. QED
    BY <1>2, <2>1, Least
<1>4. k \in 1 .. n /\ g[k] \notin X
  OBVIOUS
<1>5. k - 1 \in 0 .. n /\ k - 1 \notin T
  BY <1>3, <1>4
<1>6. QED
  BY <1>4, <1>5

Rounds(f, X, x, step, n) ==
  f \in [0 .. n -> X] /\ f[0] = x /\ \A i \in 1 .. n : f[i] = step[f[i - 1]]

LEMMA Iterated ==
  ASSUME NEW X, NEW x \in X, NEW step \in [X -> X], NEW n \in Nat
  PROVE  \E f : Rounds(f, X, x, step, n)
<1> DEFINE R(f, k) == Rounds(f, X, x, step, k)
           T == {k \in 0 .. n : ~\E f : R(f, k)}
<1>1. SUFFICES T = {}
  <2>1. n \in 0 .. n
    OBVIOUS
  <2>2. QED
    BY <1>1, <2>1
<1>2. SUFFICES ASSUME T # {}
               PROVE  FALSE
  OBVIOUS
<1>3. PICK k \in T : \A i \in T : k <= i
  <2>1. T \in SUBSET Nat
    OBVIOUS
  <2> HIDE DEF T
  <2>2. QED
    BY <1>2, <2>1, Least
<1>4. k # 0
  <2>1. R([i \in 0 .. 0 |-> x], 0)
    BY DEF Rounds
  <2> HIDE DEF R
  <2>2. QED
    BY <2>1
<1>k. k \in 0 .. n
  OBVIOUS
<1>5. k \in 1 .. n /\ k - 1 \in 0 .. n /\ k - 1 \notin T
  <2> HIDE DEF T
  <2>1. QED
    BY <1>3, <1>4, <1>k
<1>6. PICK f : R(f, k - 1)
  <2> HIDE DEF R
  <2>1. QED
    BY <1>5
<1> DEFINE g == [i \in 0 .. k |-> IF i = k THEN step[f[k - 1]] ELSE f[i]]
<1>7. f[k - 1] \in X
  BY <1>5, <1>6 DEF Rounds
<1>8. g \in [0 .. k -> X] /\ g[0] = x
  BY <1>5, <1>6, <1>7 DEF Rounds
<1>9. \A i \in 1 .. k : g[i] = step[g[i - 1]]
  BY <1>5, <1>6 DEF Rounds
<1>10. R(g, k)
  BY <1>8, <1>9 DEF Rounds
<1> HIDE DEF R, g
<1>11. QED
  BY <1>10

----------------------------------------------------------------------------
\* Shifts.
Shifts == [v : Int, c : Int]

LEMMA ShiftedOnceType ==
  ASSUME NEW e \in 0 .. 7, NEW v \in Int, NEW c \in Int, NEW wide
  PROVE  ShiftedOnce(e, v, c, wide) \in Shifts
<1> DEFINE top == IF SignBit(v, wide) THEN 1 ELSE 0
           half == Size(wide) \div 2
           bottom == v % 2
           left(in) == [v |-> ((2 * v) % Size(wide)) + in, c |-> top]
           right(in) == [v |-> (v \div 2) + half * in, c |-> bottom]
<1>1. ShiftedOnce(e, v, c, wide)
        = CASE e = 0 -> left(top) [] e = 1 -> right(bottom) [] e = 2 -> left(c)
            [] e = 3 -> right(c) [] e \in {4, 6} -> left(0) [] e = 5 -> right(0)
            [] e = 7 -> right(top)
  BY DEF ShiftedOnce
<1>2. top \in Int /\ half \in Int /\ bottom \in Int /\ v \div 2 \in Int
  BY SizeType
<1>3. 2 * v \in Int
  OBVIOUS
<1>4. (2 * v) % Size(wide) \in Int
  BY <1>3, SizeOf
<1> HIDE DEF top, half, bottom
<1>5. \A in \in Int : left(in) \in Shifts /\ right(in) \in Shifts
  BY <1>2, <1>4 DEF Shifts
<1> HIDE DEF left, right
<1>6. /\ left(top) \in Shifts /\ right(bottom) \in Shifts /\ left(c) \in Shifts
      /\ right(c) \in Shifts /\ left(0) \in Shifts /\ right(0) \in Shifts /\ right(top) \in Shifts
  BY <1>2, <1>5
<1>7. QED
  BY <1>1, <1>6

LEMMA ShiftResultType ==
  ASSUME NEW e \in 0 .. 7, NEW v \in Int, NEW c \in Int, NEW n \in Nat, NEW wide
  PROVE  ShiftResult(e, v, c, n, wide) \in Shifts
<1> DEFINE first == [v |-> v, c |-> c]
           step == [p \in Shifts |-> ShiftedOnce(e, p.v, p.c, wide)]
           Loop(f) == f = [i \in 0 .. n |->
                            IF i = 0 THEN [v |-> v, c |-> c]
                            ELSE ShiftedOnce(e, f[i - 1].v, f[i - 1].c, wide)]
           shifted == CHOOSE f : Loop(f)
<1>1. ShiftResult(e, v, c, n, wide) = shifted[n]
  BY DEF ShiftResult
<1>2. \A p \in Shifts : ShiftedOnce(e, p.v, p.c, wide) \in Shifts
  <2> TAKE p \in Shifts
  <2>1. p.v \in Int /\ p.c \in Int
    BY DEF Shifts
  <2>2. QED
    BY <2>1, ShiftedOnceType
<1>3. step \in [Shifts -> Shifts]
  BY <1>2
<1>4. first \in Shifts
  BY DEF Shifts
<1>5. PICK f : Rounds(f, Shifts, first, step, n)
  <2> HIDE DEF step, first
  <2>1. QED
    BY <1>3, <1>4, Iterated
<1>6. Loop(f)
  <2>1. f \in [0 .. n -> Shifts] /\ f[0] = first /\ \A i \in 1 .. n : f[i] = step[f[i - 1]]
    BY <1>5 DEF Rounds
  <2>2. \A i \in 1 .. n : f[i - 1] \in Shifts
    BY <2>1
  <2>3. \A i \in 1 .. n : f[i] = ShiftedOnce(e, f[i - 1].v, f[i - 1].c, wide)
    <3> TAKE i \in 1 .. n
    <3>1. f[i] = step[f[i - 1]] /\ f[i - 1] \in Shifts
      BY <2>1, <2>2
    <3>2. QED
      BY <3>1
  <2>4. QED
    BY <2>1, <2>3
<1>7. Loop(shifted)
  <2> HIDE DEF Loop
  <2>1. QED
    BY <1>6
<1> HIDE DEF shifted
<1>8. shifted[0] \in Shifts
  BY <1>4, <1>7
<1>9. \A i \in 1 .. n : shifted[i - 1] \in Shifts => shifted[i] \in Shifts
  BY <1>2, <1>7
<1>10. \A i \in 0 .. n : shifted[i] \in Shifts
  BY <1>8, <1>9, Remains
<1>11. QED
  BY <1>1, <1>10

LEMMA KeptType == \A s, t : Kept(s, t) => t \in Machines
BY DEF Kept

LEMMA ShiftFlagsKept ==
  ASSUME NEW s \in Machines, NEW e, NEW initial, NEW r, NEW count, NEW wide
  PROVE  Kept(s, ShiftFlags(s, e, initial, r, count, wide))
<1> DEFINE sign(n) == SignBit(n % Size(wide), wide)
           over == CASE e \in {0, 2} -> sign(r.v) # (r.c = 1)
                     [] e \in {1, 3} -> sign(r.v) # sign(2 * r.v)
                     [] e \in {4, 6} -> sign(2 * initial) # sign(initial)
                     [] e = 5 -> sign(initial)
                     [] e = 7 -> FALSE
           set == When(r.c = 1, CF) \cup When(count = 1 /\ over, OF)
           a == SetFlags(s, {CF, OF}, set)
           b == SetFlags(s, Arithmetic6, set \cup ResultFlags(r.v, wide))
<1>1. ShiftFlags(s, e, initial, r, count, wide) = IF e < 4 THEN a ELSE b
  BY DEF ShiftFlags
<1> HIDE DEF over
<1>2. CF \in FlagBits /\ OF \in FlagBits
  BY Bits
<1>3. \A c : When(c, CF) \in SUBSET FlagBits /\ When(c, OF) \in SUBSET FlagBits
  BY <1>2, Bits
<1>4. set \in SUBSET FlagBits
  BY <1>3
<1> HIDE DEF set
<1>5. set \cup ResultFlags(r.v, wide) \in SUBSET FlagBits
  BY <1>4, ResultBits
<1>6. Kept(s, a) /\ Kept(s, b)
  BY <1>4, <1>5, SetFlagsKept
<1> HIDE DEF a, b
<1>7. QED
  BY <1>1, <1>6

LEMMA ShiftSound ==
  ASSUME NEW d \in Instructions
  PROVE  Sound(d.s, Shift(d).s)
<1> DEFINE m == DecodeModrm(d.s, d.wide, d.override)
           count == ShiftCount(d)
           carry == IF CF \in d.s.flags THEN 1 ELSE 0
           r == ShiftResult(m.reg, Read(m.s, m.operand), carry, count, d.wide)
           f == ShiftFlags(m.s, m.reg, Read(m.s, m.operand), r, count, m.operand.wide)
           w == Write(f, m.operand, r.v)
           t == ShiftBy(m.s, m.reg, m.operand, r, count)
<1>1. m.operand \in Operands /\ m.reg \in 0 .. 7 /\ m.s \in Machines /\ Kept(d.s, m.s)
  BY InHand, InModrm
<1>2. count \in Nat
  <2>1. GetRegister(d.s.regs, 1, FALSE) \in Byte
    <3>1. 1 \in 0 .. 7 /\ d.s.regs \in Registers
      BY InHand, MachineParts
    <3>2. \A wide : ~wide => GetRegister(d.s.regs, 1, wide) \in Byte
      BY <3>1, Registered
    <3>3. QED
      BY <3>2
  <2>2. \A n \in Byte : n \in Nat
    BY InByte
  <2>3. GetRegister(d.s.regs, 1, FALSE) \in Nat
    BY <2>1, <2>2
  <2>4. QED
    BY <2>3 DEF ShiftCount
<1>3. Shift(d) = Ok(t)
  BY DEF Shift
<1>4. t = IF count = 0 THEN m.s ELSE w
  BY DEF ShiftBy
<1> HIDE DEF m, count, t
<1>5. Read(m.s, m.operand) \in Int /\ carry \in Int
  BY <1>1, ReadInt
<1> HIDE DEF carry
<1>6. r \in Shifts
  BY <1>1, <1>2, <1>5, ShiftResultType
<1> HIDE DEF r
<1>7. r.v \in Int
  BY <1>6 DEF Shifts
<1>8. Kept(m.s, f)
  BY <1>1, ShiftFlagsKept
<1> HIDE DEF f
<1>9. f \in Machines
  BY <1>8 DEF Kept
<1>10. Kept(f, w)
  BY <1>1, <1>7, <1>9, WriteKept
<1> HIDE DEF w
<1>11. Kept(d.s, w) /\ Kept(d.s, m.s)
  BY <1>1, <1>8, <1>10, Chained
<1>12. QED
  BY <1>3, <1>4, <1>11, SoundKept, Results

\* Decimal adjustment.
LEMMA ByteAccumulator ==
  ASSUME NEW s \in Machines
  PROVE  GetRegister(s.regs, 0, FALSE) \in Byte
<1>1. 0 \in 0 .. 7 /\ s.regs \in Registers
  BY MachineParts
<1>2. \A wide : ~wide => GetRegister(s.regs, 0, wide) \in Byte
  BY <1>1, Registered
<1>3. QED
  BY <1>2

LEMMA DaaSound ==
  ASSUME NEW d \in Instructions
  PROVE  Sound(d.s, Daa(d).s)
<1> DEFINE al == GetRegister(d.s.regs, 0, FALSE)
           lows == al % 16 > 9 \/ AF \in d.s.flags
           highs == al > \h99 \/ CF \in d.s.flags
           adjusted == (al + (IF lows THEN 6 ELSE 0) + IF highs THEN \h60 ELSE 0) % 256
           o == Accumulator(FALSE)
           w == Write(d.s, o, adjusted)
           set == When(lows, AF) \cup When(highs, CF) \cup ResultFlags(adjusted, FALSE)
           t == SetFlags(w, Arithmetic6, set)
<1>1. Daa(d) = Ok(t)
  BY DEF Daa
<1>2. d.s \in Machines
  BY InHand
<1>3. al \in Int
  BY <1>2, ByteAccumulator, InByte
<1> HIDE DEF al, lows, highs
<1>4. adjusted \in Int
  <2>1. al + (IF lows THEN 6 ELSE 0) + (IF highs THEN \h60 ELSE 0) \in Int
    BY <1>3
  <2>2. QED
    BY <2>1, Modulo
<1> HIDE DEF adjusted
<1>5. o \in Operands
  BY DEF Accumulator, RegisterOperand, Operands
<1> HIDE DEF o
<1>6. Kept(d.s, w)
  BY <1>2, <1>4, <1>5, WriteKept
<1> HIDE DEF w
<1>7. w \in Machines
  BY <1>6 DEF Kept
<1>8. set \in SUBSET FlagBits
  <2>1. CF \in FlagBits /\ AF \in FlagBits
    BY Bits
  <2>2. \A c : When(c, CF) \in SUBSET FlagBits /\ When(c, AF) \in SUBSET FlagBits
    BY <2>1, Bits
  <2>3. QED
    BY <2>2, ResultBits
<1> HIDE DEF set
<1>9. Kept(w, t)
  BY <1>7, <1>8, SetFlagsKept
<1> HIDE DEF t
<1>10. QED
  BY <1>1, <1>6, <1>9, TwoKept, Results

LEMMA QuotientByte ==
  ASSUME NEW n \in Byte, NEW m \in Byte, m # 0
  PROVE  n \div m \in Byte /\ n % m \in Byte
<1>1. n \in Int /\ 0 <= n /\ n < 256 /\ m \in Int /\ 0 < m /\ m < 256
  BY InByte
<1>2. n % m \in Int /\ 0 <= n % m /\ n % m < m
  BY <1>1, SMT
<1>3. n \div m \in Int /\ n = m * (n \div m) + (n % m)
  BY <1>1, SMT
<1>4. PICK q \in Int, r \in Int : q = n \div m /\ r = n % m /\ n = m * q + r /\ 0 <= r /\ r < m
  BY <1>2, <1>3
<1>5. q >= 0
  <2>1. q < 0 => m * q <= -m
    BY <1>1, <1>4, SMT
  <2>2. QED
    BY <1>1, <1>4, <2>1, SMT
<1>6. q <= m * q
  BY <1>1, <1>4, <1>5, SMT
<1>7. q < 256
  BY <1>1, <1>4, <1>6, SMT
<1>8. QED
  BY <1>1, <1>4, <1>5, <1>7, InByte

LEMMA AamSound ==
  ASSUME NEW d \in Instructions
  PROVE  Sound(d.s, Aam(d).s)
<1> DEFINE base == CodeAt(d.s, 0)
           s == Consumed(d.s, 1)
           al == GetRegister(s.regs, 0, FALSE)
           n == 256 * (al \div base) + (al % base)
           w == [s EXCEPT !.regs["AX"] = n]
           set == ResultFlags(al % base, FALSE)
           t == SetFlags(w, {PF, ZF, SF}, set)
<1>1. Aam(d) = IF base = 0 THEN Invalid(s) ELSE Ok(t)
  BY DEF Aam
<1>2. d.s \in Machines
  BY InHand
<1>3. Kept(d.s, s) /\ s \in Machines /\ base \in Byte
  BY <1>2, IpKept, CodeByte, KeptType
<1> HIDE DEF s, base
<1>4. al \in Byte
  BY <1>3, ByteAccumulator
<1>5. "AX" \in RegisterNames \ {"SS"}
  BY Names
<1>6. set \in SUBSET FlagBits
  BY ResultBits
<1> HIDE DEF al, set
<1>7. ASSUME base # 0
      PROVE  Kept(d.s, t)
  <2>1. n \in Word16
    BY <1>3, <1>4, <1>7, QuotientByte, Joined
  <2> HIDE DEF n
  <2>2. Kept(s, w)
    BY <1>3, <1>5, <2>1, RegisterSet
  <2> HIDE DEF w
  <2>3. w \in Machines
    BY <2>2 DEF Kept
  <2>4. Kept(w, t)
    BY <1>6, <2>3, SetFlagsKept
  <2> HIDE DEF t
  <2>5. QED
    BY <1>3, <2>2, <2>4, Chained
<1> HIDE DEF t
<1>8. QED
  BY <1>1, <1>3, <1>7, SoundKept, Results

LEMMA AadSound ==
  ASSUME NEW d \in Instructions
  PROVE  Sound(d.s, Aad(d).s)
<1> DEFINE s == Consumed(d.s, 1)
           value == (High(s.regs.AX) * CodeAt(d.s, 0) + Low(s.regs.AX)) % 256
           w == [s EXCEPT !.regs["AX"] = value]
           set == ResultFlags(value, FALSE)
           t == SetFlags(w, {PF, ZF, SF}, set)
<1>1. Aad(d) = Ok(t)
  BY DEF Aad
<1>2. d.s \in Machines
  BY InHand
<1>3. Kept(d.s, s) /\ s \in Machines /\ CodeAt(d.s, 0) \in Int
  BY <1>2, IpKept, CodeByte, KeptType
<1> HIDE DEF s
<1>4. High(s.regs.AX) \in Int /\ Low(s.regs.AX) \in Int
  BY <1>3, MachineParts, LowByte, HighByte, Zero
<1>5. High(s.regs.AX) * CodeAt(d.s, 0) + Low(s.regs.AX) \in Int
  BY <1>3, <1>4
<1>6. value \in Word16
  BY <1>5, Modulo, InWord16
<1>7. "AX" \in RegisterNames \ {"SS"}
  BY Names
<1>8. set \in SUBSET FlagBits
  BY ResultBits
<1> HIDE DEF value, set
<1>9. Kept(s, w)
  BY <1>3, <1>6, <1>7, RegisterSet
<1> HIDE DEF w
<1>10. w \in Machines
  BY <1>9 DEF Kept
<1>11. Kept(w, t)
  BY <1>8, <1>10, SetFlagsKept
<1> HIDE DEF t
<1>12. Kept(d.s, t)
  BY <1>3, <1>9, <1>11, Chained
<1>13. QED
  BY <1>1, <1>12, SoundKept, Results

LEMMA ComplementCarrySound ==
  ASSUME NEW d \in Instructions
  PROVE  Sound(d.s, ComplementCarry(d).s)
<1> DEFINE f == IF CF \in d.s.flags THEN d.s.flags \ {CF} ELSE d.s.flags \cup {CF}
<1>1. d.s \in Machines
  BY InHand
<1>2. d.s.flags \in SUBSET FlagBits /\ RESERVED \in d.s.flags
  BY <1>1, MachineParts, Bits
<1>3. CF # RESERVED /\ CF \in FlagBits
  BY Bits DEF CF, RESERVED
<1>4. f \in FlagSets
  BY <1>2, <1>3, Bits
<1>5. ComplementCarry(d) = Ok([d.s EXCEPT !.flags = f])
  BY DEF ComplementCarry
<1> HIDE DEF f
<1>6. QED
  BY <1>1, <1>4, <1>5, FlagsKept, SoundKept, Results

LEMMA ClearSetSound ==
  ASSUME NEW d \in Instructions
  PROVE  Sound(d.s, ClearSet(d).s)
<1> DEFINE flag == CASE d.opcode < \hFA -> CF [] d.opcode \in {\hFA, \hFB} -> IntF [] OTHER -> DF
           s == SetFlags(d.s, {flag}, When(d.wide, flag))
           shadow == IF d.opcode = \hFB THEN 1 ELSE s.shadow
           t == [s EXCEPT !.shadow = shadow]
<1>1. ClearSet(d) = Ok(t)
  BY DEF ClearSet
<1>2. d.s \in Machines
  BY InHand
<1>3. flag \in FlagBits
  BY Bits
<1> HIDE DEF flag
<1>4. When(d.wide, flag) \in SUBSET FlagBits
  BY <1>3, Bits
<1>5. Kept(d.s, s)
  BY <1>2, <1>4, SetFlagsKept
<1> HIDE DEF s
<1>6. s \in Machines
  BY <1>5 DEF Kept
<1>7. shadow \in {0, 1}
  BY <1>6 DEF Machines
<1> HIDE DEF shadow
<1>8. t \in Machines /\ t.regs = s.regs /\ t.return = s.return
  BY <1>6, <1>7 DEF Machines
<1> HIDE DEF t
<1>9. Kept(s, t)
  BY <1>8 DEF Kept
<1>10. QED
  BY <1>1, <1>5, <1>9, TwoKept, Results

----------------------------------------------------------------------------
\* Strings.
Strings5 == {"movs", "cmps", "stos", "lods", "scas"}

LEMMA MemoryKept ==
  ASSUME NEW s \in Machines, NEW m \in Memories
  PROVE  Kept(s, [s EXCEPT !.mem = m])
BY DEF Machines, Kept

LEMMA StringOnceKept ==
  ASSUME NEW d \in Instructions, d.handler \in Strings5, NEW s \in Machines
  PROVE  Kept(s, StringOnce(d, s))
<1> DEFINE wide == d.wide
           from == IF d.override = "" THEN "DS" ELSE d.override
           source == ReadMemory(s.mem, s.regs[from], s.regs.SI, wide)
           there == ReadMemory(s.mem, s.regs.ES, s.regs.DI, wide)
           acc == Accumulator(wide)
           a == Read(s, acc)
           ma == WriteMemory(s.mem, s.regs.ES, s.regs.DI, wide, a)
           ms == WriteMemory(s.mem, s.regs.ES, s.regs.DI, wide, source)
           w1 == [s EXCEPT !.mem = ms]
           w2 == [s EXCEPT !.mem = ma]
           w3 == Write(s, acc, source)
           w4 == Alu(s, "cmp", source, there, wide).s
           w5 == Alu(s, "cmp", a, there, wide).s
           worked == CASE d.handler = "movs" -> w1
                       [] d.handler = "stos" -> w2
                       [] d.handler = "lods" -> w3
                       [] d.handler = "cmps" -> w4
                       [] d.handler = "scas" -> w5
           delta == (IF wide THEN 2 ELSE 1) * IF DF \in s.flags THEN -1 ELSE 1
           si == IF d.handler \in {"movs", "cmps", "lods"} THEN (s.regs["SI"] + delta) % W
                 ELSE s.regs["SI"]
           di == IF d.handler \in {"movs", "cmps", "stos", "scas"} THEN (s.regs["DI"] + delta) % W
                 ELSE s.regs["DI"]
           x1 == [worked.regs EXCEPT !["SI"] = si]
           x2 == [x1 EXCEPT !["DI"] = di]
           cx == IF d.repeat = 0 THEN x2["CX"] ELSE (x2["CX"] - 1) % W
           x3 == [x2 EXCEPT !["CX"] = cx]
           t == [worked EXCEPT !.regs = x3]
<1>1. StringOnce(d, s) = t
  <2> DEFINE u == [worked EXCEPT !.regs["SI"] = si, !.regs["DI"] = di,
                                 !.regs["CX"] = IF d.repeat = 0 THEN @ ELSE (@ - 1) % W]
  <2>1. StringOnce(d, s) = u
    BY Zenon DEF StringOnce
  <2> HIDE DEF worked, si, di
  <2>2. u = t
    BY Zenon
  <2>3. QED
    BY <2>1, <2>2
<1>2. d.wide \in BOOLEAN
  BY InHand
<1>3. acc \in Operands
  BY <1>2, RegisterType DEF Accumulator
<1>4. source \in Word16 /\ there \in Word16 /\ a \in Int
  BY <1>3, MachineParts, Readable, ReadInt
<1>5. source \in Int /\ there \in Int
  BY <1>4, Zero
<1> HIDE DEF acc, source, there, a
<1>6. ma \in Memories /\ ms \in Memories
  BY <1>4, <1>5, MachineParts, Writable, Zero
<1> HIDE DEF ma, ms
<1>7. Kept(s, w1) /\ Kept(s, w2)
  BY <1>6, MemoryKept
<1>8. Kept(s, w3)
  BY <1>3, <1>5, WriteKept
<1>9. "cmp" \in OperationNames
  BY DEF OperationNames
<1>10. Kept(s, w4) /\ Kept(s, w5)
  BY <1>4, <1>5, <1>9, AluKept
<1> HIDE DEF w1, w2, w3, w4, w5
<1>11. Kept(s, worked)
  BY <1>7, <1>8, <1>10 DEF Strings5
<1> HIDE DEF worked
<1>12. worked \in Machines
  BY <1>11, KeptType
<1>13. delta \in Int
  <2>1. (IF wide THEN 2 ELSE 1) \in {1, 2} /\ (IF DF \in s.flags THEN -1 ELSE 1) \in {-1, 1}
    OBVIOUS
  <2>2. \A i \in {1, 2} : \A j \in {-1, 1} : i * j \in Int
    OBVIOUS
  <2>3. QED
    BY <2>1, <2>2
<1> HIDE DEF delta
<1>14. {"SI", "DI", "CX"} \subseteq RegisterNames \ {"SS"} /\ "SS" \in RegisterNames
  BY Names
<1>15. s.regs["SI"] \in Word16 /\ s.regs["DI"] \in Word16 /\ s.regs["SI"] \in Int
       /\ s.regs["DI"] \in Int
  BY <1>14, MachineParts
<1>16. s.regs["SI"] + delta \in Int /\ s.regs["DI"] + delta \in Int
  BY <1>13, <1>15
<1>17. si \in Word16 /\ di \in Word16
  BY <1>15, <1>16, WordOf
<1> HIDE DEF si, di
<1>18. x1 \in Registers /\ x1["SS"] = worked.regs["SS"]
  BY <1>12, <1>14, <1>17, MachineParts, OneRegister
<1> HIDE DEF x1
<1>19. x2 \in Registers /\ x2["SS"] = worked.regs["SS"]
  BY <1>14, <1>17, <1>18, OneRegister
<1> HIDE DEF x2
<1>20. x2["CX"] \in Word16
  BY <1>14, <1>19 DEF Registers
<1>21. x2["CX"] - 1 \in Int
  <2>1. x2["CX"] \in Int
    BY <1>20, Zero
  <2>2. QED
    BY <2>1
<1>22. cx \in Word16
  BY <1>20, <1>21, WordOf
<1> HIDE DEF cx
<1>23. x3 \in Registers /\ x3["SS"] = worked.regs["SS"]
  BY <1>14, <1>19, <1>22, OneRegister
<1> HIDE DEF x3
<1>24. Kept(worked, t)
  BY <1>12, <1>23, RegistersKept
<1> HIDE DEF t
<1>25. QED
  BY <1>1, <1>11, <1>24, Chained

LEMMA StringSound ==
  ASSUME NEW d \in Instructions, d.handler \in Strings5
  PROVE  Sound(d.s, String(d).s)
<1> DEFINE n == IF d.repeat = 0 THEN 1 ELSE d.s.regs.CX
           ends(s) == d.repeat # 0 /\ d.handler \in {"cmps", "scas"}
                        /\ (ZF \in s.flags) = (d.repeat = \hF2)
           first == [s |-> d.s, over |-> FALSE]
           round(p) == IF p.over THEN p
                       ELSE [s |-> StringOnce(d, p.s), over |-> ends(StringOnce(d, p.s))]
           X == {p \in [s : Machines, over : BOOLEAN] : Kept(d.s, p.s)}
           step == [p \in X |-> round(p)]
           Loop(f) == f = [i \in 0 .. n |-> IF i = 0 THEN first ELSE round(f[i - 1])]
           after == CHOOSE f : Loop(f)
<1>1. String(d) = Ok(after[n].s)
  BY DEF String
<1>2. d.s \in Machines
  BY InHand
<1>3. n \in Nat
  <2>1. d.s.regs.CX \in Word16
    BY <1>2, MachineParts
  <2>2. \A k \in Word16 : k \in Nat
    BY InWord16
  <2>3. d.s.regs.CX \in Nat
    BY <2>1, <2>2
  <2>4. QED
    BY <2>3
<1> HIDE DEF n
<1>4. \A p \in X : round(p) \in X
  <2> TAKE p \in X
  <2>1. p \in [s : Machines, over : BOOLEAN] /\ Kept(d.s, p.s) /\ p.s \in Machines
    OBVIOUS
  <2> DEFINE q == StringOnce(d, p.s)
             e == ends(q)
  <2>2. Kept(p.s, q)
    BY <2>1, StringOnceKept
  <2>3. e \in BOOLEAN
    OBVIOUS
  <2>4. round(p) = IF p.over THEN p ELSE [s |-> q, over |-> e]
    OBVIOUS
  <2> HIDE DEF q, e
  <2>5. Kept(d.s, q) /\ q \in Machines
    BY <2>1, <2>2, Chained, KeptType
  <2>6. [s |-> q, over |-> e] \in X
    BY <2>3, <2>5
  <2> HIDE DEF round, X
  <2>7. QED
    BY <2>4, <2>6
<1>5. first \in X
  BY <1>2, Itself
<1> HIDE DEF round, X, first
<1>6. step \in [X -> X]
  BY <1>4
<1>7. PICK f : Rounds(f, X, first, step, n)
  <2> HIDE DEF step
  <2>1. QED
    BY <1>3, <1>5, <1>6, Iterated
<1>8. Loop(f)
  <2>1. f \in [0 .. n -> X] /\ f[0] = first /\ \A i \in 1 .. n : f[i] = step[f[i - 1]]
    BY <1>7 DEF Rounds
  <2>2. \A i \in 1 .. n : f[i - 1] \in X
    BY <1>3, <2>1
  <2>3. \A i \in 1 .. n : f[i] = round(f[i - 1])
    <3> TAKE i \in 1 .. n
    <3>1. f[i] = step[f[i - 1]] /\ f[i - 1] \in X
      BY <2>1, <2>2
    <3>2. QED
      BY <3>1
  <2>4. QED
    BY <1>3, <2>1, <2>3
<1>9. Loop(after)
  <2> HIDE DEF Loop
  <2>1. QED
    BY <1>8
<1> HIDE DEF after
<1>10. after[0] \in X
  BY <1>3, <1>5, <1>9
<1>11. \A i \in 1 .. n : after[i - 1] \in X => after[i] \in X
  BY <1>3, <1>4, <1>9
<1>12. after[n] \in X
  <2> HIDE DEF Loop
  <2>1. \A i \in 0 .. n : after[i] \in X
    BY <1>3, <1>10, <1>11, Remains
  <2>2. QED
    BY <1>3, <2>1
<1>13. Kept(d.s, after[n].s)
  BY <1>12 DEF X
<1>14. QED
  BY <1>1, <1>13, SoundKept, Results

----------------------------------------------------------------------------
\* Control.
LEMMA RelativeType ==
  ASSUME NEW s \in Machines, NEW wide
  PROVE  Relative(s, wide) \in Int
<1>1. s.regs.IP \in Int
  BY MachineParts, Zero
<1>2. CodeWord(s, 0) \in Int /\ Displacement8(s, 0) \in Int
  BY CodeNumbers
<1>3. QED
  BY <1>1, <1>2 DEF Relative

LEMMA JumpRelativeKept ==
  ASSUME NEW d, d.s \in Machines, NEW wide, NEW taken
  PROVE  Kept(d.s, JumpRelative(d, wide, taken).s)
<1> DEFINE next == Consumed(d.s, IF wide THEN 2 ELSE 1)
           t == Jump(next, Relative(d.s, wide))
<1>1. JumpRelative(d, wide, taken) = Ok(IF taken THEN t ELSE next)
  BY DEF JumpRelative
<1>2. (IF wide THEN 2 ELSE 1) \in Int
  OBVIOUS
<1>3. Kept(d.s, next) /\ next \in Machines
  BY <1>2, IpKept, KeptType
<1> HIDE DEF next
<1>4. Kept(next, t)
  BY <1>3, RelativeType, IpKept
<1> HIDE DEF t
<1>5. QED
  BY <1>1, <1>3, <1>4, Chained, Results

LEMMA LoopRel8Sound ==
  ASSUME NEW d \in Instructions
  PROVE  Sound(d.s, LoopRel8(d).s)
<1> DEFINE n == (d.s.regs["CX"] - 1) % W
           c == [d.s EXCEPT !.regs["CX"] = n]
           counted == IF d.opcode = \hE3 THEN d ELSE [d EXCEPT !.s = c]
           cx == counted.s.regs.CX
           zero == ZF \in d.s.flags
           taken == CASE d.opcode = \hE3 -> cx = 0
                      [] d.opcode = \hE2 -> cx # 0
                      [] d.opcode = \hE1 -> cx # 0 /\ zero
                      [] d.opcode = \hE0 -> cx # 0 /\ ~zero
<1>1. LoopRel8(d) = JumpRelative(counted, FALSE, taken)
  BY DEF LoopRel8
<1>2. d.s \in Machines
  BY InHand
<1>3. "CX" \in RegisterNames \ {"SS"}
  BY Names
<1>4. d.s.regs["CX"] \in Int
  BY <1>2, <1>3, MachineParts
<1>5. d.s.regs["CX"] - 1 \in Int
  BY <1>4
<1>6. n \in Word16
  BY <1>5, WordOf
<1> HIDE DEF n
<1>7. Kept(d.s, c)
  BY <1>2, <1>3, <1>6, RegisterSet
<1> HIDE DEF c
<1>8. counted.s = d.s \/ counted.s = c
  BY DEF Instructions
<1> HIDE DEF taken, counted
<1>9. Kept(d.s, counted.s) /\ counted.s \in Machines
  BY <1>2, <1>7, <1>8, Itself, KeptType
<1> DEFINE j == JumpRelative(counted, FALSE, taken)
<1>10. Kept(counted.s, j.s)
  BY <1>9, JumpRelativeKept
<1> HIDE DEF j
<1>11. Sound(d.s, j.s)
  BY <1>9, <1>10, TwoKept
<1>12. QED
  BY <1>1, <1>11 DEF j

LEMMA CallRel16Sound ==
  ASSUME NEW d \in Instructions
  PROVE  Sound(d.s, CallRel16(d).s)
<1> DEFINE next == Consumed(d.s, 2)
           p == Push(next, next.regs.IP)
           t == Jump(p, Relative(d.s, TRUE))
<1>1. CallRel16(d) = Ok(t)
  BY DEF CallRel16
<1>2. d.s \in Machines
  BY InHand
<1>3. Kept(d.s, next) /\ next \in Machines
  BY <1>2, IpKept, KeptType
<1> HIDE DEF next
<1>4. next.regs.IP \in Int
  BY <1>3, MachineParts, Zero
<1>5. Kept(next, p) /\ p \in Machines
  BY <1>3, <1>4, Pushed
<1> HIDE DEF p
<1>6. Kept(p, t)
  BY <1>2, <1>5, RelativeType, IpKept
<1> HIDE DEF t
<1>7. Kept(d.s, t)
  BY <1>3, <1>5, <1>6, Chained
<1>8. QED
  BY <1>1, <1>7, SoundKept, Results

LEMMA FarKept ==
  ASSUME NEW s \in Machines, NEW ip \in Word16, NEW cs \in Word16
  PROVE  /\ Kept(s, Far(s, ip, cs)) /\ Far(s, ip, cs) \in Machines
         /\ Far(s, ip, cs).mem = s.mem /\ Far(s, ip, cs).flags = s.flags
         /\ Far(s, ip, cs).regs.IP = ip /\ Far(s, ip, cs).regs.CS = cs
         /\ \A r \in RegisterNames \ {"IP", "CS"} : Far(s, ip, cs).regs[r] = s.regs[r]
<1> DEFINE y == [s.regs EXCEPT !["IP"] = ip]
           x == [y EXCEPT !["CS"] = cs]
<1>1. {"IP", "CS"} \subseteq RegisterNames /\ "SS" \in RegisterNames \ {"IP", "CS"}
  BY Names
<1>2. s.regs \in Registers
  BY MachineParts
<1>3. Far(s, ip, cs) = [s EXCEPT !.regs = x]
  BY DEF Far
<1>4. /\ y \in Registers /\ y["IP"] = ip
      /\ \A r \in RegisterNames \ {"IP"} : y[r] = s.regs[r]
  BY <1>1, <1>2, OneRegister
<1> HIDE DEF y
<1>5. /\ x \in Registers /\ x["CS"] = cs
      /\ \A r \in RegisterNames \ {"CS"} : x[r] = y[r]
  BY <1>1, <1>4, OneRegister
<1> HIDE DEF x
<1>6. x["SS"] = s.regs["SS"]
  BY <1>1, <1>4, <1>5
<1> DEFINE t == [s EXCEPT !.regs = x]
<1>7. Kept(s, t) /\ t \in Machines /\ t.regs = x /\ t.mem = s.mem /\ t.flags = s.flags
  BY <1>5, <1>6, RegistersKept
<1> HIDE DEF t
<1>8. QED
  BY <1>1, <1>3, <1>4, <1>5, <1>7 DEF t

LEMMA JmpFarSound ==
  ASSUME NEW d \in Instructions
  PROVE  Sound(d.s, JmpFar(d).s)
<1>1. d.s \in Machines
  BY InHand
<1>2. CodeWord(d.s, 0) \in Word16 /\ CodeWord(d.s, 2) \in Word16
  BY <1>1, CodeNumbers
<1>3. Kept(d.s, Far(d.s, CodeWord(d.s, 0), CodeWord(d.s, 2)))
  BY <1>1, <1>2, FarKept
<1>4. QED
  BY <1>3, SoundKept, Results DEF JmpFar

LEMMA CallFarSound ==
  ASSUME NEW d \in Instructions
  PROVE  Sound(d.s, CallFar(d).s)
<1> DEFINE next == Consumed(d.s, 4)
           p == Push(next, next.regs.CS)
           q == Push(p, next.regs.IP)
           t == Far(q, CodeWord(d.s, 0), CodeWord(d.s, 2))
<1>1. CallFar(d) = Ok(t)
  BY DEF CallFar
<1>2. d.s \in Machines
  BY InHand
<1>3. CodeWord(d.s, 0) \in Word16 /\ CodeWord(d.s, 2) \in Word16
  BY <1>2, CodeNumbers
<1>4. Kept(d.s, next) /\ next \in Machines
  BY <1>2, IpKept, KeptType
<1> HIDE DEF next
<1>5. next.regs.IP \in Int /\ next.regs.CS \in Int
  BY <1>4, MachineParts, Zero
<1>6. Kept(next, p) /\ p \in Machines
  BY <1>4, <1>5, Pushed
<1> HIDE DEF p
<1>7. Kept(p, q) /\ q \in Machines
  BY <1>5, <1>6, Pushed
<1> HIDE DEF q
<1>8. Kept(q, t)
  BY <1>3, <1>7, FarKept
<1> HIDE DEF t
<1>9. Kept(d.s, t)
  BY <1>4, <1>6, <1>7, <1>8, Chained
<1>10. QED
  BY <1>1, <1>9, SoundKept, Results

LEMMA StackMoved ==
  ASSUME NEW s \in Machines, NEW n \in Int
  PROVE  Kept(s, [s EXCEPT !.regs["SP"] = (s.regs["SP"] + n) % W])
<1> DEFINE sp == (s.regs["SP"] + n) % W
<1>1. "SP" \in RegisterNames \ {"SS"}
  BY Names
<1>2. s.regs["SP"] \in Int
  BY <1>1, MachineParts
<1>3. s.regs["SP"] + n \in Int
  BY <1>2
<1>4. sp \in Word16
  BY <1>3, WordOf
<1> HIDE DEF sp
<1>5. Kept(s, [s EXCEPT !.regs["SP"] = sp])
  BY <1>1, <1>4, RegisterSet
<1>6. QED
  BY <1>5 DEF sp

LEMMA DroppedType == \A d \in Instructions : Dropped(d) \in Int
<1> TAKE d \in Instructions
<1>1. CodeWord(d.s, 0) \in Int
  BY InHand, CodeNumbers
<1>2. QED
  BY <1>1 DEF Dropped

LEMMA RetNearSound ==
  ASSUME NEW d \in Instructions
  PROVE  Sound(d.s, RetNear(d).s)
<1> DEFINE p == Popped(d.s)
           j == Jump(p, Top(d.s))
           n == Dropped(d)
           t == [j EXCEPT !.regs["SP"] = (j.regs["SP"] + n) % W]
<1>1. RetNear(d) = Ok(t)
  BY DEF RetNear
<1>2. p \in Machines /\ Kept(d.s, p) /\ Top(d.s) \in Int
  BY InHand, PoppedKept
<1> HIDE DEF p
<1>3. Kept(p, j) /\ j \in Machines
  BY <1>2, IpKept, KeptType
<1> HIDE DEF j
<1>4. n \in Int
  BY DroppedType
<1> HIDE DEF n
<1>5. Kept(j, t)
  BY <1>3, <1>4, StackMoved
<1> HIDE DEF t
<1>6. Kept(d.s, t)
  BY <1>2, <1>3, <1>5, Chained
<1>7. QED
  BY <1>1, <1>6, SoundKept, Results

LEMMA FarPoppedKept ==
  ASSUME NEW s \in Machines
  PROVE  Kept(s, FarPopped(s)) /\ FarPopped(s) \in Machines
<1> DEFINE p == Popped(s)
           f == Far(p, Top(s), Top(p))
<1>1. p \in Machines /\ Kept(s, p) /\ Top(s) \in Word16
  BY PoppedKept
<1>2. FarPopped(s) = Popped(f)
  BY DEF FarPopped
<1> HIDE DEF p
<1>3. Top(p) \in Word16
  BY <1>1, PoppedKept
<1>4. Kept(p, f) /\ f \in Machines
  BY <1>1, <1>3, FarKept
<1> HIDE DEF f
<1>5. Kept(f, Popped(f))
  BY <1>4, PoppedKept
<1>6. Kept(s, Popped(f))
  BY <1>1, <1>4, <1>5, Chained
<1>7. QED
  BY <1>2, <1>6, KeptType

LEMMA RetFarSound ==
  ASSUME NEW d \in Instructions
  PROVE  Sound(d.s, RetFar(d).s)
<1> DEFINE j == FarPopped(d.s)
           n == Dropped(d)
           t == [j EXCEPT !.regs["SP"] = (j.regs["SP"] + n) % W]
<1>1. RetFar(d) = Ok(t)
  BY DEF RetFar
<1>2. Kept(d.s, j) /\ j \in Machines
  BY InHand, FarPoppedKept
<1> HIDE DEF j
<1>3. n \in Int
  BY DroppedType
<1> HIDE DEF n
<1>4. Kept(j, t)
  BY <1>2, <1>3, StackMoved
<1> HIDE DEF t
<1>5. QED
  BY <1>1, <1>2, <1>4, TwoKept, Results

LEMMA IretSound ==
  ASSUME NEW d \in Instructions
  PROVE  Sound(d.s, Iret(d).s)
<1> DEFINE j == FarPopped(d.s)
           p == Popped(j)
           f == FlagsFrom(Top(j))
           t == [p EXCEPT !.flags = f]
<1>1. Iret(d) = Ok(t)
  BY DEF Iret
<1>2. Kept(d.s, j) /\ j \in Machines
  BY InHand, FarPoppedKept
<1>3. f \in FlagSets
  BY FlagsTaken
<1> HIDE DEF j, f
<1>4. Kept(j, p) /\ p \in Machines
  BY <1>2, PoppedKept
<1> HIDE DEF p
<1>5. Kept(p, t)
  BY <1>3, <1>4, FlagsKept
<1> HIDE DEF t
<1>6. Kept(d.s, t)
  BY <1>2, <1>4, <1>5, Chained
<1>7. QED
  BY <1>1, <1>6, SoundKept, Results

\* An interrupt of the program's own.
LEMMA InterruptSound ==
  ASSUME NEW s \in Machines, NEW number
  PROVE  Sound(s, Interrupt(s, number))
<1> DEFINE t == Interrupt(s, number)
<1>1. t \in Machines /\ Framed(s.regs, s.flags, t)
  BY Interrupted
<1>2. "SS" \in RegisterNames \ {"SP", "IP", "CS"}
  BY Names
<1> HIDE DEF t
<1>3. t.regs["SS"] = s.regs["SS"]
  BY <1>1, <1>2 DEF Framed
<1>4. Sound(s, t)
  BY <1>1, <1>3 DEF Sound
<1>5. QED
  BY <1>4 DEF t

LEMMA SoftwareInterruptSound ==
  ASSUME NEW d \in Instructions, d.handler \in {"int3", "int_imm8", "into"}
  PROVE  Sound(d.s, SoftwareInterrupt(d).s)
<1> DEFINE c == Consumed(d.s, 1)
           a == Interrupt(d.s, 3)
           b == Interrupt(c, CodeAt(d.s, 0))
           e == Interrupt(d.s, 4)
<1>1. SoftwareInterrupt(d) = CASE d.handler = "int3" -> Ok(a)
                               [] d.handler = "int_imm8" -> Ok(b)
                               [] d.handler = "into" -> Ok(IF OF \in d.s.flags THEN e ELSE d.s)
  BY DEF SoftwareInterrupt
<1>2. d.s \in Machines
  BY InHand
<1>3. /\ Kept(d.s, c) /\ c \in Machines /\ c.flags = d.s.flags
      /\ \A r \in RegisterNames \ {"IP"} : c.regs[r] = d.s.regs[r]
  BY <1>2, IpKept, KeptType
<1> HIDE DEF c
<1>4. Sound(d.s, a) /\ Sound(c, b) /\ Sound(d.s, e)
  BY <1>2, <1>3, InterruptSound
<1> HIDE DEF a, b, e
<1>5. Sound(d.s, b)
  BY <1>3, <1>4, SoundAgain
<1>6. Sound(d.s, d.s)
  BY <1>2, Itself, SoundKept
<1>7. QED
  BY <1>1, <1>4, <1>5, <1>6, Results

LEMMA HltSound ==
  ASSUME NEW d \in Instructions
  PROVE  Sound(d.s, Hlt(d).s)
<1> DEFINE t == [d.s EXCEPT !.halted = TRUE]
<1>1. Hlt(d).s = t
  BY DEF Hlt, Done
<1>2. d.s \in Machines
  BY InHand
<1>3. Kept(d.s, t)
  BY <1>2 DEF Machines, Kept
<1> HIDE DEF t
<1>4. QED
  BY <1>1, <1>3, SoundKept

----------------------------------------------------------------------------
\* Ports.
LEMMA PortType ==
  ASSUME NEW d \in Instructions
  PROVE  /\ Port(d) \in Word16 /\ (Port(d) + 1) % W \in Word16
         /\ Kept(d.s, PortNamed(d)) /\ PortNamed(d) \in Machines
<1>1. d.s \in Machines
  BY InHand
<1>2. CodeAt(d.s, 0) \in Word16 /\ d.s.regs.DX \in Word16
  BY <1>1, CodeByte, MachineParts, Zero
<1>3. Port(d) \in Word16
  BY <1>2 DEF Port
<1>4. Port(d) \in Int
  BY <1>3, Zero
<1>5. Port(d) + 1 \in Int
  BY <1>4
<1>6. Kept(d.s, PortNamed(d))
  BY <1>1, IpKept, Itself DEF PortNamed
<1>7. QED
  BY <1>3, <1>5, <1>6, WordOf, KeptType

LEMMA PortValueType ==
  ASSUME NEW s \in Machines, NEW port
  PROVE  PortValue(s, port) \in Byte
<1>1. {0, 6, 13, 9, 255} \subseteq Byte
  BY InByte
<1>2. s.ppi \in Byte /\ s.ports \in PortMaps
  BY MachineParts
<1>3. port \in DOMAIN s.ports => s.ports[port] \in Byte
  BY <1>2 DEF PortMaps
<1>4. QED
  BY <1>1, <1>2, <1>3 DEF PortValue

LEMMA PortReadKept ==
  ASSUME NEW s \in Machines, NEW port \in Word16
  PROVE  Kept(s, PortRead(s, port)) /\ PortRead(s, port) \in Machines
<1> DEFINE phase == IF port = \h3DA /\ port \notin DOMAIN s.ports THEN ~s.phase ELSE s.phase
           e == Event("in", port, PortValue(s, port))
           io == Append(s.io, e)
           t == [s EXCEPT !.phase = phase, !.io = io]
<1>1. PortRead(s, port) = t
  BY DEF PortRead
<1>2. e \in EventRows
  BY PortValueType DEF Event, EventRows
<1> HIDE DEF e
<1>3. s.io \in Seq(EventRows) /\ s.phase \in BOOLEAN
  BY MachineParts
<1>4. io \in Seq(EventRows)
  BY <1>2, <1>3
<1>5. phase \in BOOLEAN
  BY <1>3
<1> HIDE DEF io, phase
<1>6. t \in Machines /\ t.regs = s.regs /\ t.return = s.return
  BY <1>4, <1>5 DEF Machines
<1> HIDE DEF t
<1>7. QED
  BY <1>1, <1>6 DEF Kept

LEMMA PortWrittenKept ==
  ASSUME NEW s \in Machines, NEW port \in Word16, NEW value \in Byte
  PROVE  Kept(s, PortWritten(s, port, value)) /\ PortWritten(s, port, value) \in Machines
<1> DEFINE ppi == IF port = \h61 THEN value ELSE s.ppi
           ports == Put(s.ports, port, value)
           e == Event("out", port, value)
           io == Append(s.io, e)
           t == [s EXCEPT !.ports = ports, !.ppi = ppi, !.io = io]
<1>1. PortWritten(s, port, value) = t
  BY DEF PortWritten
<1>2. e \in EventRows
  BY DEF Event, EventRows
<1> HIDE DEF e
<1>3. s.io \in Seq(EventRows) /\ s.ppi \in Byte /\ s.ports \in PortMaps
  BY MachineParts
<1>4. io \in Seq(EventRows)
  BY <1>2, <1>3
<1>5. ppi \in Byte
  BY <1>3
<1>6. ports \in PortMaps
  BY <1>3, MapPut DEF PortMaps
<1> HIDE DEF io, ppi, ports
<1>7. t \in Machines /\ t.regs = s.regs /\ t.return = s.return
  BY <1>4, <1>5, <1>6 DEF Machines
<1> HIDE DEF t
<1>8. QED
  BY <1>1, <1>7 DEF Kept

LEMMA InSound ==
  ASSUME NEW d \in Instructions
  PROVE  Sound(d.s, In(d).s)
<1> DEFINE s == PortNamed(d)
           p == Port(d)
           second == (Port(d) + 1) % W
           first == PortRead(s, p)
           both == PortRead(first, second)
           v == PortValue(s, p)
           n == v + IF d.wide THEN 256 * PortValue(first, second) ELSE 0
           read == IF d.wide THEN both ELSE first
           acc == Accumulator(d.wide)
           t == Write(read, acc, n)
<1>1. In(d) = Ok(t)
  BY DEF In
<1>2. p \in Word16 /\ second \in Word16 /\ Kept(d.s, s) /\ s \in Machines
  BY PortType
<1> HIDE DEF s, p, second
<1>3. Kept(s, first) /\ first \in Machines
  BY <1>2, PortReadKept
<1>4. v \in Int
  BY <1>2, PortValueType, InByte
<1> HIDE DEF first, v
<1>5. Kept(first, both) /\ both \in Machines
  BY <1>2, <1>3, PortReadKept
<1>6. PortValue(first, second) \in Int
  BY <1>3, PortValueType, InByte
<1>7. n \in Int
  BY <1>4, <1>6
<1> HIDE DEF both, n
<1>8. Kept(s, read) /\ read \in Machines
  BY <1>3, <1>5, Chained
<1> HIDE DEF read
<1>9. acc \in Operands
  BY InHand, RegisterType DEF Accumulator
<1> HIDE DEF acc
<1>10. Kept(read, t)
  BY <1>7, <1>8, <1>9, WriteKept
<1> HIDE DEF t
<1>11. Kept(d.s, t)
  BY <1>2, <1>8, <1>10, Chained
<1>12. QED
  BY <1>1, <1>11, SoundKept, Results

LEMMA OutSound ==
  ASSUME NEW d \in Instructions
  PROVE  Sound(d.s, Out(d).s)
<1> DEFINE s == PortNamed(d)
           p == Port(d)
           second == (Port(d) + 1) % W
           lo == Low(s.regs.AX)
           hi == High(s.regs.AX)
           first == PortWritten(s, p, lo)
           both == PortWritten(first, second, hi)
<1>1. Out(d) = Ok(IF d.wide THEN both ELSE first)
  BY DEF Out
<1>2. p \in Word16 /\ second \in Word16 /\ Kept(d.s, s) /\ s \in Machines
  BY PortType
<1> HIDE DEF s, p, second
<1>3. s.regs.AX \in Int
  BY <1>2, MachineParts, Zero
<1>4. lo \in Byte /\ hi \in Byte
  BY <1>3, LowByte, HighByte
<1> HIDE DEF lo, hi
<1>5. Kept(s, first) /\ first \in Machines
  BY <1>2, <1>4, PortWrittenKept
<1> HIDE DEF first
<1>6. Kept(first, both)
  BY <1>2, <1>4, <1>5, PortWrittenKept
<1> HIDE DEF both
<1>7. Kept(d.s, first) /\ Kept(d.s, both)
  BY <1>2, <1>5, <1>6, Chained
<1>8. QED
  BY <1>1, <1>7, SoundKept, Results

----------------------------------------------------------------------------
(***************************************************************************)
(* Every handler of the configuration.                                     *)
(***************************************************************************)
HandlerNames ==
  {"alu_modrm", "alu_acc_imm", "segment_stack", "daa", "inc_dec_reg16", "push_reg16",
   "pop_reg16", "jcc_rel8", "alu_rm_imm", "test_modrm", "xchg_modrm", "mov_modrm",
   "mov_segment", "xchg_accumulator", "cwd", "call_far", "wait", "pushf", "popf", "sahf",
   "lahf", "mov_moffs", "movs", "cmps", "test_acc_imm", "stos", "lods", "scas",
   "mov_r8_imm8", "mov_r16_imm16", "ret_near", "load_far_pointer", "mov_rm_imm", "ret_far",
   "int3", "int_imm8", "into", "iret", "shift", "aam", "aad", "loop_rel8", "in_imm",
   "out_imm", "call_rel16", "jmp_rel16", "jmp_far", "jmp_rel8", "in_dx", "out_dx", "hlt",
   "complement_cf", "group3", "clear_set", "group4", "group5", "lea_modrm", "pop_rm16", "cbw"}

LEMMA HandlersNamed == DOMAIN HandlerRows = HandlerNames
BY DEF HandlerRows, HandlerNames

Statuses == {"ok", "invalid", "halted", "raised"}

\* The handlers that have a lemma of their own, and the others.
Plain(d) ==
  {XchgAccumulator(d), Cwd(d), MovRegImm(d), MovModrm(d), XchgModrm(d), MovSegment(d),
   MovRmImm(d), LoadFarPointer(d), MovMoffs(d), PushReg(d), PopReg(d), SegmentStack(d),
   Pushf(d), Popf(d), Sahf(d), Lahf(d), AluRmImm(d), IncDecReg(d), Group3(d), Group4(d),
   Group5(d), Shift(d), Daa(d), Aam(d), Aad(d), ComplementCarry(d), ClearSet(d), LoopRel8(d),
   CallRel16(d), CallFar(d), JmpFar(d), RetNear(d), RetFar(d), Iret(d), In(d), Out(d), Hlt(d)}

Others(d, r) ==
  \/ \E operation \in OperationNames : r = AluModrm(d, operation) \/ r = AluAccImm(d, operation)
  \/ d.handler \in Strings5 /\ r = String(d)
  \/ d.handler \in {"int3", "int_imm8", "into"} /\ r = SoftwareInterrupt(d)
  \/ \E wide, taken \in BOOLEAN : r = JumpRelative(d, wide, taken)
  \/ \E status \in Statuses : r = Done(d.s, status)

LEMMA HandledBy ==
  ASSUME NEW d \in Instructions
  PROVE  Handled(d) \in Plain(d) \/ Others(d, Handled(d))
<1> DEFINE h == d.handler
           operation == Operations[((d.opcode \div 8) % 8) + 1]
           r == Handled(d)
<1>1. h \in HandlerNames \cup {NoHandler}
  BY HandlersNamed DEF Instructions
<1>2. operation \in OperationNames /\ "and" \in OperationNames
  BY InHand, ModrmFields, OperationOf DEF OperationNames
<1> SUFFICES r \in Plain(d) \/ Others(d, r)
  OBVIOUS
<1>3. Condition(d.s.flags, d.opcode % 16) \in BOOLEAN
  BY DEF Condition
<1>4. CASE h \in {"xchg_accumulator", "cwd", "mov_r8_imm8", "mov_r16_imm16", "mov_modrm",
                  "xchg_modrm", "mov_segment", "mov_rm_imm", "load_far_pointer", "mov_moffs"}
  <2>1. /\ h = "xchg_accumulator" => r = XchgAccumulator(d)
        /\ h = "cwd" => r = Cwd(d)
        /\ h \in {"mov_r8_imm8", "mov_r16_imm16"} => r = MovRegImm(d)
        /\ h = "mov_modrm" => r = MovModrm(d)
        /\ h = "xchg_modrm" => r = XchgModrm(d)
        /\ h = "mov_segment" => r = MovSegment(d)
        /\ h = "mov_rm_imm" => r = MovRmImm(d)
        /\ h = "load_far_pointer" => r = LoadFarPointer(d)
        /\ h = "mov_moffs" => r = MovMoffs(d)
    BY DEF Handled, NoHandler
  <2> HIDE DEF r, h
  <2>2. QED
    BY <1>4, <2>1 DEF Plain
<1>5. CASE h \in {"push_reg16", "pop_reg16", "segment_stack", "pushf", "popf", "sahf", "lahf",
                  "alu_rm_imm", "inc_dec_reg16"}
  <2>1. /\ h = "push_reg16" => r = PushReg(d)
        /\ h = "pop_reg16" => r = PopReg(d)
        /\ h = "segment_stack" => r = SegmentStack(d)
        /\ h = "pushf" => r = Pushf(d)
        /\ h = "popf" => r = Popf(d)
        /\ h = "sahf" => r = Sahf(d)
        /\ h = "lahf" => r = Lahf(d)
        /\ h = "alu_rm_imm" => r = AluRmImm(d)
        /\ h = "inc_dec_reg16" => r = IncDecReg(d)
    BY DEF Handled, NoHandler
  <2> HIDE DEF r, h
  <2>2. QED
    BY <1>5, <2>1 DEF Plain
<1>6. CASE h \in {"group3", "group4", "group5", "shift", "daa", "aam", "aad", "complement_cf",
                  "clear_set"}
  <2>1. /\ h = "group3" => r = Group3(d)
        /\ h = "group4" => r = Group4(d)
        /\ h = "group5" => r = Group5(d)
        /\ h = "shift" => r = Shift(d)
        /\ h = "daa" => r = Daa(d)
        /\ h = "aam" => r = Aam(d)
        /\ h = "aad" => r = Aad(d)
        /\ h = "complement_cf" => r = ComplementCarry(d)
        /\ h = "clear_set" => r = ClearSet(d)
    BY DEF Handled, NoHandler
  <2> HIDE DEF r, h
  <2>2. QED
    BY <1>6, <2>1 DEF Plain
<1>7. CASE h \in {"loop_rel8", "call_rel16", "call_far", "jmp_far", "ret_near", "ret_far",
                  "iret", "in_imm", "in_dx", "out_imm", "out_dx"}
  <2>1. /\ h = "loop_rel8" => r = LoopRel8(d)
        /\ h = "call_rel16" => r = CallRel16(d)
        /\ h = "call_far" => r = CallFar(d)
        /\ h = "jmp_far" => r = JmpFar(d)
        /\ h = "ret_near" => r = RetNear(d)
        /\ h = "ret_far" => r = RetFar(d)
        /\ h = "iret" => r = Iret(d)
        /\ h \in {"in_imm", "in_dx"} => r = In(d)
        /\ h \in {"out_imm", "out_dx"} => r = Out(d)
    BY DEF Handled, NoHandler
  <2> HIDE DEF r, h
  <2>2. QED
    BY <1>7, <2>1 DEF Plain
<1>8. CASE h \in {"hlt"}
  <2>1. /\ h = "hlt" => r = Hlt(d)
    BY DEF Handled, NoHandler
  <2> HIDE DEF r, h
  <2>2. QED
    BY <1>8, <2>1 DEF Plain
<1>9. CASE h \in {"alu_modrm", "test_modrm"}
  <2>1. r = AluModrm(d, operation) \/ r = AluModrm(d, "and")
    BY <1>9 DEF Handled, NoHandler
  <2> HIDE DEF r, operation
  <2>2. QED
    BY <1>1, <1>2, <1>3, <1>9, <2>1 DEF Others
<1>10. CASE h \in {"alu_acc_imm", "test_acc_imm"}
  <2>1. r = AluAccImm(d, operation) \/ r = AluAccImm(d, "and")
    BY <1>10 DEF Handled, NoHandler
  <2> HIDE DEF r, operation
  <2>2. QED
    BY <1>1, <1>2, <1>3, <1>10, <2>1 DEF Others
<1>11. CASE h \in Strings5
  <2>1. r = String(d)
    BY <1>11 DEF Handled, NoHandler, Strings5
  <2> HIDE DEF r, operation
  <2>2. QED
    BY <1>1, <1>2, <1>3, <1>11, <2>1 DEF Others
<1>12. CASE h \in {"int3", "int_imm8", "into"}
  <2>1. r = SoftwareInterrupt(d)
    BY <1>12 DEF Handled, NoHandler
  <2> HIDE DEF r, operation
  <2>2. QED
    BY <1>1, <1>2, <1>3, <1>12, <2>1 DEF Others
<1>13. CASE h = "jmp_rel8"
  <2>1. r = JumpRelative(d, FALSE, TRUE)
    BY <1>13 DEF Handled, NoHandler
  <2> HIDE DEF r, operation
  <2>2. QED
    BY <1>1, <1>2, <1>3, <1>13, <2>1 DEF Others
<1>14. CASE h = "jmp_rel16"
  <2>1. r = JumpRelative(d, TRUE, TRUE)
    BY <1>14 DEF Handled, NoHandler
  <2> HIDE DEF r, operation
  <2>2. QED
    BY <1>1, <1>2, <1>3, <1>14, <2>1 DEF Others
<1>15. CASE h = "jcc_rel8"
  <2>1. r = JumpRelative(d, FALSE, Condition(d.s.flags, d.opcode % 16))
    BY <1>15 DEF Handled, NoHandler
  <2> HIDE DEF r, operation
  <2>2. QED
    BY <1>1, <1>2, <1>3, <1>15, <2>1 DEF Others
<1>16. CASE h \in {"wait", NoHandler, "lea_modrm", "pop_rm16", "cbw"}
  <2>1. r = Done(d.s, "ok") \/ r = Done(d.s, "invalid") \/ r = Done(d.s, "raised")
    BY <1>16 DEF Handled, Ok, Invalid, NoHandler
  <2> HIDE DEF r, operation
  <2>2. QED
    BY <1>1, <1>2, <1>3, <1>16, <2>1 DEF Others, Statuses
<1> HIDE DEF r, h, operation
<1>17. QED
  BY <1>1, <1>4, <1>5, <1>6, <1>7, <1>8, <1>9, <1>10, <1>11, <1>12, <1>13, <1>14, <1>15,
     <1>16 DEF HandlerNames, Strings5

LEMMA HandledSound ==
  ASSUME NEW d \in Instructions
  PROVE  Sound(d.s, Handled(d).s)
<1> DEFINE r == Handled(d)
<1>1. r \in Plain(d) \/ Others(d, r)
  BY HandledBy
<1> HIDE DEF r
<1>2. ASSUME r \in Plain(d)
      PROVE  Sound(d.s, r.s)
  <2>1. /\ Sound(d.s, XchgAccumulator(d).s)
       /\ Sound(d.s, Cwd(d).s)
       /\ Sound(d.s, MovRegImm(d).s)
       /\ Sound(d.s, MovModrm(d).s)
       /\ Sound(d.s, XchgModrm(d).s)
       /\ Sound(d.s, MovSegment(d).s)
       /\ Sound(d.s, MovRmImm(d).s)
       /\ Sound(d.s, LoadFarPointer(d).s)
       /\ Sound(d.s, MovMoffs(d).s)
    BY XchgAccumulatorSound, CwdSound, MovRegImmSound, MovModrmSound, XchgModrmSound,
       MovSegmentSound, MovRmImmSound, LoadFarPointerSound, MovMoffsSound
  <2>2. /\ Sound(d.s, PushReg(d).s)
       /\ Sound(d.s, PopReg(d).s)
       /\ Sound(d.s, SegmentStack(d).s)
       /\ Sound(d.s, Pushf(d).s)
       /\ Sound(d.s, Popf(d).s)
       /\ Sound(d.s, Sahf(d).s)
       /\ Sound(d.s, Lahf(d).s)
       /\ Sound(d.s, AluRmImm(d).s)
       /\ Sound(d.s, IncDecReg(d).s)
    BY PushRegSound, PopRegSound, SegmentStackSound, PushfSound, PopfSound, SahfSound,
       LahfSound, AluRmImmSound, IncDecRegSound
  <2>3. /\ Sound(d.s, Group3(d).s)
       /\ Sound(d.s, Group4(d).s)
       /\ Sound(d.s, Group5(d).s)
       /\ Sound(d.s, Shift(d).s)
       /\ Sound(d.s, Daa(d).s)
       /\ Sound(d.s, Aam(d).s)
       /\ Sound(d.s, Aad(d).s)
       /\ Sound(d.s, ComplementCarry(d).s)
       /\ Sound(d.s, ClearSet(d).s)
    BY Group3Sound, Group4Sound, Group5Sound, ShiftSound, DaaSound, AamSound, AadSound,
       ComplementCarrySound, ClearSetSound
  <2>4. /\ Sound(d.s, LoopRel8(d).s)
       /\ Sound(d.s, CallRel16(d).s)
       /\ Sound(d.s, CallFar(d).s)
       /\ Sound(d.s, JmpFar(d).s)
       /\ Sound(d.s, RetNear(d).s)
       /\ Sound(d.s, RetFar(d).s)
       /\ Sound(d.s, Iret(d).s)
       /\ Sound(d.s, In(d).s)
       /\ Sound(d.s, Out(d).s)
    BY LoopRel8Sound, CallRel16Sound, CallFarSound, JmpFarSound, RetNearSound, RetFarSound,
       IretSound, InSound, OutSound
  <2>5. /\ Sound(d.s, Hlt(d).s)
    BY HltSound
  <2>6. QED
    BY <1>2, <2>1, <2>2, <2>3, <2>4, <2>5 DEF Plain
<1>3. ASSUME Others(d, r)
      PROVE  Sound(d.s, r.s)
  <2>1. d.s \in Machines
    BY InHand
  <2>2. \A operation \in OperationNames :
          Sound(d.s, AluModrm(d, operation).s) /\ Sound(d.s, AluAccImm(d, operation).s)
    BY AluModrmSound, AluAccImmSound
  <2>3. d.handler \in Strings5 => Sound(d.s, String(d).s)
    BY StringSound
  <2>4. d.handler \in {"int3", "int_imm8", "into"} => Sound(d.s, SoftwareInterrupt(d).s)
    BY SoftwareInterruptSound
  <2>5. \A wide, taken \in BOOLEAN : Sound(d.s, JumpRelative(d, wide, taken).s)
    BY <2>1, JumpRelativeKept, SoundKept
  <2>6. Sound(d.s, d.s) /\ \A status : Done(d.s, status).s = d.s
    BY <2>1, Itself, SoundKept DEF Done
  <2>7. QED
    BY <1>3, <2>2, <2>3, <2>4, <2>5, <2>6 DEF Others
<1>4. QED
  BY <1>1, <1>2, <1>3 DEF r

\* What a step answers, besides the machine.
LEMMA Answered == \A s : Ok(s).status \in Statuses /\ Invalid(s).status \in Statuses
                        /\ Ok(s) = Done(s, "ok") /\ Invalid(s) = Done(s, "invalid")
BY DEF Ok, Invalid, Done, Statuses

LEMMA HandledStatus ==
  ASSUME NEW d \in Instructions
  PROVE  Handled(d).status \in Statuses
<1> DEFINE r == Handled(d)
<1>1. r \in Plain(d) \/ Others(d, r)
  BY HandledBy
<1>2. XchgAccumulator(d).status \in Statuses
  BY Answered DEF XchgAccumulator
<1>3. Cwd(d).status \in Statuses
  BY Answered DEF Cwd
<1>4. MovRegImm(d).status \in Statuses
  BY Answered DEF MovRegImm
<1>5. MovModrm(d).status \in Statuses
  BY Answered DEF MovModrm
<1>6. XchgModrm(d).status \in Statuses
  BY Answered DEF XchgModrm
<1>7. MovSegment(d).status \in Statuses
  BY Answered DEF MovSegment
<1>8. MovRmImm(d).status \in Statuses
  BY Answered DEF MovRmImm
<1>9. LoadFarPointer(d).status \in Statuses
  BY Answered DEF LoadFarPointer
<1>10. MovMoffs(d).status \in Statuses
  BY Answered DEF MovMoffs
<1>11. PushReg(d).status \in Statuses
  BY Answered DEF PushReg
<1>12. PopReg(d).status \in Statuses
  BY Answered DEF PopReg
<1>13. SegmentStack(d).status \in Statuses
  BY Answered DEF SegmentStack
<1>14. Pushf(d).status \in Statuses
  BY Answered DEF Pushf
<1>15. Popf(d).status \in Statuses
  BY Answered DEF Popf
<1>16. Sahf(d).status \in Statuses
  BY Answered DEF Sahf
<1>17. Lahf(d).status \in Statuses
  BY Answered DEF Lahf
<1>18. AluRmImm(d).status \in Statuses
  BY Answered DEF AluRmImm
<1>19. IncDecReg(d).status \in Statuses
  BY Answered DEF IncDecReg
<1>20. Group3(d).status \in Statuses
  BY Answered DEF Group3
<1>21. Group4(d).status \in Statuses
  BY Answered DEF Group4
<1>22. Group5(d).status \in Statuses
  BY Answered DEF Group5
<1>23. Shift(d).status \in Statuses
  BY Answered DEF Shift
<1>24. Daa(d).status \in Statuses
  <2>1. \E s : Daa(d) = Ok(s)
    BY Zenon DEF Daa
  <2>2. QED
    BY <2>1, Answered
<1>25. Aam(d).status \in Statuses
  BY Answered DEF Aam
<1>26. Aad(d).status \in Statuses
  BY Answered DEF Aad
<1>27. ComplementCarry(d).status \in Statuses
  BY Answered DEF ComplementCarry
<1>28. ClearSet(d).status \in Statuses
  BY Answered DEF ClearSet
<1>29. LoopRel8(d).status \in Statuses
  BY Answered DEF LoopRel8, JumpRelative
<1>30. CallRel16(d).status \in Statuses
  BY Answered DEF CallRel16
<1>31. CallFar(d).status \in Statuses
  BY Answered DEF CallFar
<1>32. JmpFar(d).status \in Statuses
  BY Answered DEF JmpFar
<1>33. RetNear(d).status \in Statuses
  BY Answered DEF RetNear
<1>34. RetFar(d).status \in Statuses
  BY Answered DEF RetFar
<1>35. Iret(d).status \in Statuses
  BY Answered DEF Iret
<1>36. In(d).status \in Statuses
  BY Answered DEF In
<1>37. Out(d).status \in Statuses
  BY Answered DEF Out
<1>38. Hlt(d).status \in Statuses
  BY DEF Hlt, Done, Statuses
<1> HIDE DEF r
<1>39. r \in Plain(d) => r.status \in Statuses
  BY <1>2, <1>3, <1>4, <1>5, <1>6, <1>7, <1>8, <1>9, <1>10, <1>11, <1>12, <1>13, <1>14,
     <1>15, <1>16, <1>17, <1>18, <1>19, <1>20, <1>21, <1>22, <1>23, <1>24, <1>25, <1>26,
     <1>27, <1>28, <1>29, <1>30, <1>31, <1>32, <1>33, <1>34, <1>35, <1>36, <1>37, <1>38 DEF Plain
<1>40. Others(d, r) => r.status \in Statuses
  <2>1. \A operation : /\ AluModrm(d, operation).status \in Statuses
                       /\ AluAccImm(d, operation).status \in Statuses
    BY Answered DEF AluModrm, AluAccImm
  <2>2. String(d).status \in Statuses
    BY Answered DEF String
  <2>3. d.handler \in {"int3", "int_imm8", "into"} => SoftwareInterrupt(d).status \in Statuses
    BY Answered DEF SoftwareInterrupt
  <2>4. \A wide, taken : JumpRelative(d, wide, taken).status \in Statuses
    BY Answered DEF JumpRelative
  <2>5. \A status \in Statuses : Done(d.s, status).status \in Statuses
    BY DEF Done
  <2>6. QED
    BY <2>1, <2>2, <2>3, <2>4, <2>5 DEF Others
<1>41. QED
  BY <1>1, <1>39, <1>40 DEF r

----------------------------------------------------------------------------
(***************************************************************************)
(* Prefixes: an opcode comes after them, and of each kind the last counts. *)
(***************************************************************************)
LEMMA Counted ==
  ASSUME NEW s, PrefixesEnd(s)
  PROVE  PrefixCount(s) \in Int
<1> DEFINE T == {n \in 0 .. W - 1 : CodeAt(s, n) \notin Prefixes}
           P(n) == CodeAt(s, n) \notin Prefixes /\ \A m \in 0 .. n - 1 : CodeAt(s, m) \in Prefixes
<1>1. W - 1 \in Int
  BY Sizes
<1>2. T # {} /\ T \in SUBSET Nat
  BY <1>1 DEF PrefixesEnd
<1>3. PICK n \in T : \A i \in T : n <= i
  <2> HIDE DEF T
  <2>1. QED
    BY <1>2, Least
<1>4. n \in 0 .. W - 1 /\ P(n)
  <2>1. n \in 0 .. W - 1 /\ CodeAt(s, n) \notin Prefixes
    OBVIOUS
  <2>2. ASSUME NEW m \in 0 .. n - 1
        PROVE  CodeAt(s, m) \in Prefixes
    <3>1. m \in 0 .. W - 1 /\ m < n
      BY <1>1, <2>1
    <3>2. m \notin T
      <4> HIDE DEF T
      <4>1. QED
        BY <1>1, <1>3, <2>1, <3>1
    <3>3. QED
      BY <3>1, <3>2
  <2>3. QED
    BY <2>1, <2>2
<1>5. PrefixCount(s) = CHOOSE k \in 0 .. W - 1 : P(k)
  BY DEF PrefixCount
<1> HIDE DEF P, T
<1>6. PrefixCount(s) \in 0 .. W - 1
  BY <1>4, <1>5
<1>7. QED
  BY <1>1, <1>6

LEMMA LastOf ==
  ASSUME NEW s, NEW n \in Int, NEW these
  PROVE  LastPrefix(s, n, these) = 0 \/ LastPrefix(s, n, these) \in these
<1> DEFINE spot == {k \in 0 .. n - 1 : CodeAt(s, k) \in these}
           last == CHOOSE k \in spot : \A j \in spot : j <= k
           T == {n - 1 - k : k \in spot}
<1>1. LastPrefix(s, n, these) = IF spot = {} THEN 0 ELSE CodeAt(s, last)
  BY DEF LastPrefix
<1>2. ASSUME spot # {}
      PROVE  CodeAt(s, last) \in these
  <2>1. T # {} /\ T \in SUBSET Nat
    BY <1>2
  <2>2. PICK i \in T : \A j \in T : i <= j
    <3> HIDE DEF T
    <3>1. QED
      BY <2>1, Least
  <2>3. PICK k \in spot : i = n - 1 - k
    OBVIOUS
  <2>4. \A j \in spot : j <= k
    <3> TAKE j \in spot
    <3>1. n - 1 - j \in T /\ j \in Int /\ k \in Int
      OBVIOUS
    <3>2. n - 1 - k <= n - 1 - j
      <4> HIDE DEF T
      <4>1. QED
        BY <2>2, <2>3, <3>1
    <3>3. QED
      BY <3>1, <3>2
  <2> HIDE DEF spot
  <2>5. last \in spot
    BY <2>3, <2>4
  <2> HIDE DEF last
  <2>6. QED
    BY <2>5 DEF spot
<1> HIDE DEF spot, last
<1>3. QED
  BY <1>1, <1>2

LEMMA SegmentNamed ==
  ASSUME NEW prefix \in DOMAIN SegmentPrefix
  PROVE  SegmentPrefix[prefix] \in Overrides
<1>1. prefix \in {\h26, \h2E, \h36, \h3E}
  BY DEF SegmentPrefix
<1>2. SegmentPrefix[prefix] = Segments[((prefix \div 8) % 4) + 1]
  BY <1>1 DEF SegmentPrefix
<1>3. (prefix \div 8) % 4 \in 0 .. 3
  BY <1>1
<1>4. QED
  BY <1>2, <1>3, Names DEF Overrides

LEMMA FetchedType ==
  ASSUME NEW s \in Machines, PrefixesEnd(s)
  PROVE  LET d == Fetched(s)
         IN  /\ d \in Instructions
             /\ Kept(s, d.s) /\ d.s.flags = s.flags /\ d.s.mem = s.mem
             /\ \A r \in RegisterNames \ {"IP"} : d.s.regs[r] = s.regs[r]
<1> DEFINE n == PrefixCount(s)
           segment == LastPrefix(s, n, DOMAIN SegmentPrefix)
           opcode == CodeAt(s, n)
           next == Consumed(s, n + 1)
           override == IF segment = 0 THEN "" ELSE SegmentPrefix[segment]
           repeat == LastPrefix(s, n, RepeatPrefixes)
           handler == HandlerOf[opcode]
           wide == opcode % 2 = 1
           d == [s |-> next, opcode |-> opcode, handler |-> handler, override |-> override,
                 repeat |-> repeat, wide |-> wide]
<1>1. Fetched(s) = d
  BY DEF Fetched
<1>2. n \in Int
  BY Counted
<1>3. n + 1 \in Int
  BY <1>2
<1>4. opcode \in Byte
  BY CodeByte
<1>5. /\ Kept(s, next) /\ next \in Machines /\ next.flags = s.flags /\ next.mem = s.mem
      /\ \A r \in RegisterNames \ {"IP"} : next.regs[r] = s.regs[r]
  BY <1>3, IpKept, KeptType
<1>6. segment = 0 \/ segment \in DOMAIN SegmentPrefix
  BY <1>2, LastOf
<1>7. repeat = 0 \/ repeat \in RepeatPrefixes
  BY <1>2, LastOf
<1> HIDE DEF n, next, segment, repeat
<1>8. override \in Overrides
  BY <1>6, SegmentNamed DEF Overrides
<1>9. repeat \in Byte
  BY <1>7, InByte DEF RepeatPrefixes
<1>10. handler \in DOMAIN HandlerRows \cup {NoHandler}
  <2> HIDE DEF opcode
  <2> DEFINE rows == {h \in DOMAIN HandlerRows : opcode \in HandlerRows[h]}
  <2>1. handler = IF rows = {} THEN NoHandler ELSE CHOOSE h \in rows : TRUE
    BY <1>4 DEF HandlerOf
  <2>2. rows # {} => (CHOOSE h \in rows : TRUE) \in rows
    OBVIOUS
  <2>3. QED
    BY <2>1, <2>2
<1>11. wide \in BOOLEAN
  OBVIOUS
<1> HIDE DEF opcode, handler, override, wide
<1>12. d \in Instructions /\ d.s = next
  BY <1>4, <1>5, <1>8, <1>9, <1>10, <1>11 DEF Instructions
<1>13. QED
  BY <1>1, <1>5, <1>12

----------------------------------------------------------------------------
(***************************************************************************)
(* The way back: what IRET makes of a frame.                               *)
(***************************************************************************)
RecordOf(regs, flags) ==
  [r \in RegisterNames \cup {"FLAGS"} |-> IF r = "FLAGS" THEN flags ELSE regs[r]]

LEMMA RecordedAs ==
  /\ \A s : Recorded(s) = RecordOf(s.regs, s.flags)
  /\ \A s : \A r \in RegisterNames : Recorded(s)[r] = s.regs[r]
  /\ \A s : Recorded(s)["FLAGS"] = s.flags
<1>1. "FLAGS" \notin RegisterNames
  BY Names
<1>2. QED
  BY <1>1 DEF Recorded, RecordOf

LEMMA Restored ==
  ASSUME NEW d, d.s \in Machines, NEW t, NEW regs, NEW flags, Framed(regs, flags, t),
         d.s.mem = t.mem, \A r \in RegisterNames \ {"IP"} : d.s.regs[r] = t.regs[r]
  PROVE  \E ip \in t.return :
           Recorded(Iret(d).s) = [RecordOf(regs, flags) EXCEPT !["IP"] = ip]
<1> DEFINE s == d.s
           sp == t.regs.SP
           word(spot) == WordAt(t.mem, t.regs.SS, spot)
           p == Popped(s)
           f == Far(p, Top(s), Top(p))
           j == Popped(f)
           k == Popped(j)
           x == [k EXCEPT !.flags = FlagsFrom(Top(j))]
<1>1. {"SS", "SP", "CS", "IP"} \subseteq RegisterNames
  BY Names
<1>2. PICK ip \in Word16 :
        /\ t.return = {ip} /\ word(sp) = ip /\ word(Above(sp)) = regs["CS"]
        /\ FlagsFrom(word(Above(Above(sp)))) = flags
        /\ Above(Above(Above(sp))) = regs["SP"]
        /\ \A r \in RegisterNames \ {"SP", "IP", "CS"} : t.regs[r] = regs[r]
  BY DEF Framed
<1>3. /\ s \in Machines /\ s.regs.SP = sp /\ s.regs.SS = t.regs.SS /\ s.mem = t.mem
  BY <1>1
<1>4. Top(s) = word(sp)
  BY <1>3 DEF Top, WordAt
<1>5. p \in Machines /\ p.mem = t.mem /\ p.regs = [s.regs EXCEPT !["SP"] = Above(sp)]
      /\ Above(sp) \in Word16 /\ Top(s) \in Word16
  BY <1>3, PoppedKept DEF Above
<1> HIDE DEF p, sp
<1>6. /\ p.regs.SP = Above(sp)
      /\ \A r \in RegisterNames \ {"SP"} : p.regs[r] = s.regs[r]
  BY <1>1, <1>3, <1>5, MachineParts, OneRegister
<1>7. p.regs.SS = t.regs.SS
  BY <1>1, <1>3, <1>6
<1>8. Top(p) = word(Above(sp))
  BY <1>5, <1>6, <1>7 DEF Top, WordAt
<1>9. Top(p) \in Word16
  BY <1>5, PoppedKept
<1>10. /\ f \in Machines /\ f.mem = t.mem /\ f.regs.IP = Top(s) /\ f.regs.CS = Top(p)
       /\ \A r \in RegisterNames \ {"IP", "CS"} : f.regs[r] = p.regs[r]
  <2> DEFINE ip0 == Top(s)
             cs0 == Top(p)
  <2>1. ip0 \in Word16 /\ cs0 \in Word16 /\ p \in Machines /\ p.mem = t.mem
    BY <1>5, <1>9
  <2> HIDE DEF ip0, cs0
  <2>2. Far(p, ip0, cs0) \in Machines /\ Far(p, ip0, cs0).mem = p.mem
    BY <2>1, FarKept
  <2>3. Far(p, ip0, cs0).regs.IP = ip0 /\ Far(p, ip0, cs0).regs.CS = cs0
    <3> DEFINE y == [p.regs EXCEPT !["IP"] = ip0]
               z == [y EXCEPT !["CS"] = cs0]
    <3>1. p.regs \in Registers
      BY <2>1, MachineParts
    <3>2. y \in Registers /\ y["IP"] = ip0
      BY <1>1, <2>1, <3>1, OneRegister
    <3> HIDE DEF y
    <3>3. z["CS"] = cs0 /\ z["IP"] = ip0
      <4>1. DOMAIN y = RegisterNames
        BY <3>2 DEF Registers
      <4>2. QED
        BY <1>1, <3>2, <4>1
    <3> HIDE DEF z
    <3>4. Far(p, ip0, cs0).regs = z
      BY <2>1 DEF Far, Machines, y, z
    <3>5. QED
      BY <3>3, <3>4
  <2>4. \A r \in RegisterNames \ {"IP", "CS"} : Far(p, ip0, cs0).regs[r] = p.regs[r]
    BY <2>1, FarKept
  <2>5. QED
    BY <2>1, <2>2, <2>3, <2>4 DEF ip0, cs0
<1> HIDE DEF f
<1>11. f.regs.SP = Above(sp) /\ f.regs.SS = t.regs.SS
  BY <1>1, <1>6, <1>7, <1>10
<1>12. j \in Machines /\ j.mem = t.mem /\ j.regs = [f.regs EXCEPT !["SP"] = Above(Above(sp))]
       /\ Above(Above(sp)) \in Word16
  BY <1>10, <1>11, PoppedKept DEF Above
<1> HIDE DEF j
<1>13. /\ j.regs.SP = Above(Above(sp))
       /\ \A r \in RegisterNames \ {"SP"} : j.regs[r] = f.regs[r]
  BY <1>1, <1>10, <1>12, MachineParts, OneRegister
<1>14. j.regs.SS = t.regs.SS
  BY <1>1, <1>11, <1>13
<1>15. Top(j) = word(Above(Above(sp)))
  BY <1>12, <1>13, <1>14 DEF Top, WordAt
<1>16. k \in Machines /\ k.regs = [j.regs EXCEPT !["SP"] = Above(Above(Above(sp)))]
       /\ Above(Above(Above(sp))) \in Word16
  BY <1>12, <1>13, PoppedKept DEF Above
<1> HIDE DEF k
<1>17. /\ k.regs.SP = Above(Above(Above(sp)))
       /\ \A r \in RegisterNames \ {"SP"} : k.regs[r] = j.regs[r]
  <2>1. j.regs \in Registers
    BY <1>12, MachineParts
  <2>2. QED
    BY <1>1, <1>16, <2>1, OneRegister
<1>18. Iret(d).s = x
  BY DEF Iret, FarPopped, Ok, Done, k, j, f, p
<1>19. x.regs = k.regs /\ x.flags = FlagsFrom(Top(j))
  BY <1>16, FlagsTaken, FlagsKept
<1> HIDE DEF x
<1>20. x.flags = flags
  BY <1>2, <1>15, <1>19
<1>21. x.regs["IP"] = ip /\ x.regs["CS"] = regs["CS"] /\ x.regs["SP"] = regs["SP"]
  BY <1>1, <1>2, <1>4, <1>8, <1>10, <1>13, <1>17, <1>19
<1>22. \A r \in RegisterNames \ {"IP", "CS", "SP"} : x.regs[r] = regs[r]
  BY <1>2, <1>6, <1>10, <1>13, <1>17, <1>19
<1>23. "FLAGS" \notin RegisterNames
  BY Names
<1>24. RecordOf(x.regs, x.flags) = [RecordOf(regs, flags) EXCEPT !["IP"] = ip]
  BY <1>1, <1>20, <1>21, <1>22, <1>23 DEF RecordOf
<1>25. QED
  BY <1>2, <1>18, <1>24, RecordedAs

----------------------------------------------------------------------------
(***************************************************************************)
(* A step, whichever it is, and the entry of the trace that it leaves.     *)
(***************************************************************************)
Records == {Recorded(s) : s \in Machines}
Mnemonics == DOMAIN HandlerRows \cup {NoHandler, "IRQ", "NMI", "HLT", "INVALID"}
Rows ==
  [cs : Word16, ip : Word16, physical : Addresses, opcode : Byte \cup {NoOpcode},
   mnemonic : Mnemonics, status : Statuses, io : Seq(EventRows), return : SUBSET Word16,
   after : Records]

LEMMA RecordAgain ==
  /\ \A s \in Machines : Recorded(s) \in Records
  /\ \A x \in Records : RecordOf(x, x["FLAGS"]) = x
<1>1. \A s \in Machines : Recorded(s) \in Records
  BY DEF Records
<1>2. ASSUME NEW x \in Records
      PROVE  RecordOf(x, x["FLAGS"]) = x
  <2>1. PICK s : x = Recorded(s)
    BY DEF Records
  <2>2. QED
    BY <2>1 DEF Recorded, RecordOf
<1>3. QED
  BY <1>1, <1>2

Says(s, t, e) ==
  /\ t \in Machines
  /\ t.regs["SS"] = s.regs["SS"] \/ t.shadow = 1
  /\ t.return = {} \/ Framed(s.regs, s.flags, t)
  /\ e \in Rows
  /\ e.after = Recorded(t) /\ e.return = t.return
  /\ e.mnemonic = "IRQ" => s.shadow = 0
  /\ e.mnemonic = "iret" =>
       \A regs, flags :
         Framed(regs, flags, s) =>
           \E ip \in s.return : e.after = [RecordOf(regs, flags) EXCEPT !["IP"] = ip]

LEMMA TracedType ==
  ASSUME NEW s \in Machines, NEW opcode \in Byte \cup {NoOpcode},
         NEW handler \in Mnemonics, NEW d, d.opcode = opcode, d.handler = handler,
         NEW r, r.s \in Machines, r.status \in Statuses
  PROVE  /\ Traced(s, d, r) \in Rows
         /\ Traced(s, d, r).after = Recorded(r.s) /\ Traced(s, d, r).return = r.s.return
         /\ Traced(s, d, r).mnemonic = IF r.status = "invalid" THEN "INVALID" ELSE handler
<1>1. /\ s.regs.IP \in Word16 /\ s.regs.CS \in Word16 /\ s.regs.IP \in Int /\ s.regs.CS \in Int
      /\ r.s.regs.CS \in Word16 /\ r.s.io \in Seq(EventRows) /\ r.s.return \in SUBSET Word16
  BY MachineParts, Zero
<1>2. Physical(s.regs.CS, s.regs.IP) \in Addresses
  BY <1>1, PhysicalAddress
<1>3. Recorded(r.s) \in Records
  BY RecordAgain
<1>4. (IF r.status = "invalid" THEN "INVALID" ELSE handler) \in Mnemonics
  BY DEF Mnemonics
<1>5. QED
  BY <1>1, <1>2, <1>3, <1>4 DEF Traced, Rows

LEMMA ToldType ==
  ASSUME NEW s \in Machines, NEW mnemonic \in {"IRQ", "NMI", "HLT"}, NEW t \in Machines,
         NEW status \in {"ok", "halted"}
  PROVE  /\ Told(s, mnemonic, t, status) \in Rows
         /\ Told(s, mnemonic, t, status).after = Recorded(t)
         /\ Told(s, mnemonic, t, status).return = t.return
         /\ Told(s, mnemonic, t, status).mnemonic = mnemonic
<1> DEFINE d == [opcode |-> NoOpcode, handler |-> mnemonic]
           r == Done(t, status)
<1>1. Told(s, mnemonic, t, status) = Traced(s, d, r)
  BY DEF Told
<1>2. r.s = t /\ r.status = status /\ d.opcode = NoOpcode /\ d.handler = mnemonic
  BY DEF Done
<1>3. NoOpcode \in Byte \cup {NoOpcode} /\ mnemonic \in Mnemonics
  BY DEF Mnemonics
<1>4. status \in Statuses /\ status # "invalid"
  BY DEF Statuses
<1> HIDE DEF d, r
<1>5. /\ Traced(s, d, r) \in Rows /\ Traced(s, d, r).after = Recorded(r.s)
      /\ Traced(s, d, r).return = r.s.return
      /\ Traced(s, d, r).mnemonic = IF r.status = "invalid" THEN "INVALID" ELSE mnemonic
  BY <1>2, <1>3, <1>4, TracedType
<1>6. QED
  BY <1>1, <1>2, <1>4, <1>5

LEMMA BegunType ==
  ASSUME cpu \in Machines
  PROVE  /\ Began \in Machines /\ Unshadowed(Began) \in Machines
         /\ [Began EXCEPT !.halted = FALSE] \in Machines
         /\ Unshadowed(Began).regs = cpu.regs /\ Unshadowed(Began).flags = cpu.flags
         /\ Unshadowed(Began).mem = cpu.mem /\ Unshadowed(Began).return = {}
         /\ [Began EXCEPT !.halted = FALSE].regs = cpu.regs
         /\ [Began EXCEPT !.halted = FALSE].flags = cpu.flags
<1>1. <<>> \in Seq(EventRows)
  OBVIOUS
<1>2. /\ Began \in Machines /\ Began.regs = cpu.regs /\ Began.flags = cpu.flags
      /\ Began.mem = cpu.mem /\ Began.return = {}
  BY <1>1 DEF Began, Machines
<1> DEFINE b == Began
<1> HIDE DEF b
<1>3. b \in Machines /\ b.regs = cpu.regs /\ b.flags = cpu.flags /\ b.mem = cpu.mem /\ b.return = {}
  BY <1>2 DEF b
<1>4. /\ [b EXCEPT !.halted = FALSE] \in Machines
      /\ [b EXCEPT !.halted = FALSE].regs = b.regs /\ [b EXCEPT !.halted = FALSE].flags = b.flags
  BY <1>3 DEF Machines
<1> DEFINE n == IF b.shadow > 0 THEN b.shadow - 1 ELSE 0
<1>5. n \in {0, 1}
  BY <1>3 DEF Machines
<1>6. Unshadowed(b) = [b EXCEPT !.shadow = n]
  BY DEF Unshadowed
<1> HIDE DEF n
<1>7. /\ [b EXCEPT !.shadow = n] \in Machines
      /\ [b EXCEPT !.shadow = n].regs = b.regs /\ [b EXCEPT !.shadow = n].flags = b.flags
      /\ [b EXCEPT !.shadow = n].mem = b.mem /\ [b EXCEPT !.shadow = n].return = b.return
  BY <1>3, <1>5 DEF Machines
<1>8. QED
  BY <1>3, <1>4, <1>6, <1>7 DEF b

LEMMA InterruptSays ==
  ASSUME cpu \in Machines, NEW number, NEW mnemonic \in {"IRQ", "NMI"},
         mnemonic = "IRQ" => cpu.shadow = 0
  PROVE  LET t == Interrupt([Began EXCEPT !.halted = FALSE], number)
         IN  Says(cpu, t, Told(cpu, mnemonic, t, "ok"))
<1> DEFINE b == [Began EXCEPT !.halted = FALSE]
           t == Interrupt(b, number)
           e == Told(cpu, mnemonic, t, "ok")
<1> SUFFICES Says(cpu, t, e)
  OBVIOUS
<1>1. b \in Machines /\ b.regs = cpu.regs /\ b.flags = cpu.flags
  BY BegunType
<1> HIDE DEF b
<1>2. t \in Machines /\ Framed(cpu.regs, cpu.flags, t)
  <2>1. t \in Machines /\ Framed(b.regs, b.flags, t)
    BY <1>1, Interrupted
  <2>2. QED
    BY <1>1, <2>1
<1> HIDE DEF t
<1>3. "SS" \in RegisterNames \ {"SP", "IP", "CS"}
  BY Names
<1>4. t.regs["SS"] = cpu.regs["SS"]
  BY <1>2, <1>3 DEF Framed
<1>5. e \in Rows /\ e.after = Recorded(t) /\ e.return = t.return /\ e.mnemonic = mnemonic
  BY <1>2, ToldType
<1> HIDE DEF e
<1>6. QED
  BY <1>2, <1>4, <1>5 DEF Says

LEMMA IdleSays ==
  ASSUME cpu \in Machines
  PROVE  Says(cpu, Unshadowed(Began), Told(cpu, "HLT", Unshadowed(Began), "halted"))
<1> DEFINE t == Unshadowed(Began)
           e == Told(cpu, "HLT", t, "halted")
<1> SUFFICES Says(cpu, t, e)
  OBVIOUS
<1>1. t \in Machines /\ t.regs = cpu.regs /\ t.return = {}
  BY BegunType
<1> HIDE DEF t
<1>2. e \in Rows /\ e.after = Recorded(t) /\ e.return = t.return /\ e.mnemonic = "HLT"
  BY <1>1, ToldType
<1> HIDE DEF e
<1>3. QED
  BY <1>1, <1>2 DEF Says

LEMMA ExecuteSays ==
  ASSUME cpu \in Machines, PrefixesEnd(Unshadowed(Began))
  PROVE  LET d == Fetched(Unshadowed(Began))
         IN  Says(cpu, Handled(d).s, Traced(cpu, d, Handled(d)))
<1> DEFINE s == Unshadowed(Began)
           d == Fetched(s)
           r == Handled(d)
           e == Traced(cpu, d, r)
<1> SUFFICES Says(cpu, r.s, e)
  OBVIOUS
<1>1. s \in Machines /\ s.regs = cpu.regs /\ s.flags = cpu.flags /\ s.mem = cpu.mem /\ s.return = {}
  BY BegunType
<1>3. PrefixesEnd(s)
  OBVIOUS
<1> HIDE DEF s
<1>2. /\ d \in Instructions /\ Kept(s, d.s) /\ d.s.flags = s.flags /\ d.s.mem = s.mem
      /\ \A x \in RegisterNames \ {"IP"} : d.s.regs[x] = s.regs[x]
  BY <1>1, <1>3, FetchedType
<1> HIDE DEF d
<1>4. Sound(d.s, r.s) /\ r.status \in Statuses
  BY <1>2, HandledSound, HandledStatus
<1>5. d.handler = "iret" => r = Iret(d)
  BY DEF Handled, NoHandler
<1> HIDE DEF r
<1>6. Sound(s, r.s)
  BY <1>2, <1>4, SoundAgain
<1>7. /\ r.s \in Machines
      /\ r.s.regs["SS"] = cpu.regs["SS"] \/ r.s.shadow = 1
      /\ r.s.return = {} \/ Framed(cpu.regs, cpu.flags, r.s)
  BY <1>1, <1>6 DEF Sound
<1>8. d.opcode \in Byte \cup {NoOpcode} /\ d.handler \in Mnemonics
  BY <1>2 DEF Instructions, Mnemonics
<1>9. /\ e \in Rows /\ e.after = Recorded(r.s) /\ e.return = r.s.return
      /\ e.mnemonic = IF r.status = "invalid" THEN "INVALID" ELSE d.handler
  BY <1>4, <1>7, <1>8, TracedType
<1> HIDE DEF e
<1>10. d.handler # "IRQ"
  BY <1>2, HandlersNamed DEF Instructions, HandlerNames, NoHandler
<1>11. ASSUME e.mnemonic = "iret", NEW regs, NEW flags, Framed(regs, flags, cpu)
       PROVE  \E ip \in cpu.return : e.after = [RecordOf(regs, flags) EXCEPT !["IP"] = ip]
  <2>1. r = Iret(d)
    BY <1>5, <1>9, <1>11
  <2>2. d.s \in Machines /\ d.s.mem = cpu.mem
    BY <1>1, <1>2, KeptType
  <2>3. \A x \in RegisterNames \ {"IP"} : d.s.regs[x] = cpu.regs[x]
    BY <1>1, <1>2
  <2>4. \E ip \in cpu.return :
          Recorded(Iret(d).s) = [RecordOf(regs, flags) EXCEPT !["IP"] = ip]
    BY <1>11, <2>2, <2>3, Restored
  <2>5. QED
    BY <1>9, <2>1, <2>4
<1>12. QED
  BY <1>7, <1>9, <1>10, <1>11 DEF Says

LEMMA StepSays ==
  ASSUME cpu \in Machines, Step
  PROVE  \E e : trace' = <<e>> /\ Says(cpu, cpu', e)
<1>1. CASE NonMaskable
  <2> DEFINE b == [Began EXCEPT !.halted = FALSE]
             e == Told(cpu, "NMI", Interrupt(b, 2), "ok")
  <2>1. cpu' = Interrupt(b, 2) /\ trace' = <<e>>
    BY <1>1 DEF NonMaskable
  <2>2. Says(cpu, Interrupt(b, 2), e)
    BY InterruptSays
  <2> HIDE DEF b, e
  <2>3. QED
    BY <2>1, <2>2
<1>2. CASE Maskable
  <2>1. PICK number : cpu' = Interrupt([Began EXCEPT !.halted = FALSE], number)
    BY <1>2 DEF Maskable
  <2> DEFINE b == [Began EXCEPT !.halted = FALSE]
             e == Told(cpu, "IRQ", Interrupt(b, number), "ok")
  <2>2. cpu.shadow = 0
    BY <1>2 DEF Maskable, Interruptible
  <2>3. cpu' = Interrupt(b, number) /\ trace' = <<e>>
    BY <1>2, <2>1 DEF Maskable
  <2>4. Says(cpu, Interrupt(b, number), e)
    BY <2>2, InterruptSays
  <2> HIDE DEF b, e
  <2>5. QED
    BY <2>3, <2>4
<1>3. CASE Idle
  <2> DEFINE b == Unshadowed(Began)
             e == Told(cpu, "HLT", b, "halted")
  <2>1. cpu' = b /\ trace' = <<e>>
    BY <1>3 DEF Idle
  <2>2. Says(cpu, b, e)
    BY IdleSays
  <2> HIDE DEF b, e
  <2>3. QED
    BY <2>1, <2>2
<1>4. CASE Execute
  <2> DEFINE d == Fetched(Unshadowed(Began))
             r == Handled(d)
             e == Traced(cpu, d, r)
  <2>1. cpu' = r.s /\ trace' = <<e>> /\ PrefixesEnd(Unshadowed(Began))
    BY <1>4 DEF Execute, Completed
  <2>2. Says(cpu, r.s, e)
    BY <2>1, ExecuteSays
  <2> HIDE DEF d, r, e
  <2>3. QED
    BY <2>1, <2>2
<1>5. QED
  BY <1>1, <1>2, <1>3, <1>4 DEF Step

----------------------------------------------------------------------------
(***************************************************************************)
(* What a vector loads.                                                    *)
(***************************************************************************)
LEMMA LoadedType ==
  ASSUME NEW v \in Vectors
  PROVE  Loaded(v) \in Machines
<1> DEFINE regs == [r \in RegisterNames |-> Get(v.regs, r, 0)]
           n == Physical(regs.CS, regs.IP)
           program == Bytes(n, v.program)
           mem == [a \in DOMAIN program \cup DOMAIN v.memory |->
                     Get(v.memory, a, Get(program, a, 0))]
<1>1. /\ \A r \in DOMAIN v.regs : v.regs[r] \in Word16
      /\ v.flags \subseteq 0 .. 11 /\ RESERVED \in v.flags
      /\ v.program \in Seq(Byte)
      /\ \A a \in DOMAIN v.memory : v.memory[a] \in Byte
      /\ v.ports \in [DOMAIN v.ports -> Byte] /\ DOMAIN v.ports \subseteq Word16
  BY VectorsAssumption
<1>2. DOMAIN v.memory \subseteq Addresses
  BY VectorsAssumption DEF Addresses
<1>3. regs \in Registers
  BY <1>1, Zero DEF Get, Registers
<1>4. {"CS", "IP"} \subseteq RegisterNames
  BY Names
<1> HIDE DEF regs
<1>5. regs.CS \in Int /\ regs.IP \in Int
  BY <1>3, <1>4, Zero DEF Registers
<1>6. n \in Addresses
  BY <1>5, PhysicalAddress
<1> HIDE DEF n
<1>n. n \in Int
  BY <1>6, InAddresses
<1>7. program \in Memories
  <2> DEFINE S == {(n + i - 1) % Megabyte : i \in 1 .. Len(v.program)}
             which(spot) == CHOOSE i \in 1 .. Len(v.program) : (n + i - 1) % Megabyte = spot
  <2>1. program = [spot \in S |-> v.program[which(spot)]]
    BY DEF Bytes
  <2>2. S \subseteq Addresses
    <3>1. \A i \in 1 .. Len(v.program) : n + i - 1 \in Int
      BY <1>n
    <3>2. \A k \in Int : k % Megabyte \in Addresses
      BY Modulo, InAddresses, Sizes
    <3>3. QED
      BY <3>1, <3>2
  <2>3. ASSUME NEW spot \in S
        PROVE  v.program[which(spot)] \in Byte
    <3>1. \E i \in 1 .. Len(v.program) : (n + i - 1) % Megabyte = spot
      OBVIOUS
    <3>2. which(spot) \in 1 .. Len(v.program)
      BY <3>1
    <3> HIDE DEF which
    <3>3. QED
      BY <1>1, <3>2
  <2> HIDE DEF S, which
  <2>4. [spot \in S |-> v.program[which(spot)]] \in [S -> Byte]
    BY <2>3
  <2>5. QED
    BY <2>1, <2>2, <2>4 DEF Memories
<1> HIDE DEF program
<1>8. mem \in Memories
  <2>1. DOMAIN program \subseteq Addresses
    BY <1>7 DEF Memories
  <2>2. \A a : Get(program, a, 0) \in Byte
    BY <1>7, MemoryRead
  <2>3. \A a : Get(v.memory, a, Get(program, a, 0)) \in Byte
    BY <1>1, <2>2 DEF Get
  <2> DEFINE D == DOMAIN program \cup DOMAIN v.memory
  <2>4. mem \in [D -> Byte]
    BY <2>3
  <2>5. D \in SUBSET Addresses
    BY <1>2, <2>1
  <2> HIDE DEF mem, D
  <2>6. QED
    BY <2>4, <2>5 DEF Memories
<1>9. Loaded(v) = Machine(regs, v.flags, mem, v.ports)
  BY DEF Loaded, regs, program, n
<1> HIDE DEF mem
<1>10. v.ports \in PortMaps /\ v.flags \in FlagSets
  BY <1>1 DEF PortMaps, FlagSets
<1>11. <<>> \in Seq(EventRows)
  OBVIOUS
<1>12. QED
  BY <1>3, <1>8, <1>9, <1>10, <1>11, Zero DEF Machine, Machines, Registers

----------------------------------------------------------------------------
(***************************************************************************)
(* The invariant speaks of the last entry of the trace alone: what it says *)
(* of the machine as it now is.  What it says of two entries that follow   *)
(* each other is what is to be shown.                                      *)
(***************************************************************************)
Linked(before, e, s) ==
  /\ e.after["SS"] # before["SS"] => s.shadow = 1
  /\ e.return # {} => e.return = s.return /\ Framed(before, before["FLAGS"], s)

\* Earlier, StackLoadedWhole and FramesReturn, of a vector v and a trace x.
Before(v, x, k) == IF k = 1 THEN Recorded(Loaded(v)) ELSE x[k - 1].after
LoadedWhole(v, x) ==
  \A k \in 1 .. Len(x) - 1 :
    x[k].after["SS"] # Before(v, x, k)["SS"] => x[k + 1].mnemonic # "IRQ"
GivenBack(v, x) ==
  \A k \in 1 .. Len(x) - 1 :
    x[k].return # {} /\ x[k + 1].mnemonic = "iret" =>
      \E ip \in x[k].return : x[k + 1].after = [Before(v, x, k) EXCEPT !["IP"] = ip]

TraceOf(v, s, x) ==
  /\ v \in Vectors /\ s \in Machines /\ x \in Seq(Rows)
  /\ Recorded(s) = Before(v, x, Len(x) + 1)
  /\ Len(x) # 0 => Linked(Before(v, x, Len(x)), x[Len(x)], s)
  /\ LoadedWhole(v, x)
  /\ GivenBack(v, x)

TraceInv == TraceOf(vector, cpu, expected)
TraceType == vector \in Vectors /\ cpu \in Machines /\ expected \in Seq(Rows)

LEMMA BeforeType ==
  ASSUME NEW v \in Vectors, NEW x \in Seq(Rows)
  PROVE  \A k \in 1 .. Len(x) + 1 : Before(v, x, k) \in Records
<1> TAKE k \in 1 .. Len(x) + 1
<1>1. Len(x) \in Nat
  OBVIOUS
<1>2. CASE k = 1
  BY <1>2, LoadedType, RecordAgain DEF Before
<1>3. CASE k # 1
  <2>1. k - 1 \in 1 .. Len(x)
    BY <1>1, <1>3
  <2>2. x[k - 1] \in Rows
    BY <2>1
  <2>3. QED
    BY <1>3, <2>2 DEF Before, Rows
<1>4. QED
  BY <1>2, <1>3

LEMMA TraceStarts == Init => TraceInv
<1> SUFFICES ASSUME Init PROVE TraceInv
  OBVIOUS
<1>1. vector \in Vectors /\ cpu = Loaded(vector) /\ expected = <<>>
  BY DEF Init, Begin
<1>2. /\ cpu \in Machines /\ <<>> \in Seq(Rows) /\ Len(<<>>) = 0
  BY <1>1, LoadedType
<1>3. Recorded(cpu) = Before(vector, <<>>, 1)
  BY <1>1 DEF Before
<1>4. 1 .. 0 - 1 = {} /\ 0 + 1 = 1
  OBVIOUS
<1>5. LoadedWhole(vector, <<>>) /\ GivenBack(vector, <<>>)
  BY <1>2, <1>4 DEF LoadedWhole, GivenBack
<1>6. TraceOf(vector, cpu, <<>>)
  BY <1>1, <1>2, <1>3, <1>4, <1>5 DEF TraceOf
<1>7. QED
  BY <1>1, <1>6 DEF TraceInv

\* One entry more: what came before it stays, and it is the last.
LEMMA TraceGrown ==
  ASSUME NEW v, NEW s, NEW x, TraceOf(v, s, x), NEW t, NEW e, Says(s, t, e),
         NEW y, y = Append(x, e)
  PROVE  TraceOf(v, t, y)
<1> DEFINE n == Len(x)
<1>1. /\ v \in Vectors /\ s \in Machines /\ x \in Seq(Rows)
      /\ Recorded(s) = Before(v, x, n + 1)
      /\ n # 0 => Linked(Before(v, x, n), x[n], s)
  BY DEF TraceOf
<1>2. LoadedWhole(v, x) /\ GivenBack(v, x)
  BY DEF TraceOf
<1>3. n \in Nat
  BY <1>1
<1>4. /\ t \in Machines
      /\ t.regs["SS"] = s.regs["SS"] \/ t.shadow = 1
      /\ t.return = {} \/ Framed(s.regs, s.flags, t)
      /\ e \in Rows
      /\ e.after = Recorded(t) /\ e.return = t.return
      /\ e.mnemonic = "IRQ" => s.shadow = 0
  BY DEF Says
<1>5. ASSUME NEW regs, NEW flags, Framed(regs, flags, s), e.mnemonic = "iret"
      PROVE  \E ip \in s.return : e.after = [RecordOf(regs, flags) EXCEPT !["IP"] = ip]
  BY <1>5 DEF Says
<1>6. /\ y \in Seq(Rows) /\ Len(y) = n + 1 /\ y[n + 1] = e
      /\ \A k \in 1 .. n : y[k] = x[k]
      /\ \A k \in 1 .. n + 1 : Before(v, y, k) = Before(v, x, k)
      /\ Before(v, y, n + 2) = e.after
  <2>1. n \in Nat /\ n = Len(x) /\ x \in Seq(Rows) /\ e \in Rows /\ y = Append(x, e)
    BY <1>1, <1>3, <1>4
  <2> HIDE DEF n
  <2>2. /\ y \in Seq(Rows) /\ Len(y) = n + 1 /\ y[n + 1] = e
        /\ \A k \in 1 .. n : y[k] = x[k]
    BY <2>1
  <2>3. ASSUME NEW k \in 1 .. n + 1
        PROVE  Before(v, y, k) = Before(v, x, k)
    <3>1. CASE k = 1
      BY <3>1 DEF Before
    <3>2. CASE k # 1
      <4>1. k - 1 \in 1 .. n
        BY <2>1, <3>2
      <4>2. y[k - 1] = x[k - 1]
        BY <2>2, <4>1
      <4>3. QED
        BY <3>2, <4>2 DEF Before
    <3>3. QED
      BY <3>1, <3>2
  <2>4. n + 2 # 1 /\ (n + 2) - 1 = n + 1
    BY <2>1
  <2>5. Before(v, y, n + 2) = e.after
    BY <2>2, <2>4 DEF Before
  <2>6. QED
    BY <2>2, <2>3, <2>5
<1>7. \A k \in 1 .. n + 1 : Before(v, x, k) \in Records
  BY <1>1, BeforeType
<1> HIDE DEF n
<1> DEFINE before == Before(v, x, n + 1)
<1>8. /\ before["FLAGS"] = s.flags
      /\ \A r \in RegisterNames : before[r] = s.regs[r] /\ e.after[r] = t.regs[r]
  BY <1>1, <1>4, RecordedAs
<1>9. Linked(before, e, t)
  <2>1. {"SS", "SP", "CS"} \subseteq RegisterNames
    BY Names
  <2>2. e.after["SS"] # before["SS"] => t.shadow = 1
    BY <1>4, <1>8, <2>1
  <2> HIDE DEF before
  <2>3. Framed(s.regs, s.flags, t) => Framed(before, before["FLAGS"], t)
    BY <1>8, <2>1 DEF Framed
  <2>4. QED
    BY <1>4, <2>2, <2>3 DEF Linked
<1>10. n + 1 \in 1 .. n + 1 /\ (n + 1) + 1 = n + 2 /\ (n + 1) - 1 = n
  BY <1>3
<1>11. Linked(Before(v, y, n + 1), y[n + 1], t)
  BY <1>6, <1>9, <1>10
<1>12. ASSUME NEW k \in 1 .. n
       PROVE  /\ y[k] = x[k] /\ Before(v, y, k) = Before(v, x, k) /\ Before(v, x, k) \in Records
              /\ \/ k \in 1 .. n - 1 /\ y[k + 1] = x[k + 1]
                 \/ k = n /\ n # 0 /\ y[k + 1] = e
  <2>1. (k = n /\ n # 0) \/ k \in 1 .. n - 1
    BY <1>3
  <2>2. k \in 1 .. n + 1 /\ (k \in 1 .. n - 1 => k + 1 \in 1 .. n)
    BY <1>3
  <2>3. QED
    BY <1>6, <1>7, <2>1, <2>2
<1>13. LoadedWhole(v, y)
  <2> SUFFICES ASSUME NEW k \in 1 .. n, y[k].after["SS"] # Before(v, y, k)["SS"]
               PROVE  y[k + 1].mnemonic # "IRQ"
    BY <1>6, <1>10 DEF LoadedWhole
  <2>1. x[k].after["SS"] # Before(v, x, k)["SS"]
    BY <1>12
  <2>2. CASE k \in 1 .. n - 1 /\ y[k + 1] = x[k + 1]
    BY <1>2, <2>1, <2>2 DEF LoadedWhole, n
  <2>3. CASE k = n /\ n # 0 /\ y[k + 1] = e
    <3>1. s.shadow = 1
      BY <1>1, <2>1, <2>3 DEF Linked
    <3>2. QED
      BY <1>4, <2>3, <3>1
  <2>4. QED
    BY <1>12, <2>2, <2>3
<1>14. GivenBack(v, y)
  <2> SUFFICES ASSUME NEW k \in 1 .. n, y[k].return # {}, y[k + 1].mnemonic = "iret"
               PROVE  \E ip \in y[k].return :
                        y[k + 1].after = [Before(v, y, k) EXCEPT !["IP"] = ip]
    BY <1>6, <1>10 DEF GivenBack
  <2> DEFINE spot == Before(v, x, k)
  <2>1. y[k] = x[k] /\ Before(v, y, k) = spot /\ spot \in Records
    BY <1>12
  <2> HIDE DEF spot
  <2>2. CASE k \in 1 .. n - 1 /\ y[k + 1] = x[k + 1]
    <3>1. \E ip \in x[k].return : x[k + 1].after = [spot EXCEPT !["IP"] = ip]
      BY <1>2, <2>1, <2>2 DEF GivenBack, n, spot
    <3>2. QED
      BY <2>1, <2>2, <3>1
  <2>3. CASE k = n /\ n # 0 /\ y[k + 1] = e
    <3>1. x[k].return = s.return /\ Framed(spot, spot["FLAGS"], s)
      BY <1>1, <2>1, <2>3 DEF Linked, spot
    <3>2. RecordOf(spot, spot["FLAGS"]) = spot
      BY <2>1, RecordAgain
    <3>3. \E ip \in s.return : e.after = [RecordOf(spot, spot["FLAGS"]) EXCEPT !["IP"] = ip]
      BY <1>5, <2>3, <3>1
    <3>4. QED
      BY <2>1, <2>3, <3>1, <3>2, <3>3
  <2>4. QED
    BY <1>12, <2>2, <2>3
<1>15. QED
  BY <1>1, <1>4, <1>6, <1>10, <1>11, <1>13, <1>14 DEF TraceOf

LEMMA TraceGrows == TraceInv /\ RunReference => TraceInv'
<1> SUFFICES ASSUME TraceInv, RunReference PROVE TraceInv'
  OBVIOUS
<1>1. TraceOf(vector, cpu, expected) /\ cpu \in Machines
  BY DEF TraceInv, TraceOf
<1>2. PICK e : trace' = <<e>> /\ Says(cpu, cpu', e)
  BY <1>1, StepSays DEF RunReference
<1>3. expected' = Append(expected, e) /\ vector' = vector
  BY <1>2 DEF RunReference
<1>4. TraceOf(vector, cpu', expected')
  BY <1>1, <1>2, <1>3, TraceGrown
<1>5. QED
  BY <1>3, <1>4 DEF TraceInv

LEMMA TraceStays ==
  TraceInv /\ UNCHANGED <<cpu, vector, expected>> => TraceInv'
BY DEF TraceInv

LEMMA TraceSteps == TraceInv /\ [Next]_allVars => TraceInv'
<1> SUFFICES ASSUME TraceInv, [Next]_allVars PROVE TraceInv'
  OBVIOUS
<1>1. CASE RunReference
  BY <1>1, TraceGrows
<1>2. CASE TakeInterrupt
  BY <1>2, TraceStays DEF TakeInterrupt, vars
<1>3. CASE EmulateOnce
  BY <1>3, TraceStays DEF EmulateOnce, vars
<1>4. CASE Diverge
  BY <1>4, TraceStays DEF Diverge, Leave, vars
<1>5. CASE CompareEnd
  BY <1>5, TraceStays DEF CompareEnd, vars
<1>6. CASE UNCHANGED allVars
  BY <1>6, TraceStays DEF allVars, vars, oracleVars
<1>7. QED
  BY <1>1, <1>2, <1>3, <1>4, <1>5, <1>6 DEF Next, Finished

LEMMA SaidOfTheTrace ==
  TraceInv => TraceType /\ StackLoadedWhole /\ FramesReturn
<1> SUFFICES ASSUME TraceInv PROVE TraceType /\ StackLoadedWhole /\ FramesReturn
  OBVIOUS
<1>1. \A k : Earlier(k) = Before(vector, expected, k)
  BY DEF Earlier, Before
<1>2. LoadedWhole(vector, expected) /\ GivenBack(vector, expected)
  BY DEF TraceInv, TraceOf
<1>3. StackLoadedWhole
  BY <1>1, <1>2 DEF StackLoadedWhole, LoadedWhole
<1>4. FramesReturn
  BY <1>1, <1>2 DEF FramesReturn, GivenBack
<1>5. QED
  BY <1>3, <1>4 DEF TraceInv, TraceOf, TraceType

\* What the last entry of the trace says of the machine stays true of it
\* from step to step, and in the comparison, which leaves it alone.
THEOREM TraceInvHolds == Spec => []TraceInv
<1>1. QED
  BY TraceStarts, TraceSteps, PTL DEF Spec

\* The reference stays an 8088 whatever program it is given: after every
\* handler the registers are words, the memory is bytes within a megabyte,
\* the flags are the twelve that FLAGS has with the reserved one set, and
\* the trace is made of well-formed entries (runner.py masks each result).
THEOREM ReferenceStaysMachine == Spec => []TraceType
<1>1. TraceInv => TraceType
  BY SaidOfTheTrace
<1>2. QED
  BY <1>1, TraceInvHolds, PTL

\* Between the instruction that changes SS and the one after it no maskable
\* interrupt is taken, whatever the program: every handler that writes SS
\* sets interrupt_shadow, and only the next step clears it.
THEOREM StackIsLoadedWhole == Spec => []StackLoadedWhole
<1>1. TraceInv => StackLoadedWhole
  BY SaidOfTheTrace
<1>2. QED
  BY <1>1, TraceInvHolds, PTL

\* An IRET straight after an interrupt gives back every register and flag,
\* whatever the stack pointer was, whatever lies where the frame goes and
\* whichever instruction or line caused the interrupt.
THEOREM FramesAlwaysReturn == Spec => []FramesReturn
<1>1. TraceInv => FramesReturn
  BY SaidOfTheTrace
<1>2. QED
  BY <1>1, TraceInvHolds, PTL
=============================================================================
