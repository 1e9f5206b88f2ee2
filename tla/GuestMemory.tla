---------------------------- MODULE GuestMemory ----------------------------
(***************************************************************************)
(* What the memory system of the emulator promises the 8088 program it     *)
(* runs: one flat memory.  A byte that is read or fetched is the byte that *)
(* was last stored there, whether by the processor or by a diskette        *)
(* transfer, and the screen shows what the memory holds.  No cache appears *)
(* here; PagedMemory has them and is shown to implement this module.       *)
(*                                                                         *)
(* The memory is the expansion RAM (REU) of the host: GuestPages pages of  *)
(* guest memory (1 MiB in 256-byte pages in the code) and, above them,     *)
(* expansion RAM that only a transfer running over the top of the guest    *)
(* can reach.                                                              *)
(***************************************************************************)
EXTENDS Integers

CONSTANTS
  PageSize,    \* bytes in a page: $100 in the code
  GuestPages,  \* pages of guest memory: $1000 in the code
  ReuPages,    \* pages of the expansion RAM that the model keeps
  CarryPages,  \* pages a segment:offset sum can reach past 1 MiB ($FF)
  ClearedPages,\* pages zeroed before the guest starts
  VideoPage,   \* the page the screen is drawn from ($B80 in the code)
  Byte,        \* the byte values
  Media        \* the diskette: a set of sectors of two pages of bytes each

Offset    == 0 .. PageSize - 1
GuestPage == 0 .. GuestPages - 1
ReuPage   == 0 .. ReuPages - 1
PageData  == [Offset -> Byte]

\* One sector is moved in two transfers of a page each.
Sector == [0 .. 1 -> PageData]

VARIABLES
  mem,    \* mem[p][o]: the byte at offset o of page p
  seen,   \* the byte last handed to the processor
  screen  \* the bytes the screen was last drawn from

memVars == <<mem, seen, screen>>

(***************************************************************************)
(* A segment:offset sum has a page number of up to one carry past the end  *)
(* of the guest memory; the 20-bit adder drops the carry.                  *)
(***************************************************************************)
SumPage == 0 .. GuestPages - 1 + CarryPages
Physical(p) == IF p < GuestPages THEN p ELSE p - GuestPages

\* The flat position of offset o of page p.
Linear(p, o) == p * PageSize + o

\* Memory m after one page of bytes is copied to the flat positions from start.
Copied(m, start, bytes) ==
  [p \in ReuPage |-> [o \in Offset |->
     LET d == Linear(p, o) - start
     IN  IF d \in Offset THEN bytes[d] ELSE m[p][o]]]

\* A sector goes to consecutive flat positions, past the guest's end too.
SectorCopied(m, start, sector) ==
  Copied(Copied(m, start, sector[0]), start + PageSize, sector[1])

\* What the guest finds: cleared pages hold zero, the others anything (the
\* BIOS image, and expansion RAM that nothing has written).
BootImage ==
  {m \in [ReuPage -> PageData] :
     \A p \in ClearedPages : m[p] = [o \in Offset |-> 0]}

Init ==
  /\ mem \in BootImage
  /\ seen = 0
  /\ screen = [o \in Offset |-> 0]

\* A data read or an instruction fetch: both see the same memory.
Read(p, o) ==
  /\ seen' = mem[Physical(p)][o]
  /\ UNCHANGED <<mem, screen>>

Write(p, o, b) ==
  /\ mem' = [mem EXCEPT ![Physical(p)][o] = b]
  /\ UNCHANGED <<seen, screen>>

LoadSector(p, o, sector) ==
  /\ mem' = SectorCopied(mem, Linear(p, o), sector)
  /\ UNCHANGED <<seen, screen>>

Draw ==
  /\ screen' = mem[VideoPage]
  /\ UNCHANGED <<mem, seen>>

Next ==
  \/ \E p \in SumPage, o \in Offset : Read(p, o)
  \/ \E p \in SumPage, o \in Offset, b \in Byte : Write(p, o, b)
  \/ \E p \in GuestPage, o \in Offset, sector \in Media : LoadSector(p, o, sector)
  \/ Draw

Spec == Init /\ [][Next]_memVars
=============================================================================
