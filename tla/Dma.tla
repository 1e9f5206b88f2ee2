-------------------------------- MODULE Dma --------------------------------
(***************************************************************************)
(* Channel 2 of the transfer controller (dma.s), the only one modelled by  *)
(* the program: its address and count registers, written a byte at a time  *)
(* through one flip-flop, its page register and its mask.                  *)
(*                                                                         *)
(* A byte has Base values (256); a sector is two pages of Base bytes       *)
(* (512).  The mode register is stored and never used; it is left out.     *)
(***************************************************************************)
EXTENDS Integers, Sequences

CONSTANTS
  Base,
  RegisterBytes,  \* bytes the guest writes to the address and count ports
  PageBytes,      \* bytes it writes to the page port
  MaskBytes       \* bytes it writes to the mask port

Word   == 0 .. Base * Base - 1
Byte   == 0 .. Base - 1
Sector == 2 * Base

ASSUME DmaAssumption ==
  /\ Base \in Nat \ {0, 1}
  /\ RegisterBytes \subseteq Byte
  /\ PageBytes \subseteq 0 .. 255
  /\ MaskBytes \subseteq 0 .. 255

VARIABLES
  dma_channel2_addr,
  dma_channel2_count,
  dma_channel2_page,
  dma_channel2_masked,
  dma_flipflop         \* the next byte is a high byte

dmaVars == <<dma_channel2_addr, dma_channel2_count, dma_channel2_page,
             dma_channel2_masked, dma_flipflop>>

Bit(b, n) == (b \div 2^n) % 2 = 1

DmaInit ==
  /\ dma_channel2_addr = 0
  /\ dma_channel2_count = 0
  /\ dma_channel2_page = 0
  /\ dma_channel2_masked = TRUE
  /\ dma_flipflop = FALSE

----------------------------------------------------------------------------
\* A byte into one half of a word.
Half(w, b) == IF dma_flipflop THEN (b * Base) + (w % Base) ELSE (w \div Base) * Base + b

WriteAddr(b) ==
  /\ dma_channel2_addr' = Half(dma_channel2_addr, b)
  /\ dma_flipflop' = ~dma_flipflop
  /\ UNCHANGED <<dma_channel2_count, dma_channel2_page, dma_channel2_masked>>

WriteCount(b) ==
  /\ dma_channel2_count' = Half(dma_channel2_count, b)
  /\ dma_flipflop' = ~dma_flipflop
  /\ UNCHANGED <<dma_channel2_addr, dma_channel2_page, dma_channel2_masked>>

\* A mask byte names its channel in the low two bits.
WriteMask(b) ==
  /\ b % 4 = 2
  /\ dma_channel2_masked' = Bit(b, 2)
  /\ UNCHANGED <<dma_channel2_addr, dma_channel2_count, dma_channel2_page, dma_flipflop>>

ClearFlipFlop ==
  /\ dma_flipflop' = FALSE
  /\ UNCHANGED <<dma_channel2_addr, dma_channel2_count, dma_channel2_page,
                 dma_channel2_masked>>

\* dma_reset: the page too.
MasterClear ==
  /\ dma_channel2_addr' = 0
  /\ dma_channel2_count' = 0
  /\ dma_channel2_page' = 0
  /\ dma_channel2_masked' = TRUE
  /\ dma_flipflop' = FALSE

WritePage(b) ==
  /\ dma_channel2_page' = b
  /\ UNCHANGED <<dma_channel2_addr, dma_channel2_count, dma_channel2_masked, dma_flipflop>>

WriteDma ==
  \/ \E b \in RegisterBytes : WriteAddr(b) \/ WriteCount(b)
  \/ \E b \in MaskBytes : WriteMask(b)
  \/ ClearFlipFlop
  \/ MasterClear
  \/ \E b \in PageBytes : WritePage(b)

----------------------------------------------------------------------------
(***************************************************************************)
(* dma_channel2_read_from_reu, called for sector after sector: the i-th    *)
(* call, counting from 0, finds these registers.  The count is tested      *)
(* before a sector and taken down by a sector after it, modulo a word.     *)
(***************************************************************************)
CountAt(i) == (dma_channel2_count - i * Sector) % (Base * Base)
AddrAt(i)  == (dma_channel2_addr + i * Sector) % (Base * Base)

\* Where the i-th sector goes.
DestAt(i) == (dma_channel2_page % 16) * Base * Base + AddrAt(i)

Accepts(i) == ~dma_channel2_masked /\ CountAt(i) >= Sector - 1

\* How many of n sectors go through before one is refused.
Moved(n) ==
  CHOOSE k \in 0 .. n :
    /\ \A i \in 0 .. k - 1 : Accepts(i)
    /\ k = n \/ ~Accepts(k)

\* The registers after k sectors.
Advance(k) ==
  /\ dma_channel2_addr' = AddrAt(k)
  /\ dma_channel2_count' = CountAt(k)
  /\ UNCHANGED <<dma_channel2_page, dma_channel2_masked, dma_flipflop>>

DmaTypeOK ==
  /\ dma_channel2_addr \in Word
  /\ dma_channel2_count \in Word
  /\ dma_channel2_page \in 0 .. 255
  /\ dma_channel2_masked \in BOOLEAN
  /\ dma_flipflop \in BOOLEAN
=============================================================================
