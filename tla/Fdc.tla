-------------------------------- MODULE Fdc --------------------------------
(***************************************************************************)
(* The diskette controller (fdc.s) with the transfer channel it drives:    *)
(* command bytes, parameter bytes and result bytes go one at a time        *)
(* through port 3F5h, and a completed command raises IRQ 6 or leaves a     *)
(* result, or both.  A READ copies all its sectors before the write of its *)
(* last parameter ends.                                                    *)
(*                                                                         *)
(* The diskette and the guest's memory are abstracted to the list of       *)
(* copies a step makes: [sector |-> its number on the diskette,            *)
(* dest |-> the address it goes to].  PagedMemory has the copy itself.     *)
(***************************************************************************)
EXTENDS Dma

CONSTANTS
  SECTORS_PER_TRACK,
  HEADS_PER_CYLINDER,
  DorBytes,      \* bytes the guest writes to port 3F2h
  CommandBytes,  \* bytes it begins a command with
  ParamBytes     \* ParamBytes[i]: bytes it writes as the i-th parameter

ASSUME FdcAssumption ==
  /\ SECTORS_PER_TRACK \in Nat \ {0}
  /\ HEADS_PER_CYLINDER \in Nat \ {0}
  /\ DorBytes \subseteq 0 .. 255
  /\ CommandBytes \subseteq 0 .. 255
  /\ ParamBytes \in [0 .. 7 -> SUBSET (0 .. 255)]

VARIABLES
  fdc_dor,
  fdc_command,
  fdc_params,         \* eight bytes; they outlive their command
  fdc_param_index,
  fdc_expected,       \* parameters of the command begun; 0: none is
  fdc_results,        \* the result bytes not yet read
  fdc_pending_st0,    \* what the next SENSE reports, once the
  fdc_pending_cyl,
  fdc_reset_senses,   \* senses a reset promised are used up
  fdc_current_cyl,
  fdc_selected_drive,
  irq6,               \* the step called pic_request_irq(6)
  copied              \* the copies the step made

seekVars == <<fdc_pending_st0, fdc_pending_cyl, fdc_current_cyl>>
unitVars == <<fdc_dor, fdc_selected_drive>>
inputVars == <<fdc_command, fdc_params, fdc_param_index, fdc_expected>>
fdcVars == <<seekVars, unitVars, inputVars, fdc_results, fdc_reset_senses>>
vars == <<dmaVars, fdcVars, irq6, copied>>

Silent == irq6' = FALSE /\ copied' = <<>>

\* fdc_reset at power-up promises four senses, like one by port 3F2h.
Init ==
  /\ DmaInit
  /\ fdc_dor = 0
  /\ fdc_command = 0
  /\ fdc_params = [i \in 0 .. 7 |-> 0]
  /\ fdc_param_index = 0
  /\ fdc_expected = 0
  /\ fdc_results = <<>>
  /\ fdc_pending_st0 = 0
  /\ fdc_pending_cyl = 0
  /\ fdc_reset_senses = 4
  /\ fdc_current_cyl = 0
  /\ fdc_selected_drive = 0
  /\ irq6 = FALSE
  /\ copied = <<>>

----------------------------------------------------------------------------
\* Port 3F2h: a rising bit 2 resets the controller, whatever it is doing.
\* (Variant: the senses are promised at power-up only.)
ResetFdcUnpromised ==
  /\ fdc_command' = 0
  /\ fdc_param_index' = 0
  /\ fdc_expected' = 0
  /\ fdc_results' = <<>>
  /\ fdc_pending_st0' = 0
  /\ fdc_pending_cyl' = 0
  /\ fdc_current_cyl' = 0
  /\ irq6' = TRUE
  /\ copied' = <<>>
  /\ UNCHANGED <<fdc_params, fdc_reset_senses>>
ResetFdc ==
  /\ fdc_command' = 0
  /\ fdc_param_index' = 0
  /\ fdc_expected' = 0
  /\ fdc_results' = <<>>
  /\ fdc_pending_st0' = 0
  /\ fdc_pending_cyl' = 0
  /\ fdc_current_cyl' = 0
  /\ fdc_reset_senses' = 4
  /\ irq6' = TRUE
  /\ copied' = <<>>
  /\ UNCHANGED fdc_params

WriteDor(b) ==
  /\ IF Bit(b, 2) /\ ~Bit(fdc_dor, 2)
       THEN ResetFdc
       ELSE Silent /\ UNCHANGED <<seekVars, inputVars, fdc_results, fdc_reset_senses>>
  /\ fdc_dor' = b
  /\ fdc_selected_drive' = b % 4
  /\ UNCHANGED dmaVars

\* Port 3F5h, read.  An empty result reads as FFh and changes nothing.
ReadResult ==
  /\ fdc_results # <<>>
  /\ fdc_results' = Tail(fdc_results)
  /\ Silent
  /\ UNCHANGED <<dmaVars, seekVars, unitVars, inputVars, fdc_reset_senses>>

----------------------------------------------------------------------------
\* The commands, after their last parameter; p are the parameters.
Quiet == fdc_results' = <<>> /\ Silent

Answer(bytes) == fdc_results' = bytes /\ irq6' = TRUE

Specify == Quiet /\ UNCHANGED <<dmaVars, seekVars, fdc_reset_senses>>

\* fdc_queue_not_found reports the cylinder, head, sector and size bytes
\* that are in the parameter buffer, also for commands that have none.
NotFoundResult(p) == <<64, 4, 0, p[1], p[2], p[3], p[4]>>
NotFound(p) ==
  /\ Answer(NotFoundResult(p))
  /\ copied' = <<>>
  /\ UNCHANGED <<dmaVars, seekVars, fdc_reset_senses>>

\* (Variant: the drive that port 3F2h selects is not looked at.)
DriveAByParameter(p) == p[0] % 4 = 0
DriveA(p) == p[0] % 4 = 0 /\ fdc_selected_drive = 0

\* RECALIBRATE and SEEK end with an interrupt and no result.
\* (Variant: the cylinder that SENSE reports is left as it was.)
MoveToSilently(cyl) ==
  /\ fdc_current_cyl' = cyl
  /\ fdc_pending_st0' = 32
  /\ irq6' = TRUE /\ copied' = <<>>
  /\ fdc_results' = <<>>
  /\ UNCHANGED <<dmaVars, fdc_pending_cyl, fdc_reset_senses>>
MoveTo(cyl) ==
  /\ fdc_current_cyl' = cyl
  /\ fdc_pending_st0' = 32
  /\ fdc_pending_cyl' = cyl
  /\ irq6' = TRUE /\ copied' = <<>>
  /\ fdc_results' = <<>>
  /\ UNCHANGED <<dmaVars, fdc_reset_senses>>

Recalibrate(p) == IF DriveA(p) THEN MoveTo(0) ELSE NotFound(p)
Seek(p)        == IF DriveA(p) THEN MoveTo(p[1]) ELSE NotFound(p)

SenseReset ==
  /\ fdc_reset_senses > 0
  /\ fdc_results' = <<192 + (4 - fdc_reset_senses), 0>>
  /\ fdc_reset_senses' = fdc_reset_senses - 1
  /\ Silent
  /\ UNCHANGED <<dmaVars, seekVars>>

SensePending ==
  /\ fdc_reset_senses = 0
  /\ fdc_results' = <<fdc_pending_st0, fdc_pending_cyl>>
  /\ fdc_pending_st0' = 0
  /\ fdc_pending_cyl' = 0
  /\ Silent
  /\ UNCHANGED <<dmaVars, fdc_current_cyl, fdc_reset_senses>>

ReadId(p) ==
  IF DriveA(p)
    THEN /\ Answer(<<32, 0, 0, fdc_current_cyl, (p[0] \div 4) % 2, 1, 2>>)
         /\ copied' = <<>>
         /\ UNCHANGED <<dmaVars, seekVars, fdc_reset_senses>>
    ELSE NotFound(p)

----------------------------------------------------------------------------
\* READ DATA, and WRITE DATA, which the code treats as a READ.
FirstSector(p) ==
  p[1] * SECTORS_PER_TRACK * HEADS_PER_CYLINDER
    + (p[2] % 2) * SECTORS_PER_TRACK + p[3] - 1

\* fdc_compute_sector_source: 512-byte sectors, numbered from 1 to 9.
Addressable(p) == p[4] = 2 /\ p[3] \in 1 .. 9

\* Sectors to the end of the track; fewer than none is an error.
Wanted(p) == p[5] - p[3] + 1

Copies(p, k) ==
  [i \in 1 .. k |-> [sector |-> FirstSector(p) + i - 1, dest |-> DestAt(i - 1)]]

\* (Variant: one refused sector does not spoil the result.)
ReadResultAlwaysFine(p, k) == <<32, 0, 0, p[1], p[2], p[3], p[4]>>
ReadResultBytes(p, k) ==
  IF k = Wanted(p) THEN <<32, 0, 0, p[1], p[2], p[3], p[4]>> ELSE NotFoundResult(p)

ReadData(p) ==
  IF DriveA(p) /\ Addressable(p) /\ Wanted(p) > 0
    THEN LET k == Moved(Wanted(p))
         IN  /\ copied' = Copies(p, k)
             /\ Advance(k)
             /\ Answer(ReadResultBytes(p, k))
             /\ UNCHANGED <<seekVars, fdc_reset_senses>>
    ELSE NotFound(p)

Invalid ==
  /\ fdc_results' = <<128, 0>>
  /\ Silent
  /\ UNCHANGED <<dmaVars, seekVars, fdc_reset_senses>>

----------------------------------------------------------------------------
\* Port 3F5h, written.
Parameters(c) ==
  CASE c \in {3, 15} -> 2
    [] c \in {7, 10} -> 1
    [] c \in {5, 6}  -> 8
    [] OTHER         -> 0

Execute(c, p) ==
  \/ c = 3 /\ Specify
  \/ c = 7 /\ Recalibrate(p)
  \/ c = 8 /\ (SenseReset \/ SensePending)
  \/ c = 15 /\ Seek(p)
  \/ c \in {5, 6} /\ ReadData(p)
  \/ c = 10 /\ ReadId(p)
  \/ c \notin {3, 5, 6, 7, 8, 10, 15} /\ Invalid

\* A command byte, once no parameter is expected, throws away what is left
\* of a result; the command is in its low five bits.
\* (Variant: it leaves the rest of the result in place.)
BeginKeepsResult(b) ==
  /\ fdc_expected = 0
  /\ fdc_command' = b % 32
  /\ fdc_param_index' = 0
  /\ UNCHANGED <<fdc_params, unitVars>>
  /\ IF Parameters(b % 32) = 0
       THEN Execute(b % 32, fdc_params) /\ fdc_expected' = 0
       ELSE /\ fdc_expected' = Parameters(b % 32)
            /\ Silent
            /\ UNCHANGED <<dmaVars, seekVars, fdc_results, fdc_reset_senses>>
Begin(b) ==
  /\ fdc_expected = 0
  /\ fdc_command' = b % 32
  /\ fdc_param_index' = 0
  /\ UNCHANGED <<fdc_params, unitVars>>
  /\ IF Parameters(b % 32) = 0
       THEN Execute(b % 32, fdc_params) /\ fdc_expected' = 0
       ELSE /\ fdc_expected' = Parameters(b % 32)
            /\ Quiet
            /\ UNCHANGED <<dmaVars, seekVars, fdc_reset_senses>>

NextParameter(b) == [fdc_params EXCEPT ![fdc_param_index] = b]

LastParameter == fdc_param_index + 1 = fdc_expected

Parameter(b) ==
  /\ fdc_expected > 0
  /\ fdc_params' = NextParameter(b)
  /\ fdc_param_index' = fdc_param_index + 1
  /\ UNCHANGED <<fdc_command, unitVars>>
  /\ IF LastParameter
       THEN Execute(fdc_command, NextParameter(b)) /\ fdc_expected' = 0
       ELSE /\ Silent
            /\ UNCHANGED <<dmaVars, seekVars, fdc_expected, fdc_results,
                           fdc_reset_senses>>

WriteData ==
  \/ \E b \in CommandBytes : Begin(b)
  \/ \E b \in ParamBytes[fdc_param_index % 8] : Parameter(b)

OutDma == WriteDma /\ Silent /\ UNCHANGED fdcVars

Next ==
  \/ \E b \in DorBytes : WriteDor(b)
  \/ ReadResult
  \/ WriteData
  \/ OutDma

Spec == Init /\ [][Next]_vars

----------------------------------------------------------------------------
(***************************************************************************)
(* Registers keep their ranges; the parameter index never leaves the       *)
(* eight-byte buffer while a parameter is expected.                        *)
(***************************************************************************)
TypeOK ==
  /\ DmaTypeOK
  /\ fdc_dor \in 0 .. 255
  /\ fdc_command \in 0 .. 31
  /\ fdc_params \in [0 .. 7 -> 0 .. 255]
  /\ fdc_expected \in 0 .. 8
  /\ fdc_param_index \in 0 .. 8
  /\ fdc_expected > 0 => fdc_param_index < fdc_expected
  /\ fdc_results \in Seq(0 .. 255)
  /\ Len(fdc_results) <= 7
  /\ fdc_pending_st0 \in 0 .. 255
  /\ fdc_pending_cyl \in 0 .. 255
  /\ fdc_reset_senses \in 0 .. 4
  /\ fdc_current_cyl \in 0 .. 255
  /\ fdc_selected_drive \in 0 .. 3
  /\ irq6 \in BOOLEAN

(***************************************************************************)
(* The three phases exclude each other, as the main status register tells  *)
(* the guest (fdc_read_main_status): no result is left while parameters    *)
(* are expected.                                                           *)
(***************************************************************************)
PhasesExclusive == fdc_expected > 0 => fdc_results = <<>>

(***************************************************************************)
(* The end of a seek is not lost, and not misreported: it goes only by a   *)
(* SENSE that tells the guest where the head is, or by a reset.            *)
(***************************************************************************)
SeekEndTold ==
  [][fdc_pending_st0 = 32 /\ fdc_pending_st0' # 32 =>
       \/ fdc_results' = <<32, fdc_current_cyl>>
       \/ ~Bit(fdc_dor, 2) /\ Bit(fdc_dor', 2)]_vars

(***************************************************************************)
(* An interrupt has its reason ready: a result to read, a seek end or a    *)
(* reset for SENSE to report.                                              *)
(***************************************************************************)
InterruptExplained ==
  [][irq6' => \/ fdc_results' # <<>>
              \/ fdc_pending_st0' # 0
              \/ fdc_reset_senses' > 0]_vars

(***************************************************************************)
(* A READ is told as it went: a normal result means every sector up to the *)
(* end of track was copied, consecutive sectors to consecutive addresses   *)
(* of the channel's page, and the channel stands behind them; when one is  *)
(* refused the result says so.                                             *)
(***************************************************************************)
Whole(p, c) ==
  /\ Len(c) = Wanted(p)
  /\ \A i \in 1 .. Len(c) :
       /\ c[i].sector = c[1].sector + i - 1
       /\ (c[i].dest - c[1].dest) % (Base * Base) = ((i - 1) * Sector) % (Base * Base)
ReadTold ==
  [][fdc_expected = 8 /\ fdc_expected' = 0 /\ fdc_results' # <<>> =>
       IF fdc_results'[1] = 32
         THEN /\ Whole(fdc_params', copied')
              /\ (dma_channel2_addr' - dma_channel2_addr) % (Base * Base)
                   = (Len(copied') * Sector) % (Base * Base)
         ELSE Len(copied') < Wanted(fdc_params') \/ copied' = <<>>]_vars

(***************************************************************************)
(* Memory changes only on behalf of the one drive there is, through an     *)
(* unmasked channel with room for a sector.                                *)
(***************************************************************************)
CopiesAuthorised ==
  [][copied' # <<>> => /\ fdc_selected_drive = 0
                       /\ ~dma_channel2_masked
                       /\ dma_channel2_count >= Sector - 1]_vars

(***************************************************************************)
(* "CHS sector reads, terminal count, IRQ6 delivery" (CONTINUATION_C.md):  *)
(* a READ stops at terminal count, after the bytes the guest programmed.   *)
(***************************************************************************)
StopsAtTerminalCount ==
  [][Len(copied') * Sector <= dma_channel2_count + 1]_vars
=============================================================================
