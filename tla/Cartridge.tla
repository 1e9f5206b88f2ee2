------------------------------ MODULE Cartridge ------------------------------
(***************************************************************************)
(* From the build to the first instruction of the emulator:                *)
(* generate_cartridge_include.py writes the sizes the loader is assembled  *)
(* with, build_crt.py packs loader, payload and boot disk into the banks   *)
(* of a cartridge, and src/cartridge/bootstrap.s copies them out again, a  *)
(* byte of the payload at a time and a bank of the disk at a time.  A byte *)
(* is known by the file it comes from and its place in it.                 *)
(***************************************************************************)
EXTENDS Integers

CONSTANTS
  BankSize,        \* bytes of a bank
  BootstrapSize,   \* bytes the loader has of the first bank
  MinimumBanks,    \* banks a cartridge has at least
  DisableBank,     \* the bank register's bit that switches the cartridge off
  RamSize,         \* bytes of memory from the load address on
  ReuSize,         \* bytes of the REU from the disk's place on
  PayloadSizes,    \* sizes the payload may have
  BssSizes,        \* and the memory it wants cleared behind it
  MediaSizes       \* sizes the disk image may have

\* (Variant: the loader's share of the first bank is forgotten.)
RequiredBanksWholeFirst(size) ==
  LET extra == ((IF size > BankSize THEN size - BankSize ELSE 0) + BankSize - 1) \div BankSize
  IN  IF 1 + extra > MinimumBanks THEN 1 + extra ELSE MinimumBanks

\* required_banks, the same in both tools.
RequiredBanks(size) ==
  LET capacity == BankSize - BootstrapSize
      remaining == IF size > capacity THEN size - capacity ELSE 0
      extra == (remaining + BankSize - 1) \div BankSize
  IN  IF 1 + extra > MinimumBanks THEN 1 + extra ELSE MinimumBanks

CartridgeAssumption ==
  /\ BankSize \in Nat /\ BootstrapSize \in Nat /\ BootstrapSize < BankSize
  /\ MinimumBanks \in Nat /\ DisableBank \in Nat /\ RamSize \in Nat /\ ReuSize \in Nat
  /\ PayloadSizes \subseteq Nat \ {0} /\ BssSizes \subseteq Nat /\ MediaSizes \subseteq Nat
  /\ \A p \in PayloadSizes, b \in BssSizes : p + b <= RamSize
  /\ \A p \in PayloadSizes : RequiredBanks(p) <= DisableBank
  /\ \A m \in MediaSizes : m <= ReuSize
ASSUME CartridgeAssumption

VARIABLES
  payload,   \* the linked program as it is on disk: version, size and BSS
  media,     \* the disk image: version and size, none if that is zero
  include,   \* what cartridge_payload.inc was made from, in a set
  crt,       \* what the cartridge was made from, in a set
  stage,     \* "build", "check", "copy", "clear", "media" or "entered"
  bank,      \* BANK_NUMBER
  mapped,    \* MAGIC_DESK_BANK: the bank that is in the window
  source,    \* COPY_SOURCE, from the window's first byte
  dest,      \* COPY_DEST, from the load address
  left,      \* BYTES_LEFT, or in X the banks that are left
  ram,       \* memory
  reu        \* the REU

files   == <<payload, media, include, crt>>
machine == <<bank, mapped, source, dest, left, ram, reu>>
vars    == <<files, stage, machine>>

File(version, size, bss) == [version |-> version, size |-> size, bss |-> bss]
Chosen(s) == CHOOSE x \in s : TRUE

\* What a byte can be.
FromPayload(p, i) == [of |-> "payload", version |-> p.version, at |-> i]
FromMedia(m, i)   == [of |-> "media", version |-> m.version, at |-> i]
Zero    == [of |-> "zero", version |-> 0, at |-> 0]
Fill    == [of |-> "fill", version |-> 0, at |-> 0]
Foreign == [of |-> "foreign", version |-> 0, at |-> 0]   \* what was there before

----------------------------------------------------------------------------
MediaBanks(size) == (size + BankSize - 1) \div BankSize

\* What the tools are run on: the files as they are now.
Inputs == [payload |-> payload, media |-> media]

\* build: the byte at a place of a bank.  The payload fills the banks from
\* behind the loader on, the disk from the first bank the payload leaves.
Crt == Chosen(crt)
BankCount == RequiredBanks(Crt.payload.size) + MediaBanks(Crt.media.size)
Rom(b, offset) ==
  LET first == RequiredBanks(Crt.payload.size)
      inPayload == b * BankSize + offset - BootstrapSize
      inMedia   == (b - first) * BankSize + offset
  IN  IF b < first /\ inPayload \in 0 .. Crt.payload.size - 1
        THEN FromPayload(Crt.payload, inPayload)
      ELSE IF b >= first /\ b < BankCount /\ inMedia < Crt.media.size
        THEN FromMedia(Crt.media, inMedia)
      ELSE Fill

\* The window: a bank there is, or what lies under it.
Window(offset) ==
  IF mapped < DisableBank /\ mapped < BankCount THEN Rom(mapped, offset) ELSE Foreign

----------------------------------------------------------------------------
\* generate: the include file is made from the program and the disk.
GenerateInclude ==
  /\ stage = "build"
  /\ include' = {Inputs}
  /\ UNCHANGED <<payload, media, crt, stage, machine>>

\* The program is linked anew, or another disk is named on the command line
\* of the tool that comes next.
EditPayload ==
  /\ stage = "build" /\ payload.version = 1
  /\ \E size \in PayloadSizes, bss \in BssSizes : payload' = File(2, size, bss)
  /\ UNCHANGED <<media, include, crt, stage, machine>>

EditMedia ==
  /\ stage = "build" /\ media.version = 1
  /\ \E size \in MediaSizes : media' = File(2, size, 0)
  /\ UNCHANGED <<payload, include, crt, stage, machine>>

BuildCrt ==
  /\ stage = "build" /\ include # {}
  /\ crt' = {Inputs}
  /\ stage' = "check"
  /\ UNCHANGED <<payload, media, include, machine>>

\* validate: enough banks, in order, and the signature of the loader, as
\* build makes them; the sizes the loader was assembled with it does not
\* look at.  The cartridge is plugged in, the loader begins.
Check ==
  /\ stage = "check" /\ BankCount >= MinimumBanks
  /\ stage' = "copy"
  /\ left' = Chosen(include).payload.size
  /\ UNCHANGED <<files, bank, mapped, source, dest, ram, reu>>

----------------------------------------------------------------------------
Constants == Chosen(include)

\* @copy_payload: at the end of the window the next bank comes in, after the
\* last byte too.
CopyByte ==
  /\ stage = "copy"
  /\ ram' = [ram EXCEPT ![dest] = Window(source)]
  /\ dest' = dest + 1
  /\ IF source + 1 = BankSize
       THEN bank' = bank + 1 /\ mapped' = bank' /\ source' = 0
       ELSE source' = source + 1 /\ UNCHANGED <<bank, mapped>>
  /\ IF left = 1
       THEN stage' = "clear" /\ left' = Constants.payload.bss
       ELSE left' = left - 1 /\ UNCHANGED stage
  /\ UNCHANGED <<files, reu>>

\* @clear_bss: from the place the labels name, behind the payload.
ClearByte ==
  /\ stage = "clear" /\ left > 0
  /\ ram' = [ram EXCEPT ![Constants.payload.size + Constants.payload.bss - left] = Zero]
  /\ left' = left - 1
  /\ UNCHANGED <<files, stage, bank, mapped, source, dest, reu>>

\* @bss_cleared: the loader has code for the disk only if it was told of one.
Cleared ==
  /\ stage = "clear" /\ left = 0
  /\ IF Constants.media.size = 0
       THEN stage' = "entered" /\ mapped' = DisableBank /\ UNCHANGED <<bank, left>>
       ELSE /\ stage' = "media"
            /\ bank' = RequiredBanks(Constants.payload.size)
            /\ left' = MediaBanks(Constants.media.size)
            /\ UNCHANGED mapped
  /\ UNCHANGED <<files, source, dest, ram, reu>>

\* (Variant: a bank is staged before it is selected.)
StageBankLate ==
  /\ stage = "media"
  /\ LET from == (MediaBanks(Constants.media.size) - left) * BankSize
     IN  reu' = [i \in DOMAIN reu |-> IF i \in from .. from + BankSize - 1
                                        THEN Window(i - from) ELSE reu[i]]
  /\ bank' = bank + 1
  /\ left' = left - 1
  /\ IF left = 1 THEN stage' = "entered" /\ mapped' = DisableBank
                 ELSE mapped' = bank /\ UNCHANGED stage
  /\ UNCHANGED <<files, source, dest, ram>>

\* @stage_media_bank: the whole bank, padding and all, to where the REU's
\* own address stands.
StageBank ==
  /\ stage = "media"
  /\ LET from == (MediaBanks(Constants.media.size) - left) * BankSize
         there(offset) == IF bank < DisableBank /\ bank < BankCount THEN Rom(bank, offset)
                                                                    ELSE Foreign
     IN  reu' = [i \in DOMAIN reu |-> IF i \in from .. from + BankSize - 1
                                        THEN there(i - from) ELSE reu[i]]
  /\ bank' = bank + 1
  /\ left' = left - 1
  /\ IF left = 1 THEN stage' = "entered" /\ mapped' = DisableBank
                 ELSE mapped' = bank /\ UNCHANGED stage
  /\ UNCHANGED <<files, source, dest, ram>>

Over == stage = "entered" /\ UNCHANGED vars

Init ==
  /\ \E size \in PayloadSizes, bss \in BssSizes : payload = File(1, size, bss)
  /\ \E size \in MediaSizes : media = File(1, size, 0)
  /\ include = {} /\ crt = {}
  /\ stage = "build"
  /\ bank = 0 /\ mapped = 0 /\ source = BootstrapSize /\ dest = 0 /\ left = 0
  /\ ram = [i \in 0 .. RamSize - 1 |-> Foreign]
  /\ reu = [i \in 0 .. ReuSize - 1 |-> Foreign]

Build == GenerateInclude \/ EditPayload \/ EditMedia \/ BuildCrt
Boot  == Check \/ CopyByte \/ ClearByte \/ Cleared \/ StageBank
Next  == Build \/ Boot \/ Over

Spec == Init /\ [][Next]_vars

----------------------------------------------------------------------------
\* The loader was assembled for the files that are on the cartridge.
Matching == include = crt

Sources == {"payload", "media", "zero", "fill", "foreign"}

\* Type invariant.
TypeOK ==
  /\ stage \in {"build", "check", "copy", "clear", "media", "entered"}
  /\ payload.size \in PayloadSizes /\ payload.bss \in BssSizes
  /\ media.size \in MediaSizes
  /\ bank \in Nat /\ mapped \in Nat /\ left \in Nat /\ dest \in Nat
  /\ source \in 0 .. BankSize - 1
  /\ \A i \in DOMAIN ram : ram[i].of \in Sources
  /\ \A i \in DOMAIN reu : reu[i].of \in Sources

\* The payload arrives whole: when it is entered, every byte of it is at its
\* place in memory, over all the banks it was cut into, and what it wants
\* cleared behind it is clear (build's slices, @copy_payload, @clear_bss).
PayloadArrives ==
  stage = "entered" /\ Matching =>
    /\ \A i \in 0 .. Crt.payload.size - 1 : ram[i] = FromPayload(Crt.payload, i)
    /\ \A i \in Crt.payload.size .. Crt.payload.size + Crt.payload.bss - 1 : ram[i] = Zero

\* So does the disk, if its banks have numbers the bank register can hold:
\* the loader looks for it in the bank where build_crt put it, whatever the
\* sizes of both (MEDIA_ROM_BANK, @stage_media_bank).
MediaArrives ==
  stage = "entered" /\ Matching /\ BankCount <= DisableBank =>
    \A i \in 0 .. Crt.media.size - 1 : reu[i] = FromMedia(Crt.media, i)
=============================================================================
