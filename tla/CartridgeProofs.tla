--------------------------- MODULE CartridgeProofs ---------------------------
(***************************************************************************)
(* For banks, loaders, payloads and disks of every size: what the build    *)
(* tools cut into banks is put together again in memory and in the REU.    *)
(* The inductive invariant ties the two cursors of the copy to each other: *)
(* the place in the cartridge is BootstrapSize ahead of the place in       *)
(* memory, counted over all the banks, and the bank in the window is the   *)
(* one the loader believes to be there.                                    *)
(***************************************************************************)
EXTENDS Cartridge, TLAPS

Payloads == [version : 1 .. 2, size : PayloadSizes, bss : BssSizes]
Medias   == [version : 1 .. 2, size : MediaSizes, bss : {0}]
InputSet == [payload : Payloads, media : Medias]
Bytes    == [of : Sources, version : 0 .. 2, at : Nat]

----------------------------------------------------------------------------
\* Arithmetic of the banks.
LEMMA Ceiling ==
  ASSUME NEW B \in Nat \ {0}, NEW r \in Nat
  PROVE  /\ (r + B - 1) \div B \in Nat
         /\ ((r + B - 1) \div B) * B >= r
<1> DEFINE n == r + B - 1
           q == n \div B
<1>1. n \in Nat
  OBVIOUS
<1>2. q \in Nat /\ n = q * B + (n % B) /\ n % B \in 0 .. B - 1
  BY <1>1, SMTT(30)
<1>3. q * B \in Int /\ n % B \in Int
  BY <1>2
<1> QED
  BY <1>2, <1>3

LEMMA Distribute ==
  ASSUME NEW a \in Int, NEW b \in Int, NEW B \in Int
  PROVE  (a + b) * B = a * B + b * B
  BY SMTT(30)

LEMMA OneMore ==
  ASSUME NEW a \in Int, NEW B \in Int
  PROVE  (a + 1) * B = a * B + B
  BY SMTT(30)

LEMMA Monotone ==
  ASSUME NEW a \in Nat, NEW b \in Nat, NEW B \in Nat, a <= b
  PROVE  a * B <= b * B
<1>1. b = a + (b - a) /\ b - a \in Nat
  OBVIOUS
<1>2. (b - a) * B \in Nat
  BY <1>1, SMTT(30)
<1>3. b * B = a * B + (b - a) * B
  BY <1>1, Distribute
<1>4. a * B \in Int
  OBVIOUS
<1> QED
  BY <1>2, <1>3, <1>4

\* A place in a file that fits n banks is in one of them.
LEMMA BankBelow ==
  ASSUME NEW b \in Nat, NEW n \in Nat, NEW B \in Nat, b * B < n * B
  PROVE  b < n
<1>1. SUFFICES ASSUME n <= b PROVE FALSE
  OBVIOUS
<1>2. n * B <= b * B
  BY <1>1, Monotone
<1>3. n * B \in Int /\ b * B \in Int
  OBVIOUS
<1> QED
  BY <1>2, <1>3

LEMMA MediaBanksFit ==
  ASSUME NEW size \in Nat
  PROVE  MediaBanks(size) \in Nat /\ MediaBanks(size) * BankSize >= size
<1>1. BankSize \in Nat \ {0}
  BY CartridgeAssumption DEF CartridgeAssumption
<1> QED
  BY <1>1, Ceiling DEF MediaBanks

\* The banks of a payload hold it and the loader (required_banks).
LEMMA RequiredBanksFit ==
  ASSUME NEW size \in Nat
  PROVE  /\ RequiredBanks(size) \in Nat
         /\ RequiredBanks(size) * BankSize >= BootstrapSize + size
<1> DEFINE capacity == BankSize - BootstrapSize
           remaining == IF size > capacity THEN size - capacity ELSE 0
           extra == (remaining + BankSize - 1) \div BankSize
           needed == 1 + extra
<1>1. /\ BankSize \in Nat \ {0} /\ BootstrapSize \in Nat /\ BootstrapSize < BankSize
      /\ MinimumBanks \in Nat
  BY CartridgeAssumption DEF CartridgeAssumption
<1>2. capacity \in Nat /\ remaining \in Nat /\ BankSize + remaining >= BootstrapSize + size
  BY <1>1
<1>3. extra \in Nat /\ extra * BankSize >= remaining
  BY <1>1, <1>2, Ceiling
<1> HIDE DEF capacity, remaining, extra
<1>4. needed * BankSize = extra * BankSize + BankSize
  BY <1>1, <1>3, OneMore
<1>5. needed * BankSize >= BootstrapSize + size
  <2>1. extra * BankSize \in Int
    BY <1>1, <1>3
  <2> HIDE DEF needed
  <2> QED
    BY <1>1, <1>2, <1>3, <1>4, <2>1
<1>6. RequiredBanks(size) = IF needed > MinimumBanks THEN needed ELSE MinimumBanks
  BY DEF RequiredBanks, capacity, remaining, extra
<1>7. needed \in Nat
  BY <1>3
<1> HIDE DEF needed
<1>8. RequiredBanks(size) \in Nat /\ needed <= RequiredBanks(size)
  BY <1>1, <1>6, <1>7
<1>9. needed * BankSize <= RequiredBanks(size) * BankSize
  BY <1>1, <1>7, <1>8, Monotone
<1>10. needed * BankSize \in Int /\ RequiredBanks(size) * BankSize \in Int
  BY <1>1, <1>7, <1>8
<1> QED
  BY <1>1, <1>5, <1>8, <1>9, <1>10

----------------------------------------------------------------------------
(***************************************************************************)
(* The inductive invariant.                                                *)
(***************************************************************************)
Stages == {"build", "check", "copy", "clear", "media", "entered"}

FilesOK ==
  /\ payload \in Payloads /\ media \in Medias
  /\ stage \in Stages
  /\ include = {} \/ \E f \in InputSet : include = {f}
  /\ stage = "build" => crt = {}
  /\ stage # "build" => \E f, g \in InputSet : include = {f} /\ crt = {g}

MachineOK ==
  /\ bank \in Nat /\ mapped \in Nat /\ left \in Nat /\ dest \in Nat
  /\ source \in 0 .. BankSize - 1
  /\ ram \in [0 .. RamSize - 1 -> Bytes]
  /\ reu \in [0 .. ReuSize - 1 -> Bytes]

\* Where the cursors stand, by the sizes f the loader was assembled with.
CursorsAt(f) ==
  /\ stage \in {"build", "check"} =>
       bank = 0 /\ mapped = 0 /\ source = BootstrapSize /\ dest = 0
  /\ stage = "copy" =>
       /\ left > 0 /\ dest + left = f.payload.size /\ mapped = bank
       /\ bank * BankSize + source = BootstrapSize + dest
  /\ stage = "clear" => left <= f.payload.bss
  /\ stage = "media" =>
       /\ left \in 1 .. MediaBanks(f.media.size)
       /\ bank = RequiredBanks(f.payload.size) + MediaBanks(f.media.size) - left

\* What has arrived, if g is on the cartridge and known to the loader.
Copied(g, n) == \A i \in 0 .. n - 1 : ram[i] = FromPayload(g.payload, i)
ClearUpTo(g, n) == \A i \in g.payload.size .. g.payload.size + n - 1 : ram[i] = Zero
Staged(g, n) == \A i \in 0 .. g.media.size - 1 : i < n => reu[i] = FromMedia(g.media, i)
InBanks(g) == RequiredBanks(g.payload.size) + MediaBanks(g.media.size) <= DisableBank

Arrived(g) ==
  /\ stage = "copy" => Copied(g, dest)
  /\ stage \in {"clear", "media", "entered"} => Copied(g, g.payload.size)
  /\ stage = "clear" => ClearUpTo(g, g.payload.bss - left)
  /\ stage \in {"media", "entered"} => ClearUpTo(g, g.payload.bss)
  /\ InBanks(g) /\ stage = "media" =>
       Staged(g, (MediaBanks(g.media.size) - left) * BankSize)
  /\ InBanks(g) /\ stage = "entered" => Staged(g, g.media.size)

Cursors == \A f \in InputSet : (include = {f} \/ stage = "build") => CursorsAt(f)
Contents == \A g \in InputSet : include = {g} /\ crt = {g} => Arrived(g)

IInv == FilesOK /\ MachineOK /\ Cursors /\ Contents

----------------------------------------------------------------------------
LEMMA ChosenOne ==
  ASSUME NEW x
  PROVE  Chosen({x}) = x
  BY DEF Chosen

LEMMA Sizes ==
  ASSUME NEW f \in InputSet
  PROVE  /\ f.payload \in Payloads /\ f.media \in Medias
         /\ f.payload.size \in Nat \ {0} /\ f.payload.bss \in Nat /\ f.media.size \in Nat
         /\ f.payload.size + f.payload.bss <= RamSize
         /\ RequiredBanks(f.payload.size) <= DisableBank
         /\ f.media.size <= ReuSize
         /\ f.payload.version \in 0 .. 2 /\ f.media.version \in 0 .. 2
<1>1. f.payload \in Payloads /\ f.media \in Medias
  BY DEF InputSet
<1>2. /\ f.payload.size \in PayloadSizes /\ f.payload.bss \in BssSizes
      /\ f.media.size \in MediaSizes
      /\ f.payload.version \in 1 .. 2 /\ f.media.version \in 1 .. 2
  BY <1>1 DEF Payloads, Medias
<1>3. /\ PayloadSizes \subseteq Nat \ {0} /\ BssSizes \subseteq Nat /\ MediaSizes \subseteq Nat
      /\ \A p \in PayloadSizes, b \in BssSizes : p + b <= RamSize
      /\ \A p \in PayloadSizes : RequiredBanks(p) <= DisableBank
      /\ \A m \in MediaSizes : m <= ReuSize
  BY CartridgeAssumption DEF CartridgeAssumption
<1>4. f.payload.size \in Nat \ {0} /\ f.payload.bss \in Nat /\ f.media.size \in Nat
  BY <1>2, <1>3
<1>5. /\ f.payload.size + f.payload.bss <= RamSize
      /\ RequiredBanks(f.payload.size) <= DisableBank
      /\ f.media.size <= ReuSize
  BY <1>2, <1>3
<1>6. f.payload.version \in 0 .. 2 /\ f.media.version \in 0 .. 2
  BY <1>2
<1> QED
  BY <1>1, <1>4, <1>5, <1>6

LEMMA Constant ==
  /\ BankSize \in Nat \ {0} /\ BootstrapSize \in Nat /\ BootstrapSize < BankSize
  /\ MinimumBanks \in Nat /\ DisableBank \in Nat /\ RamSize \in Nat /\ ReuSize \in Nat
  BY CartridgeAssumption DEF CartridgeAssumption

\* What a bank holds, as build fills it from the files g.
LEMMA RomFacts ==
  ASSUME NEW g \in InputSet, crt = {g}, NEW b \in Nat, NEW offset \in 0 .. BankSize - 1
  PROVE  /\ Rom(b, offset) \in Bytes
         /\ \A i \in 0 .. g.payload.size - 1 :
              b * BankSize + offset = BootstrapSize + i /\ b < RequiredBanks(g.payload.size)
                => Rom(b, offset) = FromPayload(g.payload, i)
         /\ \A i \in 0 .. g.media.size - 1, k \in Nat :
              (/\ b = RequiredBanks(g.payload.size) + k
               /\ k < MediaBanks(g.media.size) /\ i = k * BankSize + offset)
                => Rom(b, offset) = FromMedia(g.media, i)
         /\ BankCount = RequiredBanks(g.payload.size) + MediaBanks(g.media.size)
<1> DEFINE first == RequiredBanks(g.payload.size)
           inPayload == b * BankSize + offset - BootstrapSize
           inMedia == (b - first) * BankSize + offset
           count == first + MediaBanks(g.media.size)
<1>1. Crt = g
  BY ChosenOne DEF Crt
<1>2. BankCount = count
  BY <1>1 DEF BankCount
<1>3. Rom(b, offset) =
        IF b < first /\ inPayload \in 0 .. g.payload.size - 1
          THEN FromPayload(g.payload, inPayload)
        ELSE IF b >= first /\ b < count /\ inMedia < g.media.size
          THEN FromMedia(g.media, inMedia)
        ELSE Fill
  BY <1>1, <1>2 DEF Rom
<1>4. first \in Nat /\ MediaBanks(g.media.size) \in Nat
  BY Sizes, RequiredBanksFit, MediaBanksFit
<1>5. inPayload \in Int /\ inMedia \in Int /\ (b >= first => inMedia \in Nat)
  <2>1. b * BankSize \in Int /\ (b - first) * BankSize \in Int
    BY <1>4, Constant
  <2>2. b >= first => (b - first) * BankSize \in Nat
    BY <1>4, Constant, SMTT(30)
  <2> QED
    BY <2>1, <2>2, Constant
<1>6. \A n \in Nat : FromPayload(g.payload, n) \in Bytes /\ FromMedia(g.media, n) \in Bytes
  BY Sizes DEF FromPayload, FromMedia, Bytes, Sources
<1>7. Fill \in Bytes
  BY DEF Fill, Bytes, Sources
<1>8. ASSUME NEW i \in 0 .. g.payload.size - 1,
             b * BankSize + offset = BootstrapSize + i, b < first
      PROVE  Rom(b, offset) = FromPayload(g.payload, i)
  <2>1. inPayload = i
    BY <1>8, Constant, Sizes
  <2> HIDE DEF inPayload, inMedia, count, first
  <2> QED
    BY <1>3, <1>8, <2>1
<1>9. ASSUME NEW i \in 0 .. g.media.size - 1, NEW k \in Nat,
             b = first + k, k < MediaBanks(g.media.size), i = k * BankSize + offset
      PROVE  Rom(b, offset) = FromMedia(g.media, i)
  <2>1. b - first = k /\ b >= first /\ b < count
    BY <1>4, <1>9
  <2>2. inMedia = i /\ i < g.media.size
    BY <1>9, <2>1, Sizes
  <2>3. ~(b < first)
    BY <1>4, <2>1
  <2> HIDE DEF inPayload, inMedia, count, first
  <2> QED
    BY <1>3, <2>1, <2>2, <2>3
<1>10. Rom(b, offset) \in Bytes
  <2>1. inPayload \in 0 .. g.payload.size - 1 => inPayload \in Nat
    BY Sizes
  <2> HIDE DEF inPayload, inMedia, count, first
  <2> QED
    BY <1>3, <1>5, <1>6, <1>7, <2>1
<1>11. \A i \in 0 .. g.payload.size - 1 :
              b * BankSize + offset = BootstrapSize + i /\ b < RequiredBanks(g.payload.size)
                => Rom(b, offset) = FromPayload(g.payload, i)
  BY <1>8
<1>12. \A i \in 0 .. g.media.size - 1, k \in Nat :
              (/\ b = RequiredBanks(g.payload.size) + k
               /\ k < MediaBanks(g.media.size) /\ i = k * BankSize + offset)
                => Rom(b, offset) = FromMedia(g.media, i)
  BY <1>9
<1>13. BankCount = RequiredBanks(g.payload.size) + MediaBanks(g.media.size)
  BY <1>2
<1> QED
  BY <1>10, <1>11, <1>12, <1>13, Zenon

LEMMA WindowFacts ==
  ASSUME IInv, stage = "copy", NEW f \in InputSet, NEW g \in InputSet,
         include = {f}, crt = {g}
  PROVE  /\ Window(source) \in Bytes
         /\ f = g => Window(source) = FromPayload(g.payload, dest)
<1>1. /\ mapped \in Nat /\ bank \in Nat /\ dest \in Nat /\ left \in Nat
      /\ source \in 0 .. BankSize - 1
  BY DEF IInv, MachineOK
<1>2. /\ left > 0 /\ dest + left = f.payload.size /\ mapped = bank
      /\ bank * BankSize + source = BootstrapSize + dest
  BY DEF IInv, Cursors, CursorsAt
<1>3. Foreign \in Bytes
  BY DEF Foreign, Bytes, Sources
<1>4. Window(source) \in Bytes
  BY <1>1, <1>3, RomFacts DEF Window
<1>5. ASSUME f = g
      PROVE  Window(source) = FromPayload(g.payload, dest)
  <2>1. dest \in 0 .. g.payload.size - 1
    BY <1>1, <1>2, <1>5, Sizes
  <2>2. bank * BankSize < RequiredBanks(g.payload.size) * BankSize
    <3>1. /\ RequiredBanks(g.payload.size) \in Nat
          /\ RequiredBanks(g.payload.size) * BankSize >= BootstrapSize + g.payload.size
      BY Sizes, RequiredBanksFit
    <3>2. bank * BankSize \in Int /\ RequiredBanks(g.payload.size) * BankSize \in Int
      BY <1>1, <3>1, Constant
    <3> QED
      BY <1>1, <1>2, <2>1, <3>1, <3>2, Constant, Sizes
  <2>3. bank < RequiredBanks(g.payload.size)
    BY <1>1, <2>2, BankBelow, RequiredBanksFit, Sizes, Constant
  <2>4. Rom(mapped, source) = FromPayload(g.payload, dest)
    BY <1>1, <1>2, <2>1, <2>3, RomFacts
  <2>5. mapped < DisableBank /\ mapped < BankCount
    <3>1. BankCount = RequiredBanks(g.payload.size) + MediaBanks(g.media.size)
      BY <1>1, RomFacts
    <3>2. /\ RequiredBanks(g.payload.size) \in Nat /\ MediaBanks(g.media.size) \in Nat
          /\ RequiredBanks(g.payload.size) <= DisableBank
      BY Sizes, RequiredBanksFit, MediaBanksFit
    <3> QED
      BY <1>1, <1>2, <2>3, <3>1, <3>2, Constant
  <2> QED
    BY <2>4, <2>5 DEF Window
<1> QED
  BY <1>4, <1>5

----------------------------------------------------------------------------
(***************************************************************************)
(* The building of the cartridge.                                          *)
(***************************************************************************)
LEMMA InitInvariant ==
  ASSUME Init
  PROVE  IInv
<1>1. payload \in Payloads /\ media \in Medias
  BY DEF Init, File, Payloads, Medias
<1>2. FilesOK
  BY <1>1 DEF Init, FilesOK, Stages
<1>3. Foreign \in Bytes
  BY DEF Foreign, Bytes, Sources
<1>4. MachineOK
  BY <1>3, Constant DEF Init, MachineOK
<1>5. Cursors
  BY DEF Init, Cursors, CursorsAt
<1>6. Contents
  BY DEF Init, Contents
<1> QED
  BY <1>2, <1>4, <1>5, <1>6 DEF IInv

\* The tools leave the machine as it is: off.
LEMMA BuildStep ==
  ASSUME IInv, Build
  PROVE  IInv'
<1>1. stage = "build" /\ crt = {} /\ UNCHANGED machine
  BY DEF IInv, FilesOK, Build, GenerateInclude, EditPayload, EditMedia, BuildCrt
<1>2. Inputs \in InputSet
  BY DEF IInv, FilesOK, Inputs, InputSet
<1>3. FilesOK'
  <2>1. CASE GenerateInclude
    BY <1>1, <1>2, <2>1 DEF GenerateInclude, IInv, FilesOK
  <2>2. CASE EditPayload
    <3>1. payload' \in Payloads
      BY <2>2 DEF EditPayload, File, Payloads
    <3> QED
      BY <1>1, <2>2, <3>1 DEF EditPayload, IInv, FilesOK
  <2>3. CASE EditMedia
    <3>1. media' \in Medias
      BY <2>3 DEF EditMedia, File, Medias
    <3> QED
      BY <1>1, <2>3, <3>1 DEF EditMedia, IInv, FilesOK
  <2>4. CASE BuildCrt
    <3>1. PICK f \in InputSet : include = {f}
      BY <2>4 DEF BuildCrt, IInv, FilesOK
    <3>2. include' = {f} /\ crt' = {Inputs} /\ stage' = "check"
      BY <2>4, <3>1 DEF BuildCrt
    <3>3. payload' \in Payloads /\ media' \in Medias
      BY <2>4 DEF BuildCrt, IInv, FilesOK
    <3> QED
      BY <1>2, <3>2, <3>3 DEF FilesOK, Stages
  <2> QED
    BY <2>1, <2>2, <2>3, <2>4 DEF Build
<1>4. MachineOK'
  BY <1>1 DEF machine, IInv, MachineOK
<1>5. stage' \in {"build", "check"}
  BY <1>1 DEF Build, GenerateInclude, EditPayload, EditMedia, BuildCrt
<1>6. bank' = 0 /\ mapped' = 0 /\ source' = BootstrapSize /\ dest' = 0
  <2>1. CursorsAt(Inputs)
    BY <1>1, <1>2 DEF IInv, Cursors
  <2> QED
    BY <1>1, <2>1 DEF CursorsAt, machine
<1>7. Cursors'
  BY <1>5, <1>6 DEF Cursors, CursorsAt
<1>8. Contents'
  BY <1>5 DEF Contents, Arrived
<1> QED
  BY <1>3, <1>4, <1>7, <1>8 DEF IInv

----------------------------------------------------------------------------
(***************************************************************************)
(* The loader.  From here on the files stay as they are: f is what the     *)
(* loader was assembled with, g is what is on the cartridge.               *)
(***************************************************************************)
LEMMA FilesStay ==
  ASSUME IInv, UNCHANGED files, stage # "build", stage' \in Stages, stage' # "build"
  PROVE  /\ FilesOK'
         /\ \E f, g \in InputSet :
              /\ include = {f} /\ crt = {g} /\ include' = {f} /\ crt' = {g}
              /\ Constants = f /\ Crt = g
              /\ CursorsAt(f) /\ (f = g => Arrived(g))
              /\ CursorsAt(f)' => Cursors'
              /\ (f = g => Arrived(g)') => Contents'
<1>1. PICK f, g \in InputSet : include = {f} /\ crt = {g}
  BY DEF IInv, FilesOK
<1>2. include' = {f} /\ crt' = {g}
  BY <1>1 DEF files
<1>3. Constants = f /\ Crt = g
  BY <1>1, ChosenOne DEF Constants, Crt
<1>4. FilesOK'
  BY <1>2 DEF files, IInv, FilesOK
<1>5. CursorsAt(f)
  BY <1>1 DEF IInv, Cursors
<1>6. f = g => Arrived(g)
  BY <1>1 DEF IInv, Contents
<1>7. \A x \in InputSet : include' = {x} => x = f
  BY <1>2
<1>8. CursorsAt(f)' => Cursors'
  BY <1>7 DEF Cursors
<1>9. (f = g => Arrived(g)') => Contents'
  <2> SUFFICES ASSUME f = g => Arrived(g)', NEW x \in InputSet, include' = {x}, crt' = {x}
               PROVE  Arrived(x)'
    BY DEF Contents
  <2>1. x = f /\ x = g
    BY <1>2
  <2> QED
    BY <2>1
<1> QED
  BY <1>1, <1>2, <1>3, <1>4, <1>5, <1>6, <1>8, <1>9

LEMMA CheckStep ==
  ASSUME IInv, Check
  PROVE  IInv'
<1>1. /\ stage = "check" /\ stage' = "copy" /\ left' = Chosen(include).payload.size
      /\ UNCHANGED <<files, bank, mapped, source, dest, ram, reu>>
  BY DEF Check
<1>2. /\ FilesOK'
      /\ \E f, g \in InputSet :
              /\ include = {f} /\ crt = {g} /\ include' = {f} /\ crt' = {g}
              /\ Constants = f /\ Crt = g
              /\ CursorsAt(f) /\ (f = g => Arrived(g))
              /\ CursorsAt(f)' => Cursors'
              /\ (f = g => Arrived(g)') => Contents'
  BY <1>1, FilesStay DEF Stages
<1>3. PICK f, g \in InputSet :
              /\ Constants = f
              /\ CursorsAt(f)
              /\ CursorsAt(f)' => Cursors'
              /\ (f = g => Arrived(g)') => Contents'
  BY <1>2
<1>4. left' = f.payload.size /\ f.payload.size \in Nat \ {0}
  BY <1>1, <1>3, Sizes DEF Constants
<1>5. bank' = 0 /\ mapped' = 0 /\ source' = BootstrapSize /\ dest' = 0
  BY <1>1, <1>3 DEF CursorsAt
<1>6. MachineOK'
  BY <1>1, <1>4 DEF IInv, MachineOK
<1>7. CursorsAt(f)'
  BY <1>1, <1>4, <1>5, Constant DEF CursorsAt
<1>8. Arrived(g)'
  BY <1>1, <1>5 DEF Arrived, Copied
<1> QED
  BY <1>2, <1>3, <1>6, <1>7, <1>8 DEF IInv

LEMMA CopyStep ==
  ASSUME IInv, CopyByte
  PROVE  IInv'
<1> DEFINE end == source + 1 = BankSize
<1>1. /\ stage = "copy"
      /\ ram' = [ram EXCEPT ![dest] = Window(source)]
      /\ dest' = dest + 1
      /\ UNCHANGED <<files, reu>>
      /\ IF end THEN bank' = bank + 1 /\ mapped' = bank' /\ source' = 0
                ELSE source' = source + 1 /\ UNCHANGED <<bank, mapped>>
      /\ IF left = 1 THEN stage' = "clear" /\ left' = Constants.payload.bss
                     ELSE left' = left - 1 /\ UNCHANGED stage
  BY DEF CopyByte
<1>2. stage # "build" /\ stage' \in Stages /\ stage' # "build"
  BY <1>1 DEF Stages
<1>3. FilesOK'
  BY <1>1, <1>2, FilesStay
<1>4. PICK f, g \in InputSet :
        /\ include = {f} /\ crt = {g}
        /\ Constants = f
        /\ CursorsAt(f) /\ (f = g => Arrived(g))
        /\ CursorsAt(f)' => Cursors'
        /\ (f = g => Arrived(g)') => Contents'
  BY <1>1, <1>2, FilesStay
<1>5. /\ mapped \in Nat /\ bank \in Nat /\ dest \in Nat /\ left \in Nat
      /\ source \in 0 .. BankSize - 1
      /\ ram \in [0 .. RamSize - 1 -> Bytes] /\ reu \in [0 .. ReuSize - 1 -> Bytes]
  BY DEF IInv, MachineOK
<1>6. /\ left > 0 /\ dest + left = f.payload.size /\ mapped = bank
      /\ bank * BankSize + source = BootstrapSize + dest
  BY <1>1, <1>4 DEF CursorsAt
<1>7. /\ Window(source) \in Bytes
      /\ f = g => Window(source) = FromPayload(g.payload, dest)
  BY <1>1, <1>4, WindowFacts
<1>8. /\ bank' \in Nat /\ mapped' = bank' /\ source' \in 0 .. BankSize - 1
      /\ bank' * BankSize + source' = BootstrapSize + dest'
  <2>1. CASE end
    <3>1. bank' = bank + 1 /\ source' = 0 /\ mapped' = bank'
      BY <1>1, <2>1
    <3>2. (bank + 1) * BankSize = bank * BankSize + BankSize
      BY <1>5, Constant, OneMore
    <3>3. bank * BankSize \in Int
      BY <1>5, Constant
    <3>4. bank' * BankSize + source' = BootstrapSize + dest'
      <4>1. source + 1 = BankSize
        BY <2>1
      <4>2. bank' * BankSize = bank * BankSize + BankSize
        BY <3>1, <3>2
      <4> QED
        BY <1>1, <1>5, <1>6, <3>1, <3>3, <4>1, <4>2, Constant
    <3> QED
      BY <1>5, <3>1, <3>4, Constant
  <2>2. CASE ~end
    <3>1. bank' = bank /\ mapped' = mapped /\ source' = source + 1
      BY <1>1, <2>2
    <3>2. bank * BankSize \in Int
      BY <1>5, Constant
    <3> QED
      BY <1>1, <1>5, <1>6, <2>2, <3>1, <3>2, Constant
  <2> QED
    BY <2>1, <2>2
<1>9. dest' \in Nat /\ dest \in 0 .. RamSize - 1 /\ dest < f.payload.size
  BY <1>1, <1>4, <1>5, <1>6, Sizes, Constant
<1>10. ram' \in [0 .. RamSize - 1 -> Bytes] /\ reu' = reu
  BY <1>1, <1>5, <1>7, <1>9
<1>11. f.payload.bss \in Nat /\ f.payload.size \in Nat
  BY <1>4, Sizes
<1>12. left' \in Nat
  BY <1>1, <1>4, <1>5, <1>6, <1>11
<1>13. MachineOK'
  BY <1>5, <1>8, <1>9, <1>10, <1>12 DEF MachineOK
<1>14. CursorsAt(f)'
  <2>1. CASE left = 1
    BY <1>1, <1>4, <1>11, <2>1 DEF CursorsAt
  <2>2. CASE left # 1
    <3>1. stage' = "copy" /\ left' = left - 1
      BY <1>1, <2>2
    <3>2. left' > 0 /\ dest' + left' = f.payload.size
      BY <1>1, <1>5, <1>6, <2>2, <3>1
    <3> QED
      BY <1>8, <3>1, <3>2 DEF CursorsAt
  <2> QED
    BY <2>1, <2>2
<1>15. ASSUME f = g
       PROVE  Arrived(g)'
  <2>1. Copied(g, dest)
    BY <1>1, <1>4, <1>15 DEF Arrived
  <2>2. Copied(g, dest)'
    <3> SUFFICES ASSUME NEW i \in 0 .. dest' - 1
                 PROVE  ram'[i] = FromPayload(g.payload, i)
      BY DEF Copied, FromPayload
    <3>1. CASE i = dest
      BY <1>1, <1>5, <1>7, <1>9, <1>15, <3>1
    <3>2. CASE i # dest
      <4>1. i \in 0 .. dest - 1
        BY <1>1, <1>5, <3>2
      <4>2. ram'[i] = ram[i]
        BY <1>1, <1>5, <1>9, <3>2, <4>1
      <4> QED
        BY <2>1, <4>1, <4>2 DEF Copied
    <3> QED
      BY <3>1, <3>2
  <2>3. CASE left = 1
    <3>1. stage' = "clear" /\ left' = g.payload.bss
      BY <1>1, <1>4, <1>15, <2>3
    <3>2. dest' = g.payload.size
      BY <1>1, <1>5, <1>6, <1>15, <2>3
    <3>3. ClearUpTo(g, g.payload.bss - left)'
      BY <3>1, <1>11, <1>15 DEF ClearUpTo
    <3> QED
      BY <2>2, <3>1, <3>2, <3>3 DEF Arrived
  <2>4. CASE left # 1
    <3>1. stage' = "copy"
      BY <1>1, <2>4
    <3> QED
      BY <2>2, <3>1 DEF Arrived
  <2> QED
    BY <2>3, <2>4
<1> QED
  BY <1>3, <1>4, <1>13, <1>14, <1>15 DEF IInv

LEMMA ClearStep ==
  ASSUME IInv, ClearByte
  PROVE  IInv'
<1> DEFINE place(f) == f.payload.size + f.payload.bss - left
<1>1. /\ stage = "clear" /\ left > 0 /\ left' = left - 1
      /\ ram' = [ram EXCEPT ![Constants.payload.size + Constants.payload.bss - left] = Zero]
      /\ UNCHANGED <<files, stage, bank, mapped, source, dest, reu>>
  BY DEF ClearByte
<1>2. stage # "build" /\ stage' \in Stages /\ stage' # "build"
  BY <1>1 DEF Stages
<1>3. FilesOK'
  BY <1>1, <1>2, FilesStay
<1>4. PICK f, g \in InputSet :
        /\ Constants = f
        /\ CursorsAt(f) /\ (f = g => Arrived(g))
        /\ CursorsAt(f)' => Cursors'
        /\ (f = g => Arrived(g)') => Contents'
  BY <1>1, <1>2, FilesStay
<1>5. left \in Nat /\ ram \in [0 .. RamSize - 1 -> Bytes]
  BY DEF IInv, MachineOK
<1>6. left <= f.payload.bss /\ f.payload.bss \in Nat /\ f.payload.size \in Nat
  BY <1>1, <1>4, Sizes DEF CursorsAt
<1>7. Zero \in Bytes
  BY DEF Zero, Bytes, Sources
<1>8. ram' = [ram EXCEPT ![place(f)] = Zero]
  BY <1>1, <1>4
<1>9. ram' \in [0 .. RamSize - 1 -> Bytes] /\ left' \in Nat
  <2>1. left' \in Nat
    BY <1>1, <1>5
  <2> HIDE DEF place
  <2>2. ram' \in [0 .. RamSize - 1 -> Bytes]
    BY <1>5, <1>7, <1>8
  <2> QED
    BY <2>1, <2>2
<1>10. MachineOK'
  BY <1>1, <1>9 DEF IInv, MachineOK
<1>11. CursorsAt(f)'
  BY <1>1, <1>5, <1>6 DEF CursorsAt
<1>12. ASSUME f = g
       PROVE  Arrived(g)'
  <2>1. Copied(g, g.payload.size) /\ ClearUpTo(g, g.payload.bss - left)
    BY <1>1, <1>4, <1>12 DEF Arrived
  <2>2. Copied(g, g.payload.size)'
    <3> SUFFICES ASSUME NEW i \in 0 .. g.payload.size - 1
                 PROVE  ram'[i] = FromPayload(g.payload, i)
      BY DEF Copied, FromPayload
    <3>1. i # place(f) /\ i \in 0 .. RamSize - 1
      BY <1>4, <1>5, <1>6, <1>12, Sizes, Constant
    <3>2. ram'[i] = ram[i]
      BY <1>5, <1>8, <3>1
    <3> QED
      BY <2>1, <3>2 DEF Copied
  <2>3. ClearUpTo(g, g.payload.bss - left)'
    <3> SUFFICES ASSUME NEW i \in g.payload.size .. g.payload.size + (g.payload.bss - left') - 1
                 PROVE  ram'[i] = Zero
      BY DEF ClearUpTo, Zero
    <3>1. i \in 0 .. RamSize - 1
      BY <1>1, <1>5, <1>6, <1>12, Sizes, Constant
    <3>2. CASE i = place(f)
      BY <1>5, <1>8, <3>1, <3>2
    <3>3. CASE i # place(f)
      <4>1. i \in g.payload.size .. g.payload.size + (g.payload.bss - left) - 1
        BY <1>1, <1>5, <1>6, <1>12, <3>3
      <4>2. ram'[i] = ram[i]
        BY <1>5, <1>8, <3>1, <3>3
      <4> QED
        BY <2>1, <4>1, <4>2 DEF ClearUpTo
    <3> QED
      BY <3>2, <3>3
  <2> QED
    BY <1>1, <2>2, <2>3 DEF Arrived
<1> QED
  BY <1>3, <1>4, <1>10, <1>11, <1>12 DEF IInv

LEMMA ClearedStep ==
  ASSUME IInv, Cleared
  PROVE  IInv'
<1>1. /\ stage = "clear" /\ left = 0
      /\ UNCHANGED <<files, source, dest, ram, reu>>
      /\ IF Constants.media.size = 0
           THEN stage' = "entered" /\ mapped' = DisableBank /\ UNCHANGED <<bank, left>>
           ELSE /\ stage' = "media"
                /\ bank' = RequiredBanks(Constants.payload.size)
                /\ left' = MediaBanks(Constants.media.size)
                /\ UNCHANGED mapped
  BY DEF Cleared
<1>2. stage # "build" /\ stage' \in Stages /\ stage' # "build"
  BY <1>1 DEF Stages
<1>3. FilesOK'
  BY <1>1, <1>2, FilesStay
<1>4. PICK f, g \in InputSet :
        /\ Constants = f
        /\ CursorsAt(f) /\ (f = g => Arrived(g))
        /\ CursorsAt(f)' => Cursors'
        /\ (f = g => Arrived(g)') => Contents'
  BY <1>1, <1>2, FilesStay
<1>5. /\ f.payload.size \in Nat /\ f.payload.bss \in Nat /\ f.media.size \in Nat
      /\ RequiredBanks(f.payload.size) \in Nat /\ MediaBanks(f.media.size) \in Nat
      /\ MediaBanks(f.media.size) * BankSize >= f.media.size
  BY <1>4, Sizes, RequiredBanksFit, MediaBanksFit
<1>6. f.media.size # 0 => MediaBanks(f.media.size) >= 1
  <2> SUFFICES ASSUME f.media.size # 0, MediaBanks(f.media.size) = 0 PROVE FALSE
    BY <1>5
  <2>1. MediaBanks(f.media.size) * BankSize = 0
    BY Constant
  <2> QED
    BY <1>5, <2>1
<1>7. MachineOK'
  BY <1>1, <1>4, <1>5, Constant DEF IInv, MachineOK
<1>8. CursorsAt(f)'
  <2>1. CASE f.media.size = 0
    BY <1>1, <1>4, <2>1 DEF CursorsAt
  <2>2. CASE f.media.size # 0
    BY <1>1, <1>4, <1>5, <1>6, <2>2 DEF CursorsAt
  <2> QED
    BY <2>1, <2>2
<1>9. ASSUME f = g
      PROVE  Arrived(g)'
  <2>1. Copied(g, g.payload.size) /\ ClearUpTo(g, g.payload.bss)
    <3>1. g.payload.bss - left = g.payload.bss
      BY <1>1, <1>5, <1>9
    <3> QED
      BY <1>1, <1>4, <1>9, <3>1 DEF Arrived
  <2>2. Copied(g, g.payload.size)' /\ ClearUpTo(g, g.payload.bss)'
    BY <1>1, <2>1 DEF Copied, ClearUpTo
  <2>3. CASE g.media.size = 0
    <3>1. stage' = "entered"
      BY <1>1, <1>4, <1>9, <2>3
    <3>2. Staged(g, g.media.size)'
      BY <2>3 DEF Staged
    <3> QED
      BY <2>2, <3>1, <3>2 DEF Arrived
  <2>4. CASE g.media.size # 0
    <3>1. stage' = "media" /\ left' = MediaBanks(g.media.size)
      BY <1>1, <1>4, <1>9, <2>4
    <3>2. (MediaBanks(g.media.size) - left') * BankSize = 0
      BY <1>5, <1>9, <3>1, Constant
    <3>3. Staged(g, (MediaBanks(g.media.size) - left) * BankSize)'
      BY <3>2 DEF Staged
    <3> QED
      BY <2>2, <3>1, <3>3 DEF Arrived
  <2> QED
    BY <2>3, <2>4
<1> QED
  BY <1>3, <1>4, <1>7, <1>8, <1>9 DEF IInv

\* A bank of the disk goes where the REU's own address stands.
LEMMA StageStep ==
  ASSUME IInv, StageBank
  PROVE  IInv'
<1> DEFINE there(offset) == IF bank < DisableBank /\ bank < BankCount
                              THEN Rom(bank, offset) ELSE Foreign
           at(f) == (MediaBanks(f.media.size) - left) * BankSize
<1>1. /\ stage = "media" /\ bank' = bank + 1 /\ left' = left - 1
      /\ reu' = [i \in DOMAIN reu |->
                   IF i \in at(Constants) .. at(Constants) + BankSize - 1
                     THEN there(i - at(Constants)) ELSE reu[i]]
      /\ IF left = 1 THEN stage' = "entered" /\ mapped' = DisableBank
                     ELSE mapped' = bank /\ UNCHANGED stage
      /\ UNCHANGED <<files, source, dest, ram>>
  BY DEF StageBank
<1>2. stage # "build" /\ stage' \in Stages /\ stage' # "build"
  BY <1>1 DEF Stages
<1>3. FilesOK'
  BY <1>1, <1>2, FilesStay
<1>4. PICK f, g \in InputSet :
        /\ crt = {g}
        /\ Constants = f
        /\ CursorsAt(f) /\ (f = g => Arrived(g))
        /\ CursorsAt(f)' => Cursors'
        /\ (f = g => Arrived(g)') => Contents'
  BY <1>1, <1>2, FilesStay
<1>5. bank \in Nat /\ left \in Nat /\ reu \in [0 .. ReuSize - 1 -> Bytes]
  BY DEF IInv, MachineOK
<1>6. /\ left \in 1 .. MediaBanks(f.media.size)
      /\ bank = RequiredBanks(f.payload.size) + MediaBanks(f.media.size) - left
  BY <1>1, <1>4 DEF CursorsAt
<1>7. /\ RequiredBanks(f.payload.size) \in Nat /\ MediaBanks(f.media.size) \in Nat
      /\ MediaBanks(f.media.size) * BankSize >= f.media.size
      /\ f.media.size \in Nat /\ f.media.size <= ReuSize
  BY <1>4, Sizes, RequiredBanksFit, MediaBanksFit
<1>8. at(f) \in Nat
  <2>1. MediaBanks(f.media.size) - left \in Nat
    BY <1>6, <1>7
  <2> QED
    BY <2>1, Constant, SMTT(30)
<1>9. \A offset \in 0 .. BankSize - 1 : there(offset) \in Bytes
  <2>1. Foreign \in Bytes
    BY DEF Foreign, Bytes, Sources
  <2> QED
    BY <1>4, <1>5, <2>1, RomFacts
<1>10. reu' = [i \in 0 .. ReuSize - 1 |->
                 IF i \in at(f) .. at(f) + BankSize - 1 THEN there(i - at(f)) ELSE reu[i]]
  BY <1>1, <1>4, <1>5
<1>11. reu' \in [0 .. ReuSize - 1 -> Bytes]
  <2> SUFFICES ASSUME NEW i \in 0 .. ReuSize - 1
               PROVE  (IF i \in at(f) .. at(f) + BankSize - 1
                         THEN there(i - at(f)) ELSE reu[i]) \in Bytes
    BY <1>10, Zenon
  <2>1. CASE i \in at(f) .. at(f) + BankSize - 1
    <3> HIDE DEF at, there
    <3>1. i - at(f) \in 0 .. BankSize - 1
      BY <1>8, <2>1, Constant
    <3> QED
      BY <1>9, <2>1, <3>1
  <2>2. CASE i \notin at(f) .. at(f) + BankSize - 1
    <3> HIDE DEF at, there
    <3> QED
      BY <1>5, <2>2
  <2> QED
    BY <2>1, <2>2
<1>12. MachineOK'
  BY <1>1, <1>5, <1>6, <1>11, Constant DEF IInv, MachineOK
<1>13. CursorsAt(f)'
  <2>1. CASE left = 1
    BY <1>1, <2>1 DEF CursorsAt
  <2>2. CASE left # 1
    <3>1. stage' = "media"
      BY <1>1, <2>2
    <3>2. /\ left' \in 1 .. MediaBanks(f.media.size)
          /\ bank' = RequiredBanks(f.payload.size) + MediaBanks(f.media.size) - left'
      BY <1>1, <1>5, <1>6, <1>7, <2>2
    <3> QED
      BY <3>1, <3>2 DEF CursorsAt
  <2> QED
    BY <2>1, <2>2
<1>14. ASSUME f = g, InBanks(g)
       PROVE  \A i \in 0 .. g.media.size - 1 :
                i < at(g) + BankSize => reu'[i] = FromMedia(g.media, i)
  <2> SUFFICES ASSUME NEW i \in 0 .. g.media.size - 1, i < at(g) + BankSize
               PROVE  reu'[i] = FromMedia(g.media, i)
    OBVIOUS
  <2>1. i \in 0 .. ReuSize - 1
    BY <1>7, <1>14, Constant
  <2>2. CASE i < at(g)
    <3>1. Staged(g, at(g))
      BY <1>1, <1>4, <1>14 DEF Arrived
    <3>2. reu[i] = FromMedia(g.media, i)
      BY <2>2, <3>1 DEF Staged
    <3> HIDE DEF at, there
    <3>3. reu'[i] = reu[i]
      BY <1>8, <1>10, <1>14, <2>1, <2>2
    <3> QED
      BY <3>2, <3>3
  <2>3. CASE ~(i < at(g))
    <3> DEFINE k == MediaBanks(g.media.size) - left
               offset == i - at(g)
    <3>1. offset \in 0 .. BankSize - 1 /\ reu'[i] = there(offset)
      <4> HIDE DEF at, there
      <4> QED
        BY <1>8, <1>10, <1>14, <2>1, <2>3, Constant
    <3>2. /\ k \in Nat /\ k < MediaBanks(g.media.size)
          /\ bank = RequiredBanks(g.payload.size) + k
      BY <1>6, <1>7, <1>14
    <3>3. i = k * BankSize + offset
      BY <1>8, <1>14
    <3>4. BankCount = RequiredBanks(g.payload.size) + MediaBanks(g.media.size)
      BY <1>4, <1>5, <3>1, RomFacts
    <3>5. bank < BankCount /\ BankCount <= DisableBank /\ BankCount \in Nat
      BY <1>7, <1>14, <3>2, <3>4 DEF InBanks
    <3>6. there(offset) = Rom(bank, offset)
      BY <1>5, <3>5, Constant
    <3>7. Rom(bank, offset) = FromMedia(g.media, i)
      <4> HIDE DEF k, offset, at, there
      <4> QED
        BY <1>4, <1>5, <3>1, <3>2, <3>3, RomFacts
    <3> QED
      BY <3>1, <3>6, <3>7
  <2> QED
    BY <2>2, <2>3
<1>15. ASSUME f = g
       PROVE  Arrived(g)'
  <2>1. Copied(g, g.payload.size) /\ ClearUpTo(g, g.payload.bss)
    BY <1>1, <1>4, <1>15 DEF Arrived
  <2>2. Copied(g, g.payload.size)' /\ ClearUpTo(g, g.payload.bss)'
    BY <1>1, <2>1 DEF Copied, ClearUpTo
  <2>3. at(g) + BankSize = (MediaBanks(g.media.size) - left') * BankSize
    <3>1. MediaBanks(g.media.size) - left' = (MediaBanks(g.media.size) - left) + 1
      BY <1>1, <1>5, <1>7, <1>15
    <3> QED
      BY <1>5, <1>7, <1>15, <3>1, OneMore, Constant
  <2>4. CASE left = 1
    <3>1. stage' = "entered"
      BY <1>1, <2>4
    <3>2. at(g) + BankSize >= g.media.size
      BY <1>1, <1>7, <1>15, <2>3, <2>4
    <3>3. InBanks(g) => Staged(g, g.media.size)'
      <4> HIDE DEF at
      <4> QED
        BY <1>7, <1>8, <1>14, <1>15, <3>2, Constant DEF Staged, FromMedia
    <3> QED
      BY <2>2, <3>1, <3>3 DEF Arrived, InBanks
  <2>5. CASE left # 1
    <3>1. stage' = "media"
      BY <1>1, <2>5
    <3>2. InBanks(g) => Staged(g, (MediaBanks(g.media.size) - left) * BankSize)'
      <4> HIDE DEF at
      <4> QED
        BY <1>14, <1>15, <2>3 DEF Staged, FromMedia
    <3> QED
      BY <2>2, <3>1, <3>2 DEF Arrived, InBanks
  <2> QED
    BY <2>4, <2>5
<1> QED
  BY <1>3, <1>4, <1>12, <1>13, <1>15 DEF IInv

----------------------------------------------------------------------------
LEMMA InvariantStep ==
  ASSUME IInv, [Next]_vars
  PROVE  IInv'
<1>1. CASE Build
  BY <1>1, BuildStep
<1>2. CASE Boot
  BY <1>2, CheckStep, CopyStep, ClearStep, ClearedStep, StageStep DEF Boot
<1>3. CASE UNCHANGED vars
  <2>1. FilesOK'
    BY <1>3 DEF vars, files, IInv, FilesOK
  <2>2. MachineOK'
    BY <1>3 DEF vars, machine, IInv, MachineOK
  <2>3. Cursors'
    BY <1>3 DEF vars, files, machine, IInv, Cursors, CursorsAt
  <2>4. Contents'
    BY <1>3 DEF vars, files, machine, IInv, Contents, Arrived, Copied, ClearUpTo, Staged, InBanks
  <2> QED
    BY <2>1, <2>2, <2>3, <2>4 DEF IInv
<1> QED
  BY <1>1, <1>2, <1>3 DEF Next, Over

(***************************************************************************)
(* Build and loader keep their cursors together and their copies whole at  *)
(* every step (build, @copy_payload, @clear_bss, @stage_media_bank).       *)
(***************************************************************************)
THEOREM Invariance == Spec => []IInv
  BY InitInvariant, InvariantStep, PTL DEF Spec

(***************************************************************************)
(* Every cursor of the loader and every byte it stores keeps its type,     *)
(* even when the loader was assembled for other files.                     *)
(***************************************************************************)
THEOREM TypeCorrect == Spec => []TypeOK
<1>1. IInv => TypeOK
  <2> SUFFICES ASSUME IInv PROVE TypeOK
    OBVIOUS
  <2>1. payload.size \in PayloadSizes /\ payload.bss \in BssSizes /\ media.size \in MediaSizes
    BY DEF IInv, FilesOK, Payloads, Medias
  <2>2. \A x \in Bytes : x.of \in Sources
    BY DEF Bytes
  <2>3. \A i \in DOMAIN ram : ram[i] \in Bytes
    BY DEF IInv, MachineOK
  <2>4. \A i \in DOMAIN reu : reu[i] \in Bytes
    BY DEF IInv, MachineOK
  <2> QED
    BY <2>1, <2>2, <2>3, <2>4 DEF IInv, FilesOK, MachineOK, TypeOK, Stages
<1> QED
  BY <1>1, Invariance, PTL

(***************************************************************************)
(* The payload arrives whole, for every size of bank, loader, payload and  *)
(* BSS: build_crt cuts it where the copy loop turns over to the next bank. *)
(***************************************************************************)
THEOREM PayloadWhole == Spec => []PayloadArrives
<1>1. IInv => PayloadArrives
  <2> SUFFICES ASSUME IInv, stage = "entered", Matching
               PROVE  /\ \A i \in 0 .. Crt.payload.size - 1 :
                           ram[i] = FromPayload(Crt.payload, i)
                      /\ \A i \in Crt.payload.size .. Crt.payload.size + Crt.payload.bss - 1 :
                           ram[i] = Zero
    BY DEF PayloadArrives
  <2>1. PICK g \in InputSet : include = {g} /\ crt = {g}
    BY DEF IInv, FilesOK, Matching
  <2>2. Crt = g
    BY <2>1, ChosenOne DEF Crt
  <2>3. Copied(g, g.payload.size) /\ ClearUpTo(g, g.payload.bss)
    BY <2>1 DEF IInv, Contents, Arrived
  <2> QED
    BY <2>2, <2>3 DEF Copied, ClearUpTo
<1> QED
  BY <1>1, Invariance, PTL

(***************************************************************************)
(* The disk arrives whole, if the register that selects a bank can count   *)
(* the banks of the cartridge: the loader finds its first bank where       *)
(* build_crt put it.                                                       *)
(***************************************************************************)
THEOREM MediaWhole == Spec => []MediaArrives
<1>1. IInv => MediaArrives
  <2> SUFFICES ASSUME IInv, stage = "entered", Matching, BankCount <= DisableBank
               PROVE  \A i \in 0 .. Crt.media.size - 1 : reu[i] = FromMedia(Crt.media, i)
    BY DEF MediaArrives
  <2>1. PICK g \in InputSet : include = {g} /\ crt = {g}
    BY DEF IInv, FilesOK, Matching
  <2>2. Crt = g
    BY <2>1, ChosenOne DEF Crt
  <2>3. InBanks(g)
    BY <2>2 DEF BankCount, InBanks
  <2>4. Staged(g, g.media.size)
    BY <2>1, <2>3 DEF IInv, Contents, Arrived
  <2> QED
    BY <2>2, <2>4, Sizes DEF Staged
<1> QED
  BY <1>1, Invariance, PTL
=============================================================================
