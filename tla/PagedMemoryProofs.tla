------------------------- MODULE PagedMemoryProofs -------------------------
(***************************************************************************)
(* The caches are invisible for every page size, memory size, byte set and *)
(* diskette.  The argument: TypeOK and CachesCoherent together are         *)
(* inductive; given them, a refill hands out the byte of the flat memory   *)
(* FlushedReu and leaves FlushedReu alone, so every action is a step of    *)
(* the flat memory or a stutter.                                           *)
(***************************************************************************)
EXTENDS PagedMemory, TLAPS

\* The invariant that is inductive.
IInv == TypeOK /\ CachesCoherent

\* The wrap of the 20-bit adder always lands in the guest.
LEMMA PhysicalInGuest ==
  ASSUME NEW p \in SumPage PROVE Physical(p) \in GuestPage
BY PagedAssumption DEF SumPage, GuestPage, Physical

\* The names shared with GuestMemory mean the same there.
LEMMA SameNames ==
  /\ Flat!ReuPage = 0 .. ReuPages - 1
  /\ Flat!Offset = Offset /\ Flat!GuestPage = GuestPage
  /\ Flat!SumPage = SumPage /\ Flat!PageData = PageData
  /\ GuestPage \subseteq Flat!ReuPage
  /\ \A p : Flat!Physical(p) = Physical(p)
BY PagedAssumption DEF Flat!ReuPage, Flat!Offset, Flat!GuestPage, Flat!SumPage,
   Flat!PageData, Flat!Physical, Offset, GuestPage, SumPage, PageData, Physical

\* A write-back yields a whole expansion RAM.
LEMMA FlushedType ==
  ASSUME TypeOK PROVE FlushedReu \in [Flat!ReuPage -> PageData]
BY SameNames DEF TypeOK, FlushedReu

\* Copying one page to any position yields a whole expansion RAM.
LEMMA CopiedType ==
  ASSUME NEW m \in [Flat!ReuPage -> PageData], NEW start \in Int,
         NEW bytes \in PageData
  PROVE  Flat!Copied(m, start, bytes) \in [Flat!ReuPage -> PageData]
<1>1. ASSUME NEW p \in Flat!ReuPage, NEW o \in Offset, NEW d
      PROVE  (IF d \in Offset THEN bytes[d] ELSE m[p][o]) \in Byte
  BY DEF PageData
<1>2. QED
  BY <1>1, SameNames DEF Flat!Copied, PageData

\* So does copying a sector.
LEMMA SectorCopiedType ==
  ASSUME NEW m \in [Flat!ReuPage -> PageData], NEW p \in GuestPage,
         NEW o \in Offset, NEW sector \in Media
  PROVE  Flat!SectorCopied(m, Flat!Linear(p, o), sector)
           \in [Flat!ReuPage -> PageData]
<1>1. Flat!Linear(p, o) \in Int
  BY PagedAssumption DEF Flat!Linear, GuestPage, Offset
<1>2. sector[0] \in PageData /\ sector[1] \in PageData
  BY PagedAssumption
<1>3. Flat!Linear(p, o) + PageSize \in Int
  BY <1>1, PagedAssumption
<1>4. Flat!Copied(m, Flat!Linear(p, o), sector[0]) \in [Flat!ReuPage -> PageData]
  BY <1>1, <1>2, CopiedType
<1>5. QED
  BY <1>2, <1>3, <1>4, CopiedType DEF Flat!SectorCopied

----------------------------------------------------------------------------
\* What a refill of the data page gives: its bytes are those of the flat
\* memory, and the flat memory is unchanged by it.
LEMMA RefillCurrent ==
  ASSUME IInv, NEW p \in GuestPage
  PROVE  /\ RefilledPage(p) = FlushedReu[p]
         /\ RefilledPage(p) \in PageData
         /\ RefilledReu(p) \in [Flat!ReuPage -> PageData]
         /\ RefilledDirty(p) \in BOOLEAN
         /\ ~RefilledDirty(p) => RefilledReu(p) = FlushedReu
         /\ [RefilledReu(p) EXCEPT ![p] = RefilledPage(p)] = FlushedReu
<1>1. RefilledPage(p) = FlushedReu[p]
  BY SameNames DEF IInv, TypeOK, CachesCoherent, CleanDataCurrent, RefilledPage,
     FlushedReu, DataHit
<1>2. FlushedReu \in [Flat!ReuPage -> PageData]
  BY FlushedType DEF IInv
<1>3. RefilledPage(p) \in PageData
  BY <1>1, <1>2, SameNames
<1>4. RefilledReu(p) \in [Flat!ReuPage -> PageData]
  BY <1>2 DEF IInv, TypeOK, RefilledReu
<1>5. RefilledDirty(p) \in BOOLEAN
  BY DEF RefilledDirty, DataHit, IInv, TypeOK
<1>6. ~RefilledDirty(p) => RefilledReu(p) = FlushedReu
  BY DEF RefilledDirty, RefilledReu, FlushedReu
<1>7. [RefilledReu(p) EXCEPT ![p] = RefilledPage(p)] = FlushedReu
  <2>1. CASE ~DataHit(p)
    <3>1. RefilledReu(p) = FlushedReu
      BY <2>1 DEF RefilledReu
    <3>2. QED
      BY <3>1, <1>1, <1>2, SameNames
  <2>2. CASE DataHit(p) /\ guest_page_dirty
    BY <2>2 DEF RefilledReu, RefilledPage, FlushedReu, DataHit
  <2>3. CASE DataHit(p) /\ ~guest_page_dirty
    <3>1. RefilledReu(p) = reu /\ FlushedReu = reu
      BY <2>3 DEF RefilledReu, FlushedReu
    <3>2. QED
      BY <3>1, <1>1, <1>2, SameNames
  <2>4. QED
    BY <2>1, <2>2, <2>3 DEF IInv, TypeOK
<1>8. QED
  BY <1>1, <1>3, <1>4, <1>5, <1>6, <1>7

\* After a clean refill or a write-back the flat memory is the expansion RAM.
LEMMA CleanMeansFlushed ==
  ~guest_page_dirty => FlushedReu = reu
BY DEF FlushedReu

----------------------------------------------------------------------------
\* The data read: flat memory unchanged, the flat byte handed out.
LEMMA ReadStep ==
  ASSUME IInv, NEW p \in SumPage, NEW o \in Offset, ReadByte(p, o)
  PROVE  /\ IInv'
         /\ FlushedReu' = FlushedReu
         /\ seen' = FlushedReu[Physical(p)][o]
<1> DEFINE q == Physical(p)
<1>1. q \in GuestPage
  BY PhysicalInGuest
<1>2. /\ RefilledPage(q) = FlushedReu[q]
      /\ RefilledPage(q) \in PageData
      /\ RefilledReu(q) \in [Flat!ReuPage -> PageData]
      /\ RefilledDirty(q) \in BOOLEAN
      /\ ~RefilledDirty(q) => RefilledReu(q) = FlushedReu
      /\ [RefilledReu(q) EXCEPT ![q] = RefilledPage(q)] = FlushedReu
  BY <1>1, RefillCurrent
<1>3. /\ reu' = RefilledReu(q)
      /\ guest_data_page' = RefilledPage(q)
      /\ guest_page_tag' = q
      /\ guest_page_valid' = TRUE
      /\ guest_page_dirty' = RefilledDirty(q)
      /\ seen' = RefilledPage(q)[o]
      /\ fetch_page' = fetch_page /\ fetch_page_tag' = fetch_page_tag
      /\ fetch_page_valid' = fetch_page_valid /\ screen' = screen
  BY DEF ReadByte, fetchVars
<1> HIDE DEF q
<1>4. FlushedReu' = FlushedReu
  BY <1>2, <1>3 DEF FlushedReu
<1>5. seen' \in Byte
  BY <1>2, <1>3 DEF PageData
<1>6. TypeOK'
  BY <1>1, <1>2, <1>3, <1>5, SameNames DEF IInv, TypeOK
<1>7. CachesCoherent'
  <2>1. DirtyImpliesValid'
    BY <1>3 DEF DirtyImpliesValid
  <2>2. CleanDataCurrent'
    BY <1>2, <1>3 DEF CleanDataCurrent
  <2>3. FetchCurrent'
    BY <1>3, <1>4 DEF FetchCurrent, IInv, CachesCoherent
  <2>4. QED
    BY <2>1, <2>2, <2>3 DEF CachesCoherent
<1>8. QED
  BY <1>2, <1>3, <1>4, <1>6, <1>7 DEF IInv, q

\* The store: the flat memory changes in the one byte.
LEMMA WriteStep ==
  ASSUME IInv, NEW p \in SumPage, NEW o \in Offset, NEW b \in Byte,
         WriteByte(p, o, b)
  PROVE  /\ IInv'
         /\ FlushedReu' = [FlushedReu EXCEPT ![Physical(p)][o] = b]
<1> DEFINE q == Physical(p)
<1>1. q \in GuestPage
  BY PhysicalInGuest
<1>2. /\ RefilledPage(q) = FlushedReu[q]
      /\ RefilledPage(q) \in PageData
      /\ RefilledReu(q) \in [Flat!ReuPage -> PageData]
      /\ [RefilledReu(q) EXCEPT ![q] = RefilledPage(q)] = FlushedReu
  BY <1>1, RefillCurrent
<1>3. /\ reu' = RefilledReu(q)
      /\ guest_data_page' = [RefilledPage(q) EXCEPT ![o] = b]
      /\ guest_page_tag' = q
      /\ guest_page_valid' = TRUE
      /\ guest_page_dirty' = TRUE
      /\ fetch_page' = FetchPageAfterStore(q, o, b)
      /\ fetch_page_tag' = fetch_page_tag
      /\ fetch_page_valid' = fetch_page_valid
      /\ seen' = seen /\ screen' = screen
  BY DEF WriteByte
<1>4. FlushedReu \in [Flat!ReuPage -> PageData]
  BY FlushedType DEF IInv
<1> HIDE DEF q
<1>5. FlushedReu' = [RefilledReu(q) EXCEPT ![q] = [RefilledPage(q) EXCEPT ![o] = b]]
  BY <1>3 DEF FlushedReu
<1>6. FlushedReu' = [FlushedReu EXCEPT ![q] = [FlushedReu[q] EXCEPT ![o] = b]]
  <2>1. RefilledReu(q) \in [Flat!ReuPage -> PageData] /\ q \in Flat!ReuPage
    BY <1>1, <1>2, SameNames
  <2>2. FlushedReu' = [[RefilledReu(q) EXCEPT ![q] = RefilledPage(q)]
                         EXCEPT ![q] = [RefilledPage(q) EXCEPT ![o] = b]]
    BY <1>5, <2>1
  <2>3. QED
    BY <2>2, <1>2
<1>7. [RefilledPage(q) EXCEPT ![o] = b] \in PageData
  BY <1>2 DEF PageData
<1>8. FetchPageAfterStore(q, o, b) \in PageData
  BY DEF FetchPageAfterStore, PageData, IInv, TypeOK
<1>9. TypeOK'
  BY <1>1, <1>2, <1>3, <1>7, <1>8, SameNames DEF IInv, TypeOK
<1>10. CachesCoherent'
  <2>1. DirtyImpliesValid'
    BY <1>3 DEF DirtyImpliesValid
  <2>2. CleanDataCurrent'
    BY <1>3 DEF CleanDataCurrent
  <2>3. FetchCurrent'
    <3>1. SUFFICES ASSUME fetch_page_valid
                   PROVE  fetch_page' = FlushedReu'[fetch_page_tag]
      BY <1>3 DEF FetchCurrent
    <3>2. fetch_page = FlushedReu[fetch_page_tag]
      BY <3>1 DEF IInv, CachesCoherent, FetchCurrent
    <3>3. fetch_page_tag \in Flat!ReuPage /\ q \in Flat!ReuPage
      BY <1>1, SameNames DEF IInv, TypeOK
    <3>4. CASE fetch_page_tag = q
      BY <3>1, <3>2, <3>3, <3>4, <1>3, <1>4, <1>6 DEF FetchPageAfterStore, FetchHit
    <3>5. CASE fetch_page_tag # q
      BY <3>2, <3>3, <3>5, <1>3, <1>4, <1>6 DEF FetchPageAfterStore, FetchHit
    <3>6. QED
      BY <3>4, <3>5
  <2>4. QED
    BY <2>1, <2>2, <2>3 DEF CachesCoherent
<1>11. QED
  BY <1>6, <1>9, <1>10 DEF IInv, q

\* A fetch that hits: the instruction page holds the flat byte.
LEMMA FetchCachedStep ==
  ASSUME IInv, NEW p \in SumPage, NEW o \in Offset, FetchCached(p, o)
  PROVE  /\ IInv'
         /\ FlushedReu' = FlushedReu
         /\ seen' = FlushedReu[Physical(p)][o]
<1>1. seen' = FlushedReu[Physical(p)][o]
  BY DEF FetchCached, FetchHit, IInv, CachesCoherent, FetchCurrent
<1>2. seen' \in Byte
  BY DEF FetchCached, IInv, TypeOK, PageData
<1>3. UNCHANGED <<reu, dataVars, fetchVars, screen>>
  BY DEF FetchCached
<1>4. FlushedReu' = FlushedReu
  BY <1>3 DEF FlushedReu, dataVars
<1>5. TypeOK'
  BY <1>2, <1>3 DEF IInv, TypeOK, dataVars, fetchVars
<1>6. CachesCoherent'
  BY <1>3, <1>4 DEF IInv, CachesCoherent, DirtyImpliesValid, CleanDataCurrent,
     FetchCurrent, dataVars, fetchVars
<1>7. QED
  BY <1>1, <1>4, <1>5, <1>6 DEF IInv

\* After a write-back of a state that satisfies the invariant, the expansion
\* RAM is the flat memory and the data page, if any, is clean and current.
LEMMA AfterFlush ==
  ASSUME IInv, reu' = FlushedReu, guest_page_dirty' = DirtyAfterFlush,
         UNCHANGED <<guest_data_page, guest_page_tag, guest_page_valid>>
  PROVE  /\ guest_page_dirty' = FALSE
         /\ FlushedReu' = FlushedReu
         /\ reu' \in [Flat!ReuPage -> PageData]
         /\ DirtyImpliesValid'
         /\ CleanDataCurrent'
<1>1. guest_page_dirty' = FALSE
  BY DEF DirtyAfterFlush, IInv, TypeOK, CachesCoherent, DirtyImpliesValid
<1>2. FlushedReu' = FlushedReu
  BY <1>1 DEF FlushedReu
<1>3. reu' \in [Flat!ReuPage -> PageData]
  BY FlushedType DEF IInv
<1>4. DirtyImpliesValid'
  BY <1>1 DEF DirtyImpliesValid
<1>5. CleanDataCurrent'
  <2>1. CASE guest_page_dirty
    BY <2>1, SameNames DEF CleanDataCurrent, FlushedReu, IInv, TypeOK
  <2>2. CASE ~guest_page_dirty
    BY <2>2 DEF CleanDataCurrent, FlushedReu, IInv, CachesCoherent
  <2>3. QED
    BY <2>1, <2>2
<1>6. QED
  BY <1>1, <1>2, <1>3, <1>4, <1>5

\* A fetch that misses: the flat byte is handed out from the refilled page.
LEMMA FetchRefillStep ==
  ASSUME IInv, NEW p \in SumPage, NEW o \in Offset, FetchRefill(p, o)
  PROVE  /\ IInv'
         /\ FlushedReu' = FlushedReu
         /\ seen' = FlushedReu[Physical(p)][o]
<1> DEFINE q == Physical(p)
<1>1. q \in GuestPage /\ q \in Flat!ReuPage
  BY PhysicalInGuest, SameNames
<1>2. /\ reu' = FlushedReu
      /\ guest_page_dirty' = DirtyAfterFlush
      /\ fetch_page' = reu'[q]
      /\ fetch_page_tag' = q
      /\ fetch_page_valid' = TRUE
      /\ seen' = fetch_page'[o]
      /\ guest_data_page' = guest_data_page /\ guest_page_tag' = guest_page_tag
      /\ guest_page_valid' = guest_page_valid /\ screen' = screen
  BY DEF FetchRefill
<1>3. /\ guest_page_dirty' = FALSE
      /\ FlushedReu' = FlushedReu
      /\ reu' \in [Flat!ReuPage -> PageData]
      /\ DirtyImpliesValid'
      /\ CleanDataCurrent'
  BY <1>2, AfterFlush
<1> HIDE DEF q
<1>4. fetch_page' \in PageData
  BY <1>1, <1>2, <1>3
<1>5. seen' \in Byte
  BY <1>2, <1>4 DEF PageData
<1>6. TypeOK'
  BY <1>1, <1>2, <1>3, <1>4, <1>5 DEF IInv, TypeOK
<1>7. FetchCurrent'
  BY <1>2, <1>3 DEF FetchCurrent
<1>8. QED
  BY <1>2, <1>3, <1>6, <1>7 DEF IInv, CachesCoherent, q

\* A diskette transfer: the flat memory gets the sector and both pages go.
LEMMA DmaStep ==
  ASSUME IInv, NEW p \in GuestPage, NEW o \in Offset, NEW sector \in Media,
         DmaSector(p, o, sector)
  PROVE  /\ IInv'
         /\ FlushedReu' = Flat!SectorCopied(FlushedReu, Flat!Linear(p, o), sector)
<1>1. /\ reu' = Flat!SectorCopied(FlushedReu, Flat!Linear(p, o), sector)
      /\ guest_page_valid' = FALSE
      /\ guest_page_dirty' = FALSE
      /\ fetch_page_valid' = FALSE
      /\ UNCHANGED <<guest_data_page, guest_page_tag, fetch_page, fetch_page_tag,
                     seen, screen>>
  BY DEF DmaSector
<1>2. reu' \in [Flat!ReuPage -> PageData]
  BY <1>1, FlushedType, SectorCopiedType DEF IInv
<1>3. TypeOK'
  BY <1>1, <1>2 DEF IInv, TypeOK
<1>4. CachesCoherent'
  BY <1>1 DEF CachesCoherent, DirtyImpliesValid, CleanDataCurrent, FetchCurrent
<1>5. FlushedReu' = reu'
  BY <1>1 DEF FlushedReu
<1>6. QED
  BY <1>1, <1>3, <1>4, <1>5 DEF IInv

\* The screen is drawn from the flat memory.
LEMMA RenderStep ==
  ASSUME IInv, RenderText
  PROVE  /\ IInv'
         /\ FlushedReu' = FlushedReu
         /\ screen' = FlushedReu[VideoPage]
<1>1. /\ reu' = FlushedReu
      /\ guest_page_dirty' = DirtyAfterFlush
      /\ screen' = reu'[VideoPage]
      /\ UNCHANGED <<guest_data_page, guest_page_tag, guest_page_valid>>
      /\ UNCHANGED <<fetch_page, fetch_page_tag, fetch_page_valid, seen>>
  BY DEF RenderText, fetchVars
<1>2. /\ guest_page_dirty' = FALSE
      /\ FlushedReu' = FlushedReu
      /\ reu' \in [Flat!ReuPage -> PageData]
      /\ DirtyImpliesValid'
      /\ CleanDataCurrent'
  BY <1>1, AfterFlush
<1>3. screen' \in PageData
  BY <1>1, <1>2, SameNames, PagedAssumption
<1>4. TypeOK'
  BY <1>1, <1>2, <1>3 DEF IInv, TypeOK
<1>5. FetchCurrent'
  BY <1>1, <1>2 DEF IInv, CachesCoherent, FetchCurrent
<1>6. QED
  BY <1>1, <1>2, <1>4, <1>5 DEF IInv, CachesCoherent

----------------------------------------------------------------------------
\* The boot state satisfies the invariant and is a boot state of the memory.
LEMMA InitStep == Init => IInv /\ Flat!Init
<1> SUFFICES ASSUME Init PROVE IInv /\ Flat!Init
  OBVIOUS
<1>1. reu \in [Flat!ReuPage -> PageData]
  BY SameNames DEF Init, Flat!BootImage
<1>2. EmptyPage \in PageData
  BY PagedAssumption DEF EmptyPage, PageData
<1>3. TypeOK
  <2>1. 0 \in GuestPage /\ 0 \in Byte
    BY PagedAssumption DEF GuestPage
  <2>2. QED
    BY <1>1, <1>2, <2>1 DEF Init, TypeOK
<1>4. CachesCoherent
  BY DEF Init, CachesCoherent, DirtyImpliesValid, CleanDataCurrent, FetchCurrent
<1>5. FlushedReu = reu
  BY DEF Init, FlushedReu
<1>6. Flat!Init
  BY <1>5, SameNames DEF Init, Flat!Init, EmptyPage
<1>7. QED
  BY <1>3, <1>4, <1>6 DEF IInv

\* Every step keeps the invariant and is a step of the flat memory.
LEMMA NextStep == IInv /\ [Next]_vars => IInv' /\ [Flat!Next]_(Flat!memVars)
<1> SUFFICES ASSUME IInv, [Next]_vars
             PROVE  IInv' /\ [Flat!Next]_(Flat!memVars)
  OBVIOUS
<1>1. ASSUME NEW p \in SumPage, NEW o \in Offset, ReadByte(p, o)
      PROVE  IInv' /\ Flat!Next
  <2>1. /\ IInv' /\ FlushedReu' = FlushedReu
        /\ seen' = FlushedReu[Physical(p)][o]
    BY <1>1, ReadStep
  <2>2. Flat!Read(p, o)
    BY <1>1, <2>1, SameNames DEF Flat!Read, ReadByte
  <2>3. QED
    BY <2>1, <2>2, SameNames DEF Flat!Next
<1>2. ASSUME NEW p \in SumPage, NEW o \in Offset, NEW b \in Byte, WriteByte(p, o, b)
      PROVE  IInv' /\ Flat!Next
  <2>1. IInv' /\ FlushedReu' = [FlushedReu EXCEPT ![Physical(p)][o] = b]
    BY <1>2, WriteStep
  <2>2. Flat!Write(p, o, b)
    BY <1>2, <2>1, SameNames DEF Flat!Write, WriteByte
  <2>3. QED
    BY <2>1, <2>2, SameNames DEF Flat!Next
<1>3. ASSUME NEW p \in SumPage, NEW o \in Offset, FetchCached(p, o)
      PROVE  IInv' /\ Flat!Next
  <2>1. /\ IInv' /\ FlushedReu' = FlushedReu
        /\ seen' = FlushedReu[Physical(p)][o]
    BY <1>3, FetchCachedStep
  <2>2. Flat!Read(p, o)
    BY <1>3, <2>1, SameNames DEF Flat!Read, FetchCached
  <2>3. QED
    BY <2>1, <2>2, SameNames DEF Flat!Next
<1>4. ASSUME NEW p \in SumPage, NEW o \in Offset, FetchRefill(p, o)
      PROVE  IInv' /\ Flat!Next
  <2>1. /\ IInv' /\ FlushedReu' = FlushedReu
        /\ seen' = FlushedReu[Physical(p)][o]
    BY <1>4, FetchRefillStep
  <2>2. Flat!Read(p, o)
    BY <1>4, <2>1, SameNames DEF Flat!Read, FetchRefill
  <2>3. QED
    BY <2>1, <2>2, SameNames DEF Flat!Next
<1>5. ASSUME NEW p \in GuestPage, NEW o \in Offset, NEW sector \in Media,
             DmaSector(p, o, sector)
      PROVE  IInv' /\ Flat!Next
  <2>1. /\ IInv'
        /\ FlushedReu' = Flat!SectorCopied(FlushedReu, Flat!Linear(p, o), sector)
    BY <1>5, DmaStep
  <2>2. Flat!LoadSector(p, o, sector)
    BY <1>5, <2>1 DEF Flat!LoadSector, DmaSector
  <2>3. QED
    BY <2>1, <2>2, SameNames DEF Flat!Next
<1>6. ASSUME RenderText PROVE IInv' /\ Flat!Next
  <2>1. /\ IInv' /\ FlushedReu' = FlushedReu
        /\ screen' = FlushedReu[VideoPage]
    BY <1>6, RenderStep
  <2>2. Flat!Draw
    BY <1>6, <2>1 DEF Flat!Draw, RenderText
  <2>3. QED
    BY <2>1, <2>2 DEF Flat!Next
<1>7. ASSUME UNCHANGED vars PROVE IInv' /\ UNCHANGED Flat!memVars
  <2>1. FlushedReu' = FlushedReu
    BY <1>7 DEF vars, dataVars, FlushedReu
  <2>2. IInv'
    BY <1>7, <2>1 DEF vars, dataVars, fetchVars, IInv, TypeOK, CachesCoherent,
       DirtyImpliesValid, CleanDataCurrent, FetchCurrent
  <2>3. QED
    BY <1>7, <2>1, <2>2 DEF vars, Flat!memVars
<1>8. QED
  BY <1>1, <1>2, <1>3, <1>4, <1>5, <1>6, <1>7 DEF Next

(***************************************************************************)
(* The page tags, flags and contents keep their types; in particular an    *)
(* address sum that wraps never leaves a page tagged above the guest.      *)
(***************************************************************************)
THEOREM TypeCorrect == Spec => []TypeOK
<1>1. IInv => TypeOK
  BY DEF IInv
<1>2. QED
  BY InitStep, NextStep, <1>1, PTL DEF Spec

(***************************************************************************)
(* Both cached pages always agree with each other and with the expansion   *)
(* RAM, and a page is dirty only while it is valid.                        *)
(***************************************************************************)
THEOREM Coherence == Spec => []CachesCoherent
<1>1. IInv => CachesCoherent
  BY DEF IInv
<1>2. QED
  BY InitStep, NextStep, <1>1, PTL DEF Spec

(***************************************************************************)
(* The memory system with its two pages, the diskette transfer and the     *)
(* screen projection implements one flat memory.                           *)
(***************************************************************************)
THEOREM CachesInvisible == Spec => ImplementsFlatMemory
<1>1. QED
  BY InitStep, NextStep, PTL DEF Spec, ImplementsFlatMemory, Flat!Spec
=============================================================================
