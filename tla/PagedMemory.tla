---------------------------- MODULE PagedMemory ----------------------------
(***************************************************************************)
(* The guest memory as the emulator keeps it: the expansion RAM, one       *)
(* write-back page for the processor's data accesses (guest_memory.s), one *)
(* read-only page for instruction fetches (page_cache.s), and two clients  *)
(* that go to the expansion RAM directly: the diskette transfer (dma.s)    *)
(* and the screen projection (cga.s).                                      *)
(*                                                                         *)
(* Every operation is one routine that runs to completion, so each is one  *)
(* action.  A transfer of the expansion RAM controller is rejected only    *)
(* for length zero, which no caller here asks for; that path is left out.  *)
(***************************************************************************)
EXTENDS Integers

CONSTANTS PageSize, GuestPages, ReuPages, CarryPages, ClearedPages, VideoPage,
          Byte, Media

VARIABLES
  reu,               \* the expansion RAM
  guest_data_page,   \* the data page: its bytes,
  guest_page_tag,    \* the page they belong to,
  guest_page_valid,  \* whether it holds a page at all,
  guest_page_dirty,  \* and whether it is newer than the expansion RAM
  fetch_page,        \* the instruction page
  fetch_page_tag,
  fetch_page_valid,
  seen,              \* the byte last handed to the processor
  screen             \* the bytes the screen was last drawn from

dataVars  == <<guest_data_page, guest_page_tag, guest_page_valid, guest_page_dirty>>
fetchVars == <<fetch_page, fetch_page_tag, fetch_page_valid>>
vars == <<reu, dataVars, fetchVars, seen, screen>>

(***************************************************************************)
(* The expansion RAM once the data page is written back.                   *)
(***************************************************************************)
FlushedReu ==
  IF guest_page_valid /\ guest_page_dirty
  THEN [reu EXCEPT ![guest_page_tag] = guest_data_page]
  ELSE reu

\* The flat memory this module implements is what the expansion RAM would
\* hold after a write-back.
Flat == INSTANCE GuestMemory WITH mem <- FlushedReu

Offset    == 0 .. PageSize - 1
GuestPage == 0 .. GuestPages - 1
SumPage   == 0 .. GuestPages - 1 + CarryPages
PageData  == [Offset -> Byte]
EmptyPage == [o \in Offset |-> 0]
\* Variant: the adder keeps its carry.
PhysicalUnwrapped(p) == p
Physical(p) == IF p < GuestPages THEN p ELSE p - GuestPages

ASSUME PagedAssumption ==
  /\ PageSize \in Nat \ {0}
  /\ GuestPages \in Nat \ {0}
  /\ ReuPages \in Nat /\ GuestPages <= ReuPages
  /\ CarryPages \in 0 .. GuestPages
  /\ ClearedPages \subseteq GuestPage
  /\ VideoPage \in GuestPage
  /\ 0 \in Byte
  /\ Media \subseteq [0 .. 1 -> PageData]

----------------------------------------------------------------------------
\* The guest starts with both pages invalid (cpu8088_mem_cache_invalidate and
\* cpu8088_fetch_cache_invalidate) and their buffers as the loader cleared them.
Init ==
  /\ reu \in Flat!BootImage
  /\ guest_data_page = EmptyPage
  /\ guest_page_tag = 0
  /\ guest_page_valid = FALSE
  /\ guest_page_dirty = FALSE
  /\ fetch_page = EmptyPage
  /\ fetch_page_tag = 0
  /\ fetch_page_valid = FALSE
  /\ seen = 0
  /\ screen = EmptyPage

DataHit(p)  == guest_page_valid /\ guest_page_tag = p
FetchHit(p) == fetch_page_valid /\ fetch_page_tag = p

\* cpu8088_mem_cache_flush: an invalid page keeps its dirty flag.
DirtyAfterFlush == guest_page_dirty /\ ~guest_page_valid

\* The data page once page p is in it, and the expansion RAM behind it.
\* (Variant: a miss refills over a dirty page.)
RefilledReuNoFlush(p) == reu
RefilledReu(p)  == IF DataHit(p) THEN reu ELSE FlushedReu
RefilledPage(p) == IF DataHit(p) THEN guest_data_page ELSE FlushedReu[p]
RefilledDirty(p) == DataHit(p) /\ guest_page_dirty

ReadByte(p, o) ==
  /\ reu' = RefilledReu(Physical(p))
  /\ guest_data_page' = RefilledPage(Physical(p))
  /\ guest_page_tag' = Physical(p)
  /\ guest_page_valid' = TRUE
  /\ guest_page_dirty' = RefilledDirty(Physical(p))
  /\ seen' = RefilledPage(Physical(p))[o]
  /\ UNCHANGED <<fetchVars, screen>>

\* cpu8088_fetch_cache_write_u8: a store also reaches the instruction page.
\* (Variant: it does not.)
FetchPageNotUpdated(p, o, b) == fetch_page
FetchPageAfterStore(p, o, b) ==
  IF FetchHit(p) THEN [fetch_page EXCEPT ![o] = b] ELSE fetch_page

WriteByte(p, o, b) ==
  /\ reu' = RefilledReu(Physical(p))
  /\ guest_data_page' = [RefilledPage(Physical(p)) EXCEPT ![o] = b]
  /\ guest_page_tag' = Physical(p)
  /\ guest_page_valid' = TRUE
  /\ guest_page_dirty' = TRUE
  /\ fetch_page' = FetchPageAfterStore(Physical(p), o, b)
  /\ UNCHANGED <<fetch_page_tag, fetch_page_valid, seen, screen>>

FetchCached(p, o) ==
  /\ FetchHit(Physical(p))
  /\ seen' = fetch_page[o]
  /\ UNCHANGED <<reu, dataVars, fetchVars, screen>>

\* A miss writes the data page back first, then reads the page from the
\* expansion RAM: the data page may be the only current copy of it.
FetchRefill(p, o) ==
  /\ ~FetchHit(Physical(p))
  /\ reu' = FlushedReu
  /\ guest_page_dirty' = DirtyAfterFlush
  /\ fetch_page' = reu'[Physical(p)]
  /\ fetch_page_tag' = Physical(p)
  /\ fetch_page_valid' = TRUE
  /\ seen' = fetch_page'[o]
  /\ UNCHANGED <<guest_data_page, guest_page_tag, guest_page_valid, screen>>

----------------------------------------------------------------------------
\* Clients that bypass both pages.

\* dma_channel2_read_from_reu past its checks: write back, copy both halves,
\* drop both pages, the data page with its dirty flag.
DmaSector(p, o, sector) ==
  /\ reu' = Flat!SectorCopied(FlushedReu, Flat!Linear(p, o), sector)
  /\ guest_page_valid' = FALSE
  /\ guest_page_dirty' = FALSE
  /\ fetch_page_valid' = FALSE
  /\ UNCHANGED <<guest_data_page, guest_page_tag, fetch_page, fetch_page_tag,
                 seen, screen>>

\* cga_render_text_40: write back, then read the rows.
RenderText ==
  /\ reu' = FlushedReu
  /\ guest_page_dirty' = DirtyAfterFlush
  /\ screen' = reu'[VideoPage]
  /\ UNCHANGED <<guest_data_page, guest_page_tag, guest_page_valid, fetchVars, seen>>

Next ==
  \/ \E p \in SumPage, o \in Offset : ReadByte(p, o)
  \/ \E p \in SumPage, o \in Offset, b \in Byte : WriteByte(p, o, b)
  \/ \E p \in SumPage, o \in Offset : FetchCached(p, o)
  \/ \E p \in SumPage, o \in Offset : FetchRefill(p, o)
  \/ \E p \in GuestPage, o \in Offset, sector \in Media : DmaSector(p, o, sector)
  \/ RenderText

Spec == Init /\ [][Next]_vars

----------------------------------------------------------------------------
(***************************************************************************)
(* The tags stay inside the guest: an address sum that wraps past 1 MiB    *)
(* never makes either page a copy of expansion RAM above the guest         *)
(* (cpu8088_segment_offset_physical and both cache routines).              *)
(***************************************************************************)
TypeOK ==
  /\ reu \in [Flat!ReuPage -> PageData]
  /\ guest_data_page \in PageData
  /\ guest_page_tag \in GuestPage
  /\ guest_page_valid \in BOOLEAN
  /\ guest_page_dirty \in BOOLEAN
  /\ fetch_page \in PageData
  /\ fetch_page_tag \in GuestPage
  /\ fetch_page_valid \in BOOLEAN
  /\ seen \in Byte
  /\ screen \in PageData

DirtyImpliesValid == guest_page_dirty => guest_page_valid

CleanDataCurrent ==
  guest_page_valid /\ ~guest_page_dirty => guest_data_page = reu[guest_page_tag]

FetchCurrent ==
  fetch_page_valid => fetch_page = FlushedReu[fetch_page_tag]

(***************************************************************************)
(* The two pages agree with each other and with the expansion RAM: a clean *)
(* data page equals its backing page, an instruction page equals what the  *)
(* data page or else the expansion RAM holds (so code that stores into     *)
(* itself, or a boot sector loaded over old code, is fetched new), and     *)
(* only a valid page is dirty, so no write-back is ever skipped.           *)
(***************************************************************************)
CachesCoherent == DirtyImpliesValid /\ CleanDataCurrent /\ FetchCurrent

(***************************************************************************)
(* The caches are invisible: the processor, the diskette transfer and the  *)
(* screen see one flat memory ("direct REU clients must flush first",      *)
(* guest_memory.s).                                                        *)
(***************************************************************************)
ImplementsFlatMemory == Flat!Spec
=============================================================================
