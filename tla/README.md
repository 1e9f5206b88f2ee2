# Verification of the 8088 PC emulator for the C64 Ultimate

This directory holds TLA+ models of the emulator, the TLC configurations that
check them on small instances, and proofs of their main properties that TLAPS
checks. The models follow the 6502 assembly under `src/src/` and the Python
tools under `src/tools/`; paths below are relative to `src/`, the root of the
repository.

- [1. The system](#1-the-system)
- [2. Hard behaviours](#2-hard-behaviours)
- [3. The modules and the code](#3-the-modules-and-the-code)
- [4. What the runs check](#4-what-the-runs-check)
- [5. Bounds](#5-bounds)
- [6. Fairness](#6-fairness)
- [7. What is proved](#7-what-is-proved)
- [8. Disagreements between the code and what is said of it](#8-disagreements-between-the-code-and-what-is-said-of-it)
- [9. What is not modelled](#9-what-is-not-modelled)
- [10. Plan](#10-plan)

To repeat a run: `tlc -config MCPit.cfg MCPit`; to check a proof:
`tlapm PagedMemoryProofs.tla`.

## 1. The system

The program is one thread of 6502 code. It interprets an 8088 whose 1 MiB of
memory lies in the host's RAM expansion unit (REU), and emulates the devices of
a PC/XT around it. What is concurrent is the *guest's* view: devices raise
interrupts at moments the guest program does not choose, and the host's KERNAL
runs an interrupt handler of its own.

The main loop (`boot_guest`, `src/boot/hwtest.s:265`) repeats batches of 64
turns. A turn is `cpu8088_step` (poll for an interrupt, then one instruction)
followed by `pit_advance_cycles`. After each batch come the host keyboard poll,
the autokey that answers a BIOS prompt, the projection of the text screen and a
line of diagnostics. The loop ends only when an instruction reports a fault.

| Component | State | Operations | Talks to | Correct when |
|---|---|---|---|---|
| Guest memory, page caches (`memory/guest_memory.s`, `memory/page_cache.s`, `cpu8088/address.s`) | 1 MiB in the REU; a write-back data page with tag, valid, dirty; a read-only instruction page with tag, valid | read, store, fetch, refill, flush, invalidate | REU copies; bypassed by diskette transfers and screen | the caches cannot be noticed: all clients see one flat memory |
| REU (`memory/reu.s`) | controller registers | copy to, copy from, detect, probe size | all of memory | copies what it was asked to |
| Interrupt controller (`devices/pic.s`) | pending, mask, in service, vector base, initialization step | request a line, serve, ports 20h/21h | processor latch; timer, keyboard, diskette call it | no request lost, none overwritten, none forgotten |
| Interrupt delivery (`cpu8088/interrupts.s`) | one-place latch, NMI, shadow, halt, IF | request, poll, enter, return | controller, interpreter | a latched interrupt is entered once, when the guest is ready |
| Interval timer (`devices/pit.s`) | three channels of byte pairs with access phases; cycle accumulator | ports 40h-43h, advance by cycles, tick | controller (line 0) | channels keep time whatever order the guest writes in |
| DMA channel 2 (`devices/dma.s`) | address, count, page, mask, flip-flop | register writes; transfer of a sector | diskette controller, memory | copies only what was authorised |
| Diskette controller (`devices/fdc.s`) | command, parameters, results, seek end, promised senses | ports 3F2h, 3F4h, 3F5h; commands | DMA, controller (line 6) | phases exclusive; interrupts explained; reads reported truthfully |
| Keyboard (`bus/io.s`, `host/keyboard.s`) | ring of 16, one-place buffer, ports 60h and 61h; the BIOS's buffer in guest memory | push, service, reset, poll, answer the prompt | controller (line 1), KERNAL, main loop | codes in order, once, each announced |
| Port dispatch (`bus/io.s`) | debug latch, status toggle | IN, OUT | all devices | a port reaches its device |
| Main loop (`boot/hwtest.s`) | batch counter, autokey | the schedule above | everything | processor and timer go on; halts can be woken |
| Interpreter (`cpu8088/step.s`, `state.s`) | registers, flags, prefixes, per-instruction scratch flags | one routine per opcode group | memory, stack, ports | does what the reference processor does |
| Addressing, stack (`modrm.s`, `stack.s`) | effective address | decode, push, pop | interpreter | offsets wrap at 64 KiB |
| Multiplication, division (`multiply.s`, `divide.s`) | operands, quotient, remainder | `mul`, `imul`, `div`, `idiv`, adjustments | interpreter | equal to the arithmetic definition, fault on overflow |
| CGA (`video/cga.s`) | register file, start address, mode | ports 3D4h-3DAh; project 40 columns | memory | the screen shows the memory the registers select |
| Cartridge bootstrap (`cartridge/bootstrap.s`), with the tools that feed it (`tools/build_crt.py`, `generate_cartridge_include.py`) | bank, two copy pointers, count | pack the banks; copy the payload, clear, stage the disk | REU, the emulator it starts | payload and disk arrive whole |
| Guest loader (`memory/guest_init.s`) | copy pointers | copy the guest image | REU | the image arrives whole |
| Reference processor (`tools/ref8088/runner.py`) and comparison (`unicorn_oracle.py`) | registers, memory, ports, trace; the position of the comparison | one branch per handler; run a vector, drive Unicorn along the trace, compare | Unicorn, the vectors of `tests/` | interrupts leave no trace; the comparison alarms only on disagreement |
| Monitor scripts (`tools/capture_fault_dump.py`, `capture_diag_dump.py`, `debug_binary_monitor*.py`) | step of the script, buffered pieces, request id | send, wait, time out, save, clean up | VICE over a socket | a dump is of the moment it claims; no VICE stays behind; every script ends |
| Listing scripts (`tools/f44d_*.py`, `disasm_f44d_*.py`, `analyze_f44d_stall.py`, `decode_f78d.py`) | offset in the ROM | decode a line, go on, search | - | a listing keeps step with what is executed, and ends |
| Turbo (`host/`), diagnostics and self-tests (`boot/hwtest.s`), other tools, tests | - | - | - | not part of the running emulator's logic |

`PROJECT.json` lists the same components with the state of their modelling.

## 2. Hard behaviours

These are the behaviours a unit test hardly reaches; `PROJECT.json` lists them
one by one under "hazards", each at its line.

- **Stale copies.** Three clients reach the same memory on three ways: through
  the data page, through the instruction page, directly. A store, refill, flush
  or transfer in the wrong order leaves one of them with an old byte.
- **Interrupts in any order.** Three devices raise lines between two polls of
  a one-place latch. The controller looks at its waiting lines only when a line
  is raised or the mask is written: not at an end of interrupt and not when the
  processor frees the latch. The guest may reprogram it at any moment.
- **Readiness.** IF, SP = 0, the one-instruction shadow and the halt all hold an
  entry back.
- **Word registers by bytes.** The timer, the DMA channel and the diskette
  controller take their values a byte at a time through phases that resets,
  latches and fresh commands interrupt.
- **A register shared across a call.** `pit_tick_channel` keeps its channel in
  X while it calls `pic_request_irq`, which uses X.
- **Several calls in one handler.** The keyboard routines are called two or
  three times before the guest runs again; each call overwrites port 60h.
- **Host interrupts.** The KERNAL's keyboard scan runs only when the host's I
  flag is clear; the main loop masks it.
- **What an instruction leaves behind.** `alu_operation`, `alu_preserve_cf` and
  `alu_saved_cf` are read by instructions that do not set them: a `MUL` after
  an `INC`, a rotate after a `CMP`.
- **Numbers put together from bytes.** Carries, borrows, signs and partial
  remainders pass between bytes by hand; the cases that go wrong are at the
  edges of the widths.
- **Boundaries.** A count register that wraps, the ring's overflow branch, an
  address sum past 1 MiB, a sector number past the track.

- **A stream with a clock.** The monitor scripts read answers and unasked
  events from one socket. Messages come in pieces; a read that times out forgets
  the pieces it has, and what follows is read out of step. VICE may end or
  block on its own output meanwhile.
- **Two tools, one constant.** The loader is assembled with sizes one tool
  writes, and the cartridge is packed from files that may have changed since.
- **Two processors.** The reference goes round by round and drives another
  emulator whose ports, interrupts and undefined flags are its own.

The emulator itself persists nothing (media are read only), so there is no
recovery after a crash to model.

## 3. The modules and the code

One module per component. Names of variables are the names of the code's
variables where a variable stands for one of them. A routine that runs to
completion is one action, because nothing can run between its instructions;
where several routines make one handler, they are operators on a record (Keyboard)
or on the primed variables (Pic's `Service`), composed in the code's order.

Some definitions are preceded by one marked *Variant*: it is what a plausible
mistake in that place would have been. No specification uses the variants; each
property is required to fail when one of them takes its original's place.

### GuestMemory and PagedMemory

`GuestMemory` is the promise: one flat memory, `mem`, with the actions Read,
Write, LoadSector and Draw. `PagedMemory` is `guest_memory.s`, `page_cache.s`,
the copying part of `dma.s` and the reading part of `cga.s`:

| Action | Code |
|---|---|
| `ReadByte`, `WriteByte` | `cpu8088_mem_read_u8`, `cpu8088_mem_write_u8` with refill and flush, and the store's visit to the instruction page (`cpu8088_fetch_cache_write_u8`) |
| `FetchCached`, `FetchRefill` | `cpu8088_fetch_u8` |
| `DmaSector` | `dma_channel2_read_from_reu` behind its checks: flush, two copies, invalidate both |
| `RenderText` | `cga_render_text_40`: flush, then read the rows |

The flat memory a state stands for is `FlushedReu`: the REU as a write-back
would leave it. `Flat == INSTANCE GuestMemory WITH mem <- FlushedReu` is the
refinement. A transfer near the top of the guest writes expansion RAM above it,
as the code does; an address *sum* wraps.

### Pic and InterruptPath

`Pic` has the controller's registers and the latch; `Service(W, M)` is
`pic_service` entered with waiting lines W and mask M, called by exactly
`RequestIrq` and `WriteMask`. Port 20h and 21h writes are `WriteIcw1`,
`WriteOcw`, `WriteIcw2`, `WriteLaterIcw`, `WriteMask`.

`InterruptPath` adds the processor: the poll
(`cpu8088_service_pending_interrupt`) with its order NMI, shadow, latch, SP, IF;
and the instructions by what they do to this state. Each instruction action has
`Running` as its guard: the poll before it took nothing. `Ordinary(z, f)` stands
for every instruction that may move SP or load IF. SP is kept only as "zero or
not", which is all the poll looks at.

### KeyStream and Keyboard

`KeyStream` promises order, that no code is lost and none comes twice; its
parameter `Burst` says how many codes one call of a handler may let through the
port unseen. `Keyboard`
keeps the state of `io.s` in the record `kb`; `Push`, `Present`, `TakeNext`,
`Service`, `Reset` are its routines; `Poll` is `host_keyboard_poll`,
`AnswerPrompt` the autokey, `EndOfBatch` both in the main loop's order; `Out61`
is port 61h. External, modelled from how the code uses them: `Getin` and
`KernalScan` (the KERNAL), `Press` (the user), `BiosStores` and `BiosTakes` (the
BIOS's use of its buffer at 0040:001Ah). `kb.asked` and
`irq0`, `irq6`, `copied` below are history of the step just made, not state of
the program.

### Timer, Pit and TimerInterrupt

`Timer` promises three word counters. `Pit` has the byte pairs:
`Counted`, `ReloadOrStop`, `TickChannel` (`pit_tick_channel`), `Elapse` and
`Tick` (`pit_advance_cycles`: the addition, and one turn of its loop),
`Written`, `AfterRead`, `Controlled` (the ports). The guest runs only when the
accumulator is below 4, where the loop ends.

`TimerInterrupt` composes `Pit` and `InterruptPath` and models what passes
between them beside the request: the X register. `XAfterRequest` is what
`pic_service` leaves in it; `TickAstray` what the rest of the tick then does.

### Dma and Fdc

`Dma` is channel 2: `WriteAddr`, `WriteCount`, `WriteMask`, `ClearFlipFlop`,
`MasterClear`, `WritePage`, and the closed form of the sector-by-sector calls
(`CountAt`, `AddrAt`, `Accepts`, `Moved`). `Fdc` has one operator per command,
chosen by `Execute`; `Begin` is a command byte, `Parameter` a parameter byte,
`ReadResult` the data port read, `WriteDor` the output register with its reset.
The copied bytes are abstracted to `copied`, the list of (sector, address) pairs
of the step; `PagedMemory!DmaSector` is the copy itself.

### Iteration, Alu, MulDiv and Arithmetic

`Alu` has the operators of `step.s` that compute: `Adc` and `Sbc` are the two
6502 instructions all sums are made of, `AluExecute` and `AluFlags` the routines
of these names, `Shift` one shift or rotate turned bit by bit, `DecimalAdd` and
`DecimalSubtract` the adjustments, `ConditionTrue` the sixteen conditions.
`MulDiv` has `multiply.s` and `divide.s` with their loops: shift and add, shift
and subtract. `Iteration` repeats a turn of a loop 8 or 16 times without
recursion, so that the provers can read these modules.

`Arithmetic` is the state machine: each action is one opcode group from its
label to the end of the step.

| Action | Code in `step.s` |
|---|---|
| `Alu`, `Test` | `@alu_accumulator_immediate`, `@alu_modrm`, `@test_modrm` and their like |
| `Group3Test`, `Group3Not`, `Multiply`, `Divide` | the extensions of F6h and F7h |
| `IncDec` | `@inc_dec_reg16`, `@group4_inc_dec`, `@group5_inc_dec` |
| `ShiftOne` | `@shift_one` with a count |
| `Decimal`, `Aam`, `Aad` | `@daa`, `@das`, `@aam`, `@aad` |
| `Cbw`, `Cwd`, `SetCarry` | `@cbw`, `@cwd`, `@clc`, `@stc`, `@cmc` |

A behaviour is a short program on AX, DX and one operand. The scratch state
that outlives an instruction is kept, because the next one may read it. Which
register or memory an operand comes from is left out, and so are string
compares; a division error, which is `InterruptPath`'s `Enter`, ends the program.

### Cpu8088, Reference, Interpreter and Lockstep

`Cpu8088` holds what the two processors have in common: registers, memory as a
function that is 0 where it says nothing, prefixes, the ports as
`runner.py` has them. `Reference` has one operator per branch of
`Reference8088.step` and four actions: `NonMaskable`, `Maskable`, `Idle`,
`Execute`. `Interpreter` has one operator per label that `step.s` dispatches to,
named after it, on top of `Alu` and `MulDiv`; `cpu8088_step` is `ServiceNmi`,
`ServiceIrq`, `StayHalted` or `Instruction`. `asm.operation`, `asm.preserve` and
`asm.saved` are the scratch state that outlives an instruction. LEA with a
register operand, which is no 8088 instruction, reads where the *last*
instruction left `source_offset`: a choice over all it can have left.

`Lockstep` steps both at once from alike machines and demands alike machines
after it (`InterpreterAgrees`), but for the cases named in `Parted`, each of
which is needed.

### Oracle

`Oracle` runs a vector on the reference (`RunReference`), then goes through the
trace as `unicorn_oracle.py` does: `TakeInterrupt` injects, `EmulateOnce` is one
`emu_start` with what is compared after it, again while a repetition is not
over, and `CompareEnd` compares the blocks of memory that the vector expects, and
the I/O if it expects any. The expected values are the reference's, since
`run_vector` raises otherwise (`runner.py:808`); a vector here says which
addresses are compared. Unicorn is external, and Unicorn is an x86, not an 8088:

- where the script hooks it, it does what the hooks do (`EmulatedAs`);
- flags that an x86 leaves undefined are any (`UndefinedFlags`): OF after a
  shift of several places, AF after logic, all but CF and OF after a product;
- where an x86 is another processor (`AsAn8088` is false before the instruction,
  or `EndedAlike` after it) nothing is said: the comparison ends as "unknown"
  (`Leave`, in `Diverge` or `EmulateOnce`). Those are PUSHF, whose upper bits
  differ, shift counts of 32 and more, 0Fh and the other opcodes that only one of
  the two has, words at offset FFFFh, addresses beyond the megabyte, an odd SP, IP
  at the end of its segment, LOCK, both repeat prefixes on one instruction, and
  FLAGS with the trap flag or bits 3 and 5 set. Left to "unknown" as well: more
  prefixes than the script looks through, and the segment override of A0 to A3;
- everywhere else it is taken to do what the reference does.

### Disassembly and Inspection

`Disassembly` has the table and the loop of each listing script as functions
from offsets to lines (bytes taken; named, unnamed, raising, stopping).
`Inspection` holds the listings of a vector's program against the offsets at
which the reference really fetched instructions, and cuts the ROM at every byte.

### Monitor

A script is a sequence of steps (`Program`) with `client` at one of them; a
step is `SendCommand`, `Receive` (a piece), `Misread` (a piece out of step),
`SendFails` (VICE is gone), `TimeOut`, `Save` and so on. `Expire` is the deadline of the fault script and
`CleanUp` its `finally`. External, from how the scripts use it: VICE, which obeys
(`Obey`), runs and may hit the watchpoint (`Run`), ends or blocks (`Leave`).
`client.lost`, `asked` and `hitAt` are history.

### Cartridge

`Build` is the developer: `GenerateInclude` and `BuildCrt` are the tools,
`EditPayload` and `EditMedia` change the files between them. Then comes the
6502: `Check` (the signature), `CopyByte` (`@copy_payload`, a byte and the bank
switch behind it), `ClearByte` and `Cleared` (`@clear_bss`), `StageBank`. A byte is
known by its file, the file's version and its place.

## 4. What the runs check

| Run | States | Shows |
|---|---|---|
| `paged_memory` | 68,327 | `CachesCoherent`: a clean data page equals its backing page, the instruction page equals what data page or REU holds, only valid pages are dirty. `ImplementsFlatMemory`: every step is a step of the flat memory. |
| `interrupt_path` | 423,024 | `LatchNotOverwritten`: a taken latch keeps its vector. `RequestsConserved`: a line leaves the waiting set only for the latch or by an initialization, leaves the latch only into the handler, comes to the latch unmasked. `EventsServe`: a request or mask write leaves no unmasked line beside an empty latch. `LatchedIsEntered`: under fairness a latched interrupt is entered when the guest is ready again and again, a halted guest included. |
| `keyboard` | 186,316 | `RingDrained`: the ring is empty whenever the guest runs. `InOrder`: the stream refines `KeyStream` with bursts of at most five codes, none lost. `CodesAnnounced`: no code reaches the port without IRQ 1. |
| `pit` | 299,136 | `KeepsTime`: the byte pairs refine the word counters, with IRQ 0 exactly when counter 0 runs out and latched counts standing still. `StartsWhole`: a two-byte write starts the channel after both. `TimerFires`: a periodic channel 0 left alone fires for ever. |
| `timer_interrupt` | 70,666 | `UnmaskedTimerKeepsTime`: with the interrupt controller composed in, a step with line 0 unmasked keeps time |
| `fdc` | 2,210,916 | `PhasesExclusive`: no result is left while parameters are expected. `SeekEndTold`: a seek end disappears only into a SENSE that tells the head's cylinder, or a reset. `InterruptExplained`: IRQ 6 always has something for the guest to find. `ReadTold`: a normal result means every sector was copied, in order, and the channel stands behind them. `CopiesAuthorised`: memory changes only for drive A through an unmasked channel with room. |
| `fdc_terminal` | violation | terminal count does not stop a read |
| `arithmetic` | 84,356 | `SumsRight`: sums, differences and their flags, with carry, at both widths. `BranchesRight`: after CMP the conditional jumps but JLE and JG compare as their names say. `ShiftsRight`: each shift and rotate places every bit, and CF is the bit that left last. `DecimalRight`: decimal addition and subtraction. `ProductsRight`, `QuotientsRight`: exact products, quotients and remainders (of bytes unless a partial remainder carries), with division errors exactly where they belong. |
| `oracle` | 26,476 | `InterpreterAgrees`: the native interpreter does what the reference does, instruction by instruction, but for the named differences. `FramesReturn`: a handler that only returns leaves registers, stack and flags as they were. `StackLoadedWhole`: no interrupt between a load of SS and the next instruction. `AlarmsExplained`: as long as a program keeps to what an x86 does as an 8088, the comparison with Unicorn alarms only at flags the instruction left undefined, or in a vector of three kinds. `RoundsEnd`: the loop that drives a repetition ends. `NamedInStep`: a listing that has names for what is executed keeps step with it. `ListingsEnd`: every listing gets on and ends. `SearchesFind`: polls and port accesses that were executed are found. |
| `interpreter_moffs` | violation | A0 to A3 use a wrong offset |
| `monitor` | 85,506 | `FaultDumpExact`: the fault dump is the memory at the store that hit. `DumpAnswersRequest`: a saved dump answers the script's own request. `HitNotReadOver`: a hit is not read away before the script waits for it. `NoOrphan`: no VICE stays behind, but of a debug script that failed. `Ends`: every script ends. |
| `cartridge` | 47,240 | `PayloadArrives`, `MediaArrives`: what is on the cartridge is in memory and REU when the emulator is entered, if the loader was generated for the same files; the disk also needs a bank count the register can hold. |

The type invariants are proved (section 7) and not run again, but for
`PagedMemory`'s.
Deadlock is checked in `paged_memory`, `interrupt_path`, `keyboard`, `pit`,
`fdc`, `oracle`, `monitor` and `cartridge`, where a run that is over stutters
(`Over`, `Finished`). It is not in the runs of `Arithmetic`, whose programs end,
and in `timer_interrupt`: that model stops on purpose when the timer begins to
write memory behind its own (`pit_astray`), where what follows is no longer the
timer's behaviour.

## 5. Bounds

- **paged_memory**: 2 guest pages, 1 page of REU above, 2 bytes a page, 2 byte
  values, 2 diskettes' sectors of different content in both halves. Two guest
  pages are enough for every combination of hit, miss and same page for data,
  fetch and transfer; a transfer into the last page carries over the top; one
  carry page lets an address sum wrap. The proofs cover all sizes.
- **interrupt_path**: lines 0, 1 and 6, the only ones the program raises; the
  command bytes are an end of interrupt and the initializations with one,
  two and three words to follow; the data bytes mask none, line 0 or all
  lines and are at the same time vector bases, aligned and not.
- **keyboard**: a ring of 3 instead of 16, so that two pushes of two codes each
  come near its limit; two keys, so that order can go wrong; KERNAL and BIOS
  buffers of 2; port 61h bytes with each combination of bits 6 and 7.
- **pit**: bytes have 2 values, so a word has 4: borrow between bytes, reload 0
  (the longest count) and count 1 all occur. Channels 0 and 2 are programmed;
  the control bytes have each access mode, latching, periodic and one-shot
  modes, and the ignored channel 3. Instructions take 2, 3 or 6 cycles: no
  tick, a tick after several, two ticks with a remainder.
- **timer_interrupt**: one control byte (periodic, low byte only), one data
  byte, all three lines, the mask bytes 0 and 1: the cases in which line 0 is
  masked behind, or not.
- **fdc**: bytes of the DMA registers have 4 values, so a word has 16 and a
  sector is 8; every command with parameters that succeed and fail (no sector to
  read, a sector number past the limit); drive selects A and not A; resets at
  any time. Reads of one to three sectors run into count, mask and address wrap.
- **arithmetic**: real widths. Sums, products and divisions on the edges of
  bytes and words (0, 1, the half, all ones, their neighbours and values that
  differ between the bytes) with both carries; shift counts 0, 1, 2, 7 to 9, 15
  to 18 and 35, which are below, at and past each width and the one more of
  RCL and RCR; the decimal digits at which an adjustment begins or stops to be
  needed; AAM and AAD on every AL with six bases; programs of two and three
  instructions for every piece of scratch state one leaves to another.

- **oracle**: about 150 programs of up to eight bytes, each six steps long,
  with and without a maskable interrupt and an NMI waiting (the NMI's handler
  breaks into another), with flags clear and set; then every opcode and every
  group extension with a memory and a register operand, for one step; then
  interrupts whose vectors are the BIOS's stub. The programs at boundaries wrap SP,
  IP, effective addresses, ports and the megabyte, and put together an
  instruction that leaves scratch state with one that reads it. `Patience` is 5 calls
  of `emu_start` per entry: repetitions are of at most two rounds. A ROM ends up to
  five bytes behind the program (`Beyond`). Prefixes have no bound: an
  instruction has as many as come before its opcode, and where a whole segment is
  nothing but prefixes the step has no end in `runner.py` either (the guard
  `PrefixesEnd`).
- **monitor**: all four scripts; two ticks of the machine, so that it can move
  before, at and after the hit; requests share ids as the scripts' counters
  make them. The proofs cover every number of ticks.
- **cartridge**: banks of 4 bytes with 1 for the loader, at least 2 banks, a bank
  register that counts to 6, 11 bytes of memory and 16 of REU; payloads of 1, 3,
  4, 7 and 8 bytes and disks of 0, 3, 4, 5 and 13 bytes end before, at and
  behind a bank's end, and the largest need one bank too many. The proofs cover
  all sizes.

## 6. Fairness

Only what the code's schedule gives. `WF_vars(Step)`: the main loop calls
`cpu8088_step` for ever. `WF_vars(RequestIrq(0) ...)`: a running periodic timer
raises line 0 again and again, since `pit_advance_cycles` follows each step (this is
`TimerFires` of `Pit`). `WF_vars(Elapse)`, `WF_vars(Tick)`: each step is
followed by the advance, whose loop runs until the accumulator is below 4.
`WF_vars(Client)` of `Monitor`: a script
that has a step to make makes it, because each of its reads has a timeout and
VICE is waited for with one. No fairness is assumed of VICE, of the
guest program or of the user: a property that needs the guest to become ready
says so in its premise (`[]<>Willing`).

## 7. What is proved

For every value of the constants that the `ASSUME`s allow:

**PagedMemoryProofs** (from `PagedAssumption`: positive sizes, guest inside the
REU, at most one wrap of an address sum). `TypeCorrect`; `Coherence`
(`[]CachesCoherent`); `CachesInvisible` (`Spec => Flat!Spec`). The inductive
invariant is `TypeOK /\ CachesCoherent`: that only a valid page is dirty is
needed for `FlushedReu` to survive an invalidation; that the clean data page is
current makes a refill that skips the write-back harmless; that the instruction
page equals `FlushedReu` makes a fetch a read of flat memory. The central lemma
is that a refill leaves the flushed REU as it was. Refinement then follows
action by action: refills and flushes stutter, the others are the flat
actions.

**InterruptPathProofs** (from `PicAssumption`; what is said of the timer from
`PitAssumption` and `TimerInterruptAssumption`). `TypeCorrect`; `NoOverwrite`;
`NothingLost` (`RequestsConserved`); `ServedOnEvents`. The invariant is `TypeOK`,
strengthened where it must be by its own conjunct that the vector base is a
multiple of 8: without it the latch's line could not be read back from the
vector. One lemma states what `Service` can do; each action's proof cites it.

The timer alone (from `PitAssumption`: a byte has at least two values; the
channels, control bytes and cycles of an instruction are in their ranges).
`TimerTypeCorrect`; `WholeStarts` (`StartsWhole`); `TimeKept` (`PitSpec => KeepsTime`,
which is `Counters!Spec`): the counters of `pit.s`, which count in
pairs of bytes, implement the word counters of `Timer` for every base. The
inductive invariant is `PitTypeOK` and, per channel, that the second half of a count
is awaited only in the access mode that has two: a start then ends the phase.
The central lemma is the borrow, `CountedWord`: a pair counted down is the word
less one, modulo a word. `AbstractTick` then matches the loop over the channels
with one tick of `Timer`; reads are stutters, or the release of a latch.

`TimeKeptUnmasked` (`SpecBoth => UnmaskedTimerKeepsTime`) is about both together:
their two invariants are inductive side by side, also when a tick goes astray on
channel 1; with line 0 unmasked the search ends at 0 (`UnmaskedLeavesX`), so the
tick is `Pit`'s, and `PitNextStep` tells what it does.

**KeyboardProofs** (from `KeyboardAssumption`). `TypeCorrect`;
`RingAlwaysDrained`; `EveryCodeAnnounced` (`CodesAnnounced`);
`KeyboardImplementsStream` (`Spec => InOrder`). `RingDrained` is inductive together with `TypeOK`; the proof
follows a handler call by call with lemmas on `Push` and `Service` that bound
the count after each: two pushes from empty reach 2, which every ring of at
least two places holds, and the services bring it back to 0. Because of it the
codes on their way are at most the one in the one-place buffer, so what each
routine does to the stream is one small case: a handler starts from at most one
code and adds at most four, hence the bursts of five. That no code is
lost rests on the count after each push, which never comes to the overflow
branch.

**FdcProofs** (from `DmaAssumption` and `FdcAssumption`: at least two values of a
byte, at least one head and one sector per track). `TypeCorrect`; `Phases`
(`PhasesExclusive`); `SeekEnds` (`SeekEndTold`); `Interrupts`
(`InterruptExplained`); `Reads` (`ReadTold`); `Copying` (`CopiesAuthorised`). The
inductive invariant is `TypeOK /\ PhasesExclusive` with two facts that neither of
them has: the number of parameters awaited is that of the command held (without
it the eighth parameter could belong to any command, and `ReadTold` fails), and a
pending seek end is of the cylinder the head is at (without it `SENSE` could tell
another). That the copy stops at the first sector the channel refuses rests on
the least number principle (`Moved` is well defined: the library's well-founded
order of the naturals), and the consecutive destinations on three lemmas about
remainders.

**ArithmeticProofs** (from `ArithmeticAssumption`: the programs are made of the
instructions and of words). `TypeCorrect`; `SumsCorrect` (`Spec => SumsRight`);
`BranchesCorrect` (`Spec => []BranchesRight`): for every program, operand and
carry, at both widths. The lemmas go up from the byte: what ADC leaves in byte
and carry, the carry from the fifth bits of the operands and the result (the
auxiliary carry), the overflow from the three signs. A subtraction is the
addition of the complement, so its facts follow from those of the sum; a word
is two bytes joined by the carry between them. `SumsRight` follows from `TypeOK`
one opcode group at a time. `BranchesRight` is inductive with `TypeOK`: no action
but a CMP makes `Compared` true, and a CMP leaves the operands in place with
the flags of their difference.

The loops are next. `ProductsCorrect` (`ProductsRight`) rests on what one turn of
shift and add keeps: the product so far and the multiplicand times what is left of the
multiplier add up to the same. `QuotientsCorrect` (`QuotientsRight`) on what one turn
of the division keeps: the quotient's digits times the divisor, and the remainder, are the
dividend's digits so far. With bytes a turn keeps that only while the remainder, doubled,
does not carry; what the remainder is before each turn can be said of the dividend
alone (`PartialRemainder`), so that `NeverCarries` is about dividend and divisor and not
about the loop. A divisor of up to 128 never carries, hence IDIV is always
right; a larger one may, and then the code is wrong (section 8), but DIV still
fails exactly where no quotient fits. `ShiftsCorrect` (`ShiftsRight`) on a tape: the operand's
bits, continued to both sides by what the instruction shifts in; one turn moves
the window along it by one place, CF being the place just left. The models' loops are powers
of one turn (`Iteration`), so each fact of a turn is carried to 2, 4, 16 and 256
turns by doubling, without an induction. `DecimalsCorrect` (`DecimalRight`) needs
a memory of the instruction before: `Remembered` says that after an ADC or SBB of
bytes as the first instruction AL, CF and AF are those of their sum or difference
with the carry the code began with, from which each adjustment follows digit by
digit.

**CartridgeProofs** (from `CartridgeAssumption`: the payload with its BSS fits the
memory, the disk the REU, and the payload's banks have numbers the register can
hold). `TypeCorrect`; `PayloadWhole` (`[]PayloadArrives`); `MediaWhole`
(`[]MediaArrives`). The inductive invariant follows two cursors: while the payload
is copied, the place in the cartridge (`bank * BankSize + source`) is
`BootstrapSize` further than the place in memory, and the mapped bank is the one
the loader counts; while the disk is staged, the banks left and the bank in hand
add up to the bank count. With them it says what has arrived so far (`Contents`).
That the cursors start where `build_crt` put things rests on lemmas about rounding up
(`Ceiling`, `RequiredBanksFit`): the payload's bytes all lie before the
disk's first bank.

**MonitorProofs** (from `MonitorAssumption`). `TypeCorrect`; `FaultDumpIsExact`
(`[]FaultDumpExact`); `NoneLeftBehind` (`[]NoOrphan`); `DumpsAnswer`
(`[]DumpAnswersRequest`); `HitsAreRead` (`[]HitNotReadOver`). `FaultDumpIsExact` is an argument
about order: the fault script's commands are sent in one order and obeyed in it,
so the resume is obeyed before the machine can run into the watchpoint, and after
the hit only the memory request and the quit are on their way; neither lets the
machine run. The invariant ties the script's step to the commands sent, those to
inbox and wire, and the hit to a machine that stands still; messages misread
under a shared id can change what the script knows, but not this order.
The last two hold for all four scripts, by the invariant `AInv`: until the machine is
resumed it does not run with a watchpoint set and no command that lets it run is under
way (`BeforeExit`); a hit that happened while the script waits with its stream in order
is still on the wire (`HitAhead`); no answer to a memory request on the wire or
in the inbox is older than the request, and what is saved answers it
(`Answering`).

**OracleProofs** (from `VectorsAssumption`, what `run_vector` masks its input to:
words in the registers, bytes in a memory of a megabyte, FLAGS without the four bits
that the 8088 does not have). `ReferenceStaysMachine`; `StackIsLoadedWhole`
(`[]StackLoadedWhole`); `FramesAlwaysReturn` (`[]FramesReturn`). Here the run shows
some hundred programs and the proof every program, since it goes through the
handlers and not through instructions. A handler is made of a few operators
(`SetFlags`, `Write`, `Push`, `Popped`, `Jump`, `Alu`, ...); a lemma for each says that
a machine goes in and a machine comes out with the same SS (`Kept`), and
`HandledSound` puts them together: after any handler either SS is as it was or the
shadow is set, and either nothing was left to return to or the stack holds an exact
frame (`Sound`, `Framed`). A frame is exact because its three words lie apart, also
where the stack wraps inside its segment (`Apart`, `ThreeWords`), and because the bits
of `Number` are the bits it was made of (`Bits`, by the division of a number into
sixteen digits); a division error inside an arithmetic handler leaves the same frame as
INT. `Restored` is the way back: IRET on an exact frame. The inductive invariant
(`TraceInv`) says of the *last* entry of the trace only what is true of the machine now
(`Linked`): if it changed SS the shadow is 1, and if it left an address to
return to the frame is still on the stack. The two properties, which are about two
entries that follow each other, need it, and do not imply it. Repetitions are a recursive
function of CX; that every value of it is a machine is shown by the *least* count
at which it would not be (`Iterated`), as induction theorems are out of reach.

What stays with TLC, and why:

- `AlarmsExplained`, `InterpreterAgrees`: about two programs that compute the same
  thing by different means (shift loops and signed borrows in 6502 code against
  Python's numbers). For every operand that is an equality of recursive
  functions, an induction over data. `ArithmeticProofs` has the part of it that is not.
- `RoundsEnd`: depends on `Patience` and on how far CX counts down.
- `NamedInStep`, `ListingsEnd`, `SearchesFind`: listings are recursive functions over a
  ROM, and their tables are long enough that a proof would repeat them.
- Liveness (`LatchedIsEntered`, `TimerFires`, `Ends`), which no installed prover does.

The assumption on FLAGS leaves out one vector of the suite,
`ror_al_cl_matches_bios_video_helper`, whose FLAGS (8775, which is 2247h) have bit 13 set: `runner.py` keeps
such a bit until flags are next popped.

## 8. Disagreements between the code and what is said of it

Two are runs that must find their violation; `PROJECT.json` quotes the lines.

1. **Direct offsets are lost** (`interpreter_moffs`). `@mov_moffs` keeps the low byte
   of the offset in `cpu8088_offset` while it fetches the high byte, and the
   fetch puts IP there. `MOV AL,[1234h]` reads at 12xxh, where xx is the low byte
   of the second operand byte's IP.
2. **Terminal count does not stop a read** (`fdc_terminal`). The count that ends
   with a sector wraps to FFFFh and is accepted again.

The differences between the native interpreter and the reference are the
disjuncts of `Parted` in `Lockstep`; without any one of them `InterpreterAgrees` is
violated:

- `DirectOffset`: the above.
- `WordComplement`: NOT of a word in memory stores a byte too far, because
  reading the word has moved the address on (`step.s:1020`).
- `OrderedWithCarry`: JLE and JG test CF before SF and OF (`step.s:3427`).
- `LargeDivisor`: the bit that leaves the partial remainder is lost when a byte
  divisor is above 128: 38400 / 200 gives AL 185 and AH 216 (`divide.s:24`).
- `RotateAfterCompare`: rotates do not set `alu_operation`, and
  `@alu_store_result` leaves the operand alone when it finds a CMP there.
- `CarryKept`: MUL, IMUL, TEST r/m,imm and DAA after an INC or DEC keep the CF from
  before it; for the products CF and OF then differ (`step.s:954` says they are
  set together).
- `StackAtZero`: the native poll refuses an interrupt while SP is 0, the
  reference takes it.
- `StubReplaced`: a vector that points to F000:E000 is replaced on entry by the
  BIOS's own routine.
- `NotInReference`: LEA, POP r/m, CBW, DAS, XLAT and INC or DEC of FFh, for which
  `runner.py` has no branch: the first three are in the table it reads and
  raise, the others count as invalid. The native LEA stores the physical
  address and not the offset; the native POP to a register writes the register
  of the wrong field.

Other things the modelling showed, which no run asserts:

- *Timer.* `pit_tick_channel` keeps its channel in X across `pic_request_irq`, which
  leaves in X the line it delivers. With line 0 masked and another line waiting
  unmasked behind a free latch the tick goes on with the wrong channel, or in
  memory behind the channels (CONTINUATION.md:583 wants channel 0 to fire
  deterministically). `UnmaskedTimerKeepsTime` says that an unmasked line 0 is
  safe. The high byte of a latched pair releases the latch without turning the
  read phase back. A new reload value acts on a running counter's next reload
  already by halves.
- *Interrupts.* A line left waiting is looked at only when another is raised or
  the mask is written, so a more urgent line that keeps coming starves it.
- *Keyboard.* The autokey's make code is overwritten by its break code before the
  guest runs. The KERNAL's scan, which fills the buffer the poll reads, needs
  host interrupts, and the boot masks them. `io_keyboard_service` rewrites the
  pointers of the BIOS's buffer with each code, dropping keystrokes the BIOS
  holds. The ring's overflow branch leaves the count one short, but is never
  taken (proved).
- *Diskette.* Nine sectors for every track whatever the geometry. A WRITE is executed
  as a READ. Commands are accepted while the output register holds the controller
  in reset. The result of a refused command shows parameters of an earlier one. A
  SENSE just after a reset reports the reset's senses before a seek end.
- *Cartridge.* More than 128 banks: the bank number reaches the bit that switches
  the cartridge off, and no tool refuses; hence the premise of `MediaArrives`.
- *Comparison.* The alarms that `AlarmsExplained` excuses. The script compares flags
  that an instruction leaves undefined, but for a program that begins with AAM
  or AAD (`unicorn_oracle.py:161`), and there for all the instructions behind it
  too. Unicorn runs on past a halt. The script's ports 60h to 62h are not the
  reference's. The reference ignores a segment override of A0 to A3.
- *Monitor.* A dump file of an earlier session stays when a later one fails. A
  debug script that fails leaves its VICE on the port.
- *Listings.* `f44d_forward_disasm.py` lists an opcode of which it reads no operand for ever;
  `f44d_trace_backwards.py` stands still at the ROM's last byte;
  `decode_f78d.py` raises at POP; `analyze_f44d_stall.py` takes a TEST's mask for
  the next opcode. `Missized`, `StandsStill` and `Raising` in `Inspection` list which
  opcodes each table has wrong.

## 9. What is not modelled

- Cycle counts of the processor, except that the timer sees some; the fields
  the fault screen, trace ring and diagnostics line show: output.
- Refused REU copies inside an instruction: no caller passes the zero length that
  is the only reason. A repeat prefix before MUL or IMUL: no string instruction,
  but `alu_string_compare`, which they leave as it was, may then send them
  into the loop of one.
- CGA registers and start address, the address decoding of `io.s`, the guest
  image loader's loops, the counter of the main loop: planned (section 10).
- Detection and sizing of the REU: run once before the guest, no state is kept
  but a pass or a fail. The turbo control writes two hardware registers.
- The self-tests behind `jmp boot_guest` (`hwtest.s:210`): never run.
- The mode register of the DMA channel: stored, never used. The read ports of
  the DMA: not reached from `io.s`. `cartridge/media_stage.s`: never called.
- The tools that convert files in one pass (guest image, ROM and media checks,
  generated tables), and the texts the listing scripts print.
- Scripts that cannot do their work: `f44d_trace_bwd2.py`, whose window is empty;
  `f44d_trace_callers2.py` and `f44d_find_callers_simple.py`, which raise a
  TypeError at once; `disasm_f44d.py` and `analyze_opcode_gaps.py`, which do not
  compile; the tracers that wait for a mnemonic `OUT`, which the reference never
  reports.

## 10. Plan

In the order of what the system's correctness rests on most:

1. *(done)* Memory and its caches: `GuestMemory`, `PagedMemory`, proofs.
2. *(done)* Interrupts: `Pic`, `InterruptPath`, proofs.
3. *(done)* Keyboard: `KeyStream`, `Keyboard`, proofs.
4. *(done)* Timer: `Timer`, `Pit`, `TimerInterrupt`, proofs.
5. *(done)* Diskette: `Dma`, `Fdc`, proofs.
6. *(done)* Arithmetic: `Iteration`, `Alu`, `MulDiv`, `Arithmetic`, proofs.
7. *(done)* The interpreter in lockstep with the reference: `Cpu8088`, `Reference`,
   `Interpreter`, `Lockstep`; the comparison, `Oracle`; the listings,
   `Disassembly`, `Inspection`, proofs for the reference.
8. *(done)* Cartridge: `Cartridge`, proofs. The monitor scripts: `Monitor`, proofs.
9. `Machine`: the main loop's schedule with batch counter, halt, fault stop and
   the devices as they are seen from it; property: a halted guest with an
   enabled periodic timer is woken; a fault stops everything.
10. `Io`: the port map as a function from ports to devices; `Cga`: registers, start
    address, status toggle and choice of columns.
11. The guest loader's page-by-page copies against a copy in one step.

A new run takes the place of a narrower one, or several small components share
one state machine, so that the runs stay few and each asks its own question.
