----------------------------- MODULE Inspection -----------------------------
(***************************************************************************)
(* The listings of the scripts (Disassembly) against what the reference    *)
(* processor executed of the same bytes (Oracle): the program of a vector  *)
(* is the ROM, and every offset that an instruction was fetched from is    *)
(* where an instruction really begins.                                     *)
(***************************************************************************)
EXTENDS Oracle, Disassembly

\* The bytes of the program and some after it, and every shorter ROM.
Beyond == 5
RomEnd == Len(vector.program) + Beyond
RomOf(n) == [k \in 0 .. n - 1 |-> CodeAt(Loaded(vector), k)]
Roms == {RomOf(n) : n \in 1 .. RomEnd}

Executed == stage = "oracle" /\ at = 1 /\ tries = 0
Plain == vector.irq = {} /\ ~vector.nmi /\ vector.flags = {RESERVED}

\* Where the k-th entry of the trace was fetched from.
Offset(k) == Earlier(k)["IP"] - Loaded(vector).regs.IP
Transfers == {"jmp_rel8", "jmp_rel16", "jcc_rel8", "loop_rel8", "call_rel16", "call_far", "jmp_far",
              "ret_near", "ret_far", "iret", "int3", "int_imm8", "into", "group5"}
NoInstruction == {"IRQ", "NMI", "HLT", "INVALID"}
Straight(k) ==
  /\ expected[k].return = {} /\ expected[k].status = "ok"
  /\ expected[k].mnemonic \notin Transfers \cup NoInstruction
  /\ Earlier(k)["CS"] = Loaded(vector).regs.CS
  /\ Offset(k) >= 0 /\ Offset(k + 1) < RomEnd

Elements(s) == {s[i] : i \in 1 .. Len(s)}

----------------------------------------------------------------------------
\* The opcodes that a script has a name for and a wrong length.
ModrmOps == {op \in 0 .. \h3F : op % 8 < 4} \cup \h80 .. \h8F
Missized ==
  [deep    |-> {\hE7, \hF6, \hF7, \hC0, \hC1, \hD0},
   stall   |-> {\hE9, \hBE, \h80, \hF7, \h8A, \h8B, \hA8, \hC5, \hDB},
   f78d    |-> ModrmOps \cup PortOps \cup {\hC4, \hC5, \hFE, \hF6, \hF7, \hEA, \h9A, \hC0, \hC1},
   scan    |-> PortOps,
   first   |-> {}, second |-> {}, third |-> {}, fourth |-> {},
   clean   |-> {\h8A, \h8B, \h8C, \h8E, \hC0, \hC1} \cup MovWord,
   v2      |-> {\h8A, \h8B, \h8C, \h8E, \hC0, \hC1} \cup MovWord,
   v3      |-> {\h8A, \h8B, \h8C, \h8E, \hC0, \hC1},
   final   |-> {\h8A, \h8B, \h8C, \h8E, \hC0, \hC1},
   simple  |-> {\h8A, \h8B, \h8C, \h8E, \hC0, \hC1},
   forward |-> 0 .. 255]

\* A listing that has a name for what is executed keeps step with it: from a
\* line where an instruction begins, over lines that are all named, the next
\* instruction begins at a line again, but for the opcodes that a table has
\* with a wrong length.
NamedInStep ==
  Executed =>
    LET tables == Tables(RomOf(RomEnd))
    IN  \A script \in Scripts :
          LET rom == RomOf(RomEnd)
              listed == Elements(Listing(script, tables[script]))
          IN  \A k \in 1 .. Len(expected) - 1 :
                Straight(k) /\ Offset(k) \in listed /\ Offset(k) \in DOMAIN rom =>
                  LET within == {a \in listed : Offset(k) <= a /\ a < Offset(k + 1)}
                  IN  \/ Offset(k + 1) \in listed
                      \/ \E a \in within : tables[script][a].kind # "named" \/ rom[a] \in Missized[script]

\* Every listing ends, whatever the code is and wherever the ROM ends: a line
\* goes on by at least a byte.  Two tables have lines that do not: the one of
\* f44d_forward_disasm.py stands still at the opcodes of which it reads no
\* operand, and gets on at all others, and f44d_trace_backwards.py stands
\* still at the ROM's last byte.  And a listing ends by an exception or a
\* break only in the last bytes of the ROM, where an operand is missing; three
\* tables raise at opcodes of their own.
StandsStill ==
  [forward |-> (0 .. 255) \ (Jcc \cup \hB0 .. \hBD \cup \hE0 .. \hE2
                 \cup {\h68, \h6A, \h80, \h82, \hEB, \hA8, \hCD, \hE4, \hE5, \hC2, \hCA}
                 \cup {\hC4, \hC5, \h0F, \h9A, \hFE, \hFF} \cup ForwardPrefixes)]
Raising ==
  [clean |-> \h80 .. \h83 \cup {\hA2, \hA3}, f78d |-> \h58 .. \h5F, forward |-> {\hF6} \cup ForwardPrefixes]

EndsInOrder(rom, script, lines) ==
  LET s == Listing(script, lines)
      end == s[Len(s)]
  IN  /\ Stuck(lines, s) => script \in DOMAIN StandsStill /\ rom[end] \in StandsStill[script]
      /\ end \in DOMAIN rom /\ lines[end].kind \in {"raises", "stops"} =>
           \/ end + 4 \notin DOMAIN rom
           \/ script \in DOMAIN Raising /\ rom[end] \in Raising[script]

ListingsEnd ==
  Executed /\ Plain =>
    \A rom \in Roms :
      /\ LET tables == Tables(rom)
         IN  \A script \in Scripts : EndsInOrder(rom, script, tables[script])
      /\ \A start \in DOMAIN rom :
           /\ ~Stuck(BackLines(rom, start), BackListing(rom, start))
           /\ start + 1 \in DOMAIN rom => ~Stuck(TraceLines(rom, start), TraceListing(rom, start))

\* What the scripts search for and was executed is found.  A poll, which is
\* IN, TEST of a mask and a branch, is reported by both scripts that look for
\* polls, if their listing came to the IN; the stall analysis takes the mask
\* for the next opcode, and may lose the branch behind a mask that has
\* operands as an opcode.  A port access is in the summary of decode_f78d.py,
\* or the byte before it was taken for one and it for its operand.
PollExecuted(k, rom) ==
  /\ k + 2 <= Len(expected) /\ Straight(k) /\ Straight(k + 1)
  /\ rom[Offset(k)] = \hEC /\ rom[Offset(k + 1)] = \hA8 /\ rom[Offset(k + 2)] \in {\h74, \h75}
AccessExecuted(k, rom) ==
  Straight(k) /\ Offset(k) \in DOMAIN rom /\ rom[Offset(k)] \in PortOps

SearchesFind ==
  Executed =>
    LET rom == RomOf(RomEnd)
        found == Elements(Listing("scan", F78dScan(rom)))
    IN  \A k \in 1 .. Len(expected) :
          /\ PollExecuted(k, rom) =>
               /\ Offset(k) \in Elements(DeepListing(rom)) => Offset(k) \in DeepPolls(rom)
               /\ Offset(k) \in Elements(StallListing(rom)) =>
                    \/ Offset(k) \in StallPolls(rom)
                    \/ StallLines(rom)[Offset(k + 1) + 1].size > 1
          /\ AccessExecuted(k, rom) =>
               \/ Offset(k) \in found
               \/ Offset(k) - 1 \in DOMAIN rom /\ rom[Offset(k) - 1] \in PortOps
=============================================================================
