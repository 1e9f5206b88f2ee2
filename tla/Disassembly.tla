---------------------------- MODULE Disassembly ----------------------------
(***************************************************************************)
(* The scripts of tools/ that list ROM code as instructions: each has a    *)
(* table of opcodes of its own, and a loop that goes on by what its table  *)
(* says an instruction takes.  A ROM is a function from offsets to bytes;  *)
(* a line of a listing is the bytes it takes and whether the script has a  *)
(* name for it, raises there, or stops.  Mnemonics and operands are left   *)
(* out: wherever a script looks for a name again, the opcode tells it.     *)
(***************************************************************************)
EXTENDS Integers, Sequences, FiniteSets

Named(n)   == [size |-> n, kind |-> "named"]
Unnamed(n) == [size |-> n, kind |-> "unnamed"]
Raises     == [size |-> 0, kind |-> "raises"]
Stops      == [size |-> 0, kind |-> "stops"]

\* A line of n bytes, or another if the ROM ends within it.
Whole(rom, at, n, line, cut) == IF at + n - 1 \in DOMAIN rom THEN line ELSE cut

ModField(b) == b \div 64
RmField(b)  == b % 8

\* The bytes of a displacement, and those that the ROM has.
DisplacementSize(b) ==
  CASE ModField(b) = 0 /\ RmField(b) = 6 -> 2
    [] ModField(b) = 1 -> 1
    [] ModField(b) = 2 -> 2
    [] OTHER -> 0
DisplacementRead(rom, at) ==
  LET n == DisplacementSize(rom[at + 1])
  IN  IF at + 1 + n \in DOMAIN rom THEN n ELSE 0

\* The offsets of the lines, up to the one where the listing ended: outside
\* the window or the ROM, at a line that raised or stopped, or at the limit.
\* With more lines than the ROM has bytes it does not get on any more, and
\* what it would still list is the same line.
Listed(lines, window, most) ==
  LET n == Cardinality(DOMAIN lines) + 1
      Ends(at) == at \notin DOMAIN lines \/ at >= window \/ lines[at].kind \in {"raises", "stops"}
      sweep[i \in 0 .. n] ==
        IF i = 0 THEN <<0>>
        ELSE LET s  == sweep[i - 1]
                 at == s[Len(s)]
             IN  IF Ends(at) \/ i > most THEN s ELSE Append(s, at + lines[at].size)
  IN  sweep[n]
Stuck(lines, s) ==
  s[Len(s)] \in DOMAIN lines /\ lines[s[Len(s)]].kind \notin {"raises", "stops"}

MovByte == \hB0 .. \hB7
MovWord == \hB8 .. \hBF
Jcc     == \h70 .. \h7F
SegmentBytes == {\h26, \h2E, \h36, \h3E}

----------------------------------------------------------------------------
\* f44d_deep_decode.py
DeepShort == {\hEB, \h75, \h74, \h7E, \h7C, \h7F, \h78, \h72, \h73, \h71, \h70}
DeepPlain == {\hC3, \hFA, \hEC, \hED, \hEE, \hE7, \hAA, \hAB, \h55, \hF0, \hF2, \hF3, \h64, \h65}
               \cup SegmentBytes
DeepSimple(rom, at) ==
  LET op == rom[at]
  IN  CASE op \in MovByte \cup DeepShort -> Whole(rom, at, 2, Named(2), Raises)
        [] op = \hA8 -> Named(2)
        [] op \in {\hA0, \hA1} ->
             IF at + 2 \in DOMAIN rom THEN Whole(rom, at, 5, Named(3), Raises) ELSE Named(3)
        [] op = \hE9 -> Named(3)
        [] op \in DeepPlain -> Named(1)

DeepGroups == \h80 .. \h83 \cup {\hC0, \hC1, \hF6, \hF7} \cup \hD0 .. \hD3
DeepGroup(rom, at) ==
  LET n == 2 + DisplacementRead(rom, at)
      immediate == CASE rom[at] \in {\h81, \hC1} -> 2
                     [] rom[at] \in {\h80, \h82, \h83, \hC0, \hD0, \hF6} -> 1
                     [] OTHER -> 0
  IN  IF at + 1 \notin DOMAIN rom THEN Unnamed(1)
      ELSE Whole(rom, at, n + immediate, Named(n + immediate), Named(n))

DeepMoves == \h8A .. \h8F
\* (Variant: without its second byte, an instruction takes none.)
DeepMoveTakesNone(rom, at) ==
  LET n == DisplacementRead(rom, at)
  IN  IF at + 1 \notin DOMAIN rom THEN Unnamed(0)
      ELSE IF n = 0 /\ DisplacementSize(rom[at + 1]) = 2 /\ ModField(rom[at + 1]) = 0 THEN Named(3)
      ELSE Named(2 + n)
DeepMove(rom, at) ==
  LET n == DisplacementRead(rom, at)
      absent == n < DisplacementSize(rom[at + 1])
  IN  IF at + 1 \notin DOMAIN rom THEN Unnamed(1)
      ELSE IF absent /\ ModField(rom[at + 1]) = 0 THEN Named(3)
      ELSE Named(2 + n)

DeepDecode(rom, at) ==
  LET op == rom[at]
  IN  CASE op \in DeepGroups -> DeepGroup(rom, at)
        [] op \in DeepMoves  -> DeepMove(rom, at)
        [] op \in MovByte \cup DeepShort \cup DeepPlain \cup {\hA8, \hA0, \hA1, \hE9} ->
             DeepSimple(rom, at)
        [] OTHER -> Unnamed(1)
DeepLines(rom) == [at \in DOMAIN rom |-> DeepDecode(rom, at)]
DeepListing(rom) == Listed(DeepLines(rom), 150, 50)

\* The polls it reports: IN AL,DX with a branch on a flag among the next five.
DeepBranches == {\h72, \h73, \h74, \h75, \h78}
DeepPolls(rom) ==
  LET s == DeepListing(rom)
  IN  {s[i] : i \in {j \in 1 .. Len(s) - 1 :
         /\ rom[s[j]] = \hEC
         /\ \E k \in j + 1 .. j + 5 : k < Len(s) /\ rom[s[k]] \in DeepBranches}}

----------------------------------------------------------------------------
\* f44d_full_context.py: four windows, the loop copied for each.
ContextByte  == {\hA8, \h74, \h75, \hEB, \hCD}
ContextPlain == {\hEC, \hEE, \hFA, \hFB, \h90}
\* (Variant: a port access has an operand byte, as in decode_f78d.py.)
ContextLinePortOperand(rom, at, plain, byte) ==
  CASE rom[at] = \hBA -> Whole(rom, at, 3, Named(3), Unnamed(1))
    [] rom[at] \in byte \cup {\hEC, \hEE} -> Whole(rom, at, 2, Named(2), Unnamed(1))
    [] rom[at] \in plain \ {\hEC, \hEE} -> Named(1)
    [] OTHER -> Unnamed(1)
ContextLine(rom, at, plain, byte) ==
  CASE rom[at] = \hBA -> Whole(rom, at, 3, Named(3), Unnamed(1))
    [] rom[at] \in byte -> Whole(rom, at, 2, Named(2), Unnamed(1))
    [] rom[at] \in plain -> Named(1)
    [] OTHER -> Unnamed(1)
FirstRegion(rom) ==
  [at \in DOMAIN rom |-> ContextLine(rom, at, ContextPlain, ContextByte \cup {\hB0})]
SecondRegion(rom) ==
  [at \in DOMAIN rom |-> ContextLine(rom, at, ContextPlain \cup {\hC3}, ContextByte)]
ThirdRegion(rom) ==
  [at \in DOMAIN rom |-> ContextLine(rom, at, ContextPlain \cup {\hC3}, ContextByte)]
FourthRegion(rom) ==
  [at \in DOMAIN rom |-> ContextLine(rom, at, ContextPlain \cup {\hC3}, ContextByte)]

----------------------------------------------------------------------------
\* analyze_f44d_stall.py
StallByte  == {\hE6, \hE7, \hEB, \hE9, \h75, \h74, \h7E, \h7C, \h7F, \h78, \h72, \h73, \h71, \h70}
StallPlain == {\h8A, \h8B, \hA8, \hC5, \hC3, \hFA, \hEC, \hED, \hEE, \hAA, \hAB, \h55, \hDB, \h36}
StallModrm(rom, at) ==
  LET b == rom[at + 1]
      memory == CASE RmField(b) = 6 -> 2
                  [] RmField(b) = 5 /\ ModField(b) = 0 -> 2
                  [] RmField(b) \in {4, 5} /\ ~(RmField(b) = 5 /\ ModField(b) = 0) -> 1
                  [] OTHER -> 0
      n == IF at + 1 \notin DOMAIN rom THEN 1
           ELSE 2 + IF ModField(b) = 3 THEN 0 ELSE memory
  IN  IF rom[at] = \h80 /\ at + n \in DOMAIN rom THEN Named(n + 1) ELSE Named(n)
StallDecode(rom, at) ==
  LET op == rom[at]
  IN  CASE op \in MovByte -> Whole(rom, at, 2, Named(2), Raises)
        [] op \in StallByte -> Named(2)
        [] op = \hBE -> Named(4)
        [] op \in {\h80, \hF7} -> StallModrm(rom, at)
        [] op \in {\hA0, \hA1} -> Named(3)
        [] op \in StallPlain -> Named(1)
        [] OTHER -> Unnamed(1)
StallLines(rom)   == [at \in DOMAIN rom |-> StallDecode(rom, at)]
StallListing(rom) == Listed(StallLines(rom), 200, 60)

\* (Variant: only the line after the IN is looked at.)
StallPollsShort(rom) ==
  LET s == StallListing(rom)
  IN  {s[i] : i \in {j \in 1 .. Len(s) - 1 :
         /\ rom[s[j]] = \hEC
         /\ \E k \in {j + 1} : k < Len(s) /\ rom[s[k]] \in {\h74, \h75}}}
StallPolls(rom) ==
  LET s == StallListing(rom)
  IN  {s[i] : i \in {j \in 1 .. Len(s) - 1 :
         /\ rom[s[j]] = \hEC
         /\ \E k \in j + 1 .. j + 7 : k < Len(s) /\ rom[s[k]] \in {\h74, \h75}}}

----------------------------------------------------------------------------
\* decode_f78d.py: its table in two halves, and a second scan for ports.
PortOps == \hEC .. \hEF
F78dFirst(rom, at) ==
  LET op == rom[at]
  IN  CASE op \in PortOps \cup MovByte \cup {\hC4, \hC5, \hFE, \hF6, \hF7} ->
             Whole(rom, at, 2, Named(2), Raises)
        [] op \in MovWord \cup {\hC2, \hE8, \hE9} -> Whole(rom, at, 3, Named(3), Raises)
        [] op \in \h58 .. \h5F -> Raises
        [] OTHER -> Named(1)                       \* C3, PUSH, 40-4F, 90-97
F78dFirstOps == PortOps \cup MovByte \cup MovWord \cup {\hC4, \hC5, \hFE, \hF6, \hF7, \hC2, \hE8, \hE9, \hC3}
                  \cup \h40 .. \h5F \cup \h90 .. \h97
F78dModrm == {op \in 0 .. \h3F : op % 8 < 4} \cup \h80 .. \h8F \cup {\hC0, \hC1}
F78dSecond(rom, at) ==
  LET op == rom[at]
  IN  CASE op \in {\hEA, \h9A} -> Whole(rom, at, 5, Named(1), Raises)
        [] op \in {\hEB, \h74, \h75, \hCD} \cup \hE0 .. \hE3 \cup F78dModrm ->
             Whole(rom, at, 2, Named(2), Raises)
        [] op \in {\hCC, \hF4, \hF5, \hF9, \hFA, \hFB, \hFC, \hFD} \cup \hF0 .. \hF3 -> Named(1)
        [] OTHER -> Unnamed(1)
F78dLines(rom) ==
  [at \in DOMAIN rom |-> IF rom[at] \in F78dFirstOps THEN F78dFirst(rom, at) ELSE F78dSecond(rom, at)]
F78dScan(rom) ==
  [at \in DOMAIN rom |-> IF rom[at] \in PortOps THEN Whole(rom, at, 2, Named(2), Raises) ELSE Unnamed(1)]

----------------------------------------------------------------------------
\* f44d_simple_back.py and f44d_trace_backwards.py: from an offset backwards,
\* by as many bytes as the line there takes.  A listing counts from there.
FirstPrefix(rom, at, prefixes) ==
  CHOOSE i \in 0 .. at : /\ \A j \in i .. at - 1 : rom[j] \in prefixes
                         /\ i = 0 \/ rom[i - 1] \notin prefixes
BackPrefixes == {\hF0, \hF2, \hF3} \cup SegmentBytes
Backwards(lines, start) == [back \in 0 .. start |-> lines[start - back]]

BackPlain == {\hC3, \hFA, \hEC, \hEE, \hAA, \hAB, \h90, \h55}
BackShort == {\hEB, \hE0, \hE1, \hE2, \hE6} \cup (Jcc \ {\h76, \h77})
DecodeOne(rom, at) ==
  LET op == rom[at]
      n == 2 + DisplacementSize(rom[at + 1])
  IN  CASE op \in BackPlain -> Named(1)
        [] op \in MovByte \cup {\hA8} -> Named(2)
        [] op \in BackShort -> Whole(rom, at, 2, Named(2), Unnamed(1))
        [] op \in MovWord -> Named(3)
        [] op \in {\h80, \hF6} /\ at + 1 \in DOMAIN rom ->
             Whole(rom, at, n + 1, Named(n + 1), Named(n))
        [] op \in {\hF7} \cup \h8A .. \h8E /\ at + 1 \in DOMAIN rom -> Named(n)
        [] OTHER -> Unnamed(1)
BackLines(rom, start) ==
  Backwards([at \in DOMAIN rom |-> DecodeOne(rom, FirstPrefix(rom, at, BackPrefixes))], start)
BackListing(rom, start) == Listed(BackLines(rom, start), 129, 129)

TracePrefixes == BackPrefixes \cup {\h64, \h65}
TraceShort == {\hC3, \hFA, \hEC, \hED, \hEE, \hE7, \hEB, \hE9, \hAA, \hAB, \h55, \h90}
                \cup \hE0 .. \hE2 \cup Jcc
TraceSingle(rom, at) ==
  IF rom[at] = \hA8 THEN Named(1) ELSE Whole(rom, at, 2, Named(2), Named(1))
TraceImmediate(rom, at) ==
  LET n == 2 + DisplacementRead(rom, at)
      immediate == CASE rom[at] \in {\h80, \hF6} -> 1
                     [] rom[at] = \h81 -> 2
                     [] rom[at] = \hF7 -> 0
  IN  CASE rom[at] \in MovByte -> Whole(rom, at, 2, Named(2), Named(1))
        [] rom[at] = \hBE -> Whole(rom, at, 3, Named(3), Named(1))
        [] rom[at] \notin MovByte \cup {\hBE} ->
             IF at + 1 \notin DOMAIN rom THEN Unnamed(0)
             ELSE Whole(rom, at, n + immediate, Named(n + immediate), Named(n))
TraceMove(rom, at) ==
  IF at + 1 \notin DOMAIN rom THEN Unnamed(0) ELSE Named(2 + DisplacementRead(rom, at))
TraceLine(rom, at) ==
  LET first == FirstPrefix(rom, at, TracePrefixes)
      op == rom[first]
      line == CASE op \in TraceShort \cup {\hA8} -> TraceSingle(rom, first)
                [] op \in MovByte \cup {\hBE, \h80, \h81, \hF6, \hF7} -> TraceImmediate(rom, first)
                [] op \in \h8A .. \h8E -> TraceMove(rom, first)
                [] OTHER -> Unnamed(1)
  IN  [line EXCEPT !.size = @ + at - first]
TraceLines(rom, start) == Backwards([at \in DOMAIN rom |-> TraceLine(rom, at)], start)
TraceListing(rom, start) == Listed(TraceLines(rom, start), 145, 80)

----------------------------------------------------------------------------
\* disasm_f44d_clean.py, _v2, _v3, _final and _simple: one table, that is
\* guarded against the ROM's end in three ways.  None of them appends a line
\* to the results it returns: the loops run to the end of the ROM.
TableByte  == {\hEB, \hE6, \hE7} \cup Jcc
TablePlain == {\hEC, \hED, \hFA, \hFB, \hAA, \hAB, \hAD, \hAE, \hC3, \h90} \cup \h50 .. \h5F
TableControl == TableByte \cup TablePlain \cup {\hE9, \hC2}
Control(rom, at, cut, ret) ==
  CASE rom[at] \in TableByte -> Whole(rom, at, 2, Named(2), cut)
    [] rom[at] = \hE9 -> Whole(rom, at, 3, Named(3), cut)
    [] rom[at] = \hC2 -> Whole(rom, at, 3, Named(3), ret)
    [] rom[at] \in TablePlain -> Named(1)

\* MOV between registers and memory: the word of mode 0 is not read.
TableMove(rom, at, cut) ==
  LET n == 2 + IF ModField(rom[at + 1]) \in {1, 2} THEN ModField(rom[at + 1]) ELSE 0
  IN  IF at + 1 \notin DOMAIN rom THEN cut ELSE Whole(rom, at, n, Named(n), Raises)

V2Control(rom, at) == Control(rom, at, Raises, Raises)
V2Data(rom, at) ==
  LET op == rom[at]
  IN  CASE op \in {\h8A, \h8B} -> TableMove(rom, at, Raises)
        [] op \in \hB0 .. \hBB \cup {\h04, \hCD, \h8C, \h8E} -> Whole(rom, at, 2, Named(2), Raises)
        [] op \in \hA0 .. \hA3 \cup {\h0D, \hA9, \hC0, \hC1} -> Whole(rom, at, 3, Named(3), Raises)
        [] op \in \hBC .. \hBF -> Whole(rom, at, 4, Named(4), Raises)
        [] op \in {\h0E, \h1F} -> Named(1)
        [] OTHER -> Unnamed(1)

CleanControl(rom, at) == Control(rom, at, Raises, Raises)
CleanData(rom, at) ==
  CASE rom[at] \in {\hA2, \hA3} \cup \h80 .. \h83 -> Raises
    [] rom[at] = \hF6 -> Whole(rom, at, 2, Unnamed(2), Raises)
    [] OTHER -> V2Data(rom, at)

V3Control(rom, at) == Control(rom, at, Stops, Stops)
V3Data(rom, at) ==
  LET op == rom[at]
  IN  CASE op \in {\h8A, \h8B} -> TableMove(rom, at, Stops)
        [] op \in \hA0 .. \hA3 -> Whole(rom, at, 3, Named(3), Raises)
        [] op \in {\h04, \hCD} -> Whole(rom, at, 2, Named(2), Stops)
        [] op \in {\h0D, \hA9} -> Whole(rom, at, 3, Named(3), Stops)
        [] op \in {\h8C, \h8E} -> Whole(rom, at, 2, Named(2), Unnamed(2))
        [] op \in {\hC0, \hC1} -> Named(3)
        [] op \in {\h0E, \h1F} -> Named(1)
        [] OTHER -> Unnamed(1)

FinalControl(rom, at) == Control(rom, at, Stops, Stops)
FinalData(rom, at) == V3Data(rom, at)

SimpleControl(rom, at) == Control(rom, at, Raises, Named(3))
SimpleData(rom, at) ==
  CASE rom[at] \in {\h04, \hCD} -> Whole(rom, at, 2, Named(2), Raises)
    [] rom[at] \in {\h0D, \hA9} -> Whole(rom, at, 3, Named(3), Raises)
    [] OTHER -> V3Data(rom, at)

----------------------------------------------------------------------------
\* f44d_forward_disasm.py: nothing moves past the opcode but the reading of
\* operands, and the first operand byte that is read is the opcode itself.
ForwardPrefixes == BackPrefixes \cup {\h66}
ForwardModrm(op) == 1 + DisplacementSize(op)
ForwardMoved(op) ==
  CASE op \in MovByte \cup Jcc \cup {\h6A, \hEB} \cup \hE0 .. \hE2 -> 1
    [] op \in \hB8 .. \hBD \cup {\h68} -> 2
    [] op \in {\h80, \h82} -> ForwardModrm(op) + 1
    [] OTHER -> 0
ForwardMovedLate(op) ==
  CASE op \in {\hA8, \hCD, \hE4, \hE5} -> 1
    [] op \in {\hC2, \hCA} -> 2
    [] op \in {\hC4, \hC5, \h0F} -> 3
    [] op = \h9A -> 4
    [] op \in {\hFE, \hFF} -> ForwardModrm(op)
    [] OTHER -> 0
ForwardPrefixRun(rom, at) ==
  CHOOSE i \in at .. Cardinality(DOMAIN rom) :
    /\ \A j \in at .. i - 1 : rom[j] \in ForwardPrefixes
    /\ i \in DOMAIN rom => rom[i] \notin ForwardPrefixes
ForwardLine(rom, at) ==
  LET first == ForwardPrefixRun(rom, at)
  IN  IF first \notin DOMAIN rom \/ (first \in DOMAIN rom /\ rom[first] = \hF6) THEN Raises
      ELSE Named(first - at + ForwardMoved(rom[first]) + ForwardMovedLate(rom[first]))
----------------------------------------------------------------------------
\* The listings that go forward: table, window and limit of each script.
ForwardLines(rom) == [at \in DOMAIN rom |-> ForwardLine(rom, at)]
CleanLines(rom) ==
  [at \in DOMAIN rom |-> IF rom[at] \in TableControl THEN CleanControl(rom, at) ELSE CleanData(rom, at)]
V2Lines(rom) ==
  [at \in DOMAIN rom |-> IF rom[at] \in TableControl THEN V2Control(rom, at) ELSE V2Data(rom, at)]
V3Lines(rom) ==
  [at \in DOMAIN rom |-> IF rom[at] \in TableControl THEN V3Control(rom, at) ELSE V3Data(rom, at)]
FinalLines(rom) ==
  [at \in DOMAIN rom |-> IF rom[at] \in TableControl THEN FinalControl(rom, at) ELSE FinalData(rom, at)]
SimpleLines(rom) ==
  [at \in DOMAIN rom |-> IF rom[at] \in TableControl THEN SimpleControl(rom, at) ELSE SimpleData(rom, at)]

Tables(rom) ==
  [deep |-> DeepLines(rom), stall |-> StallLines(rom), f78d |-> F78dLines(rom), scan |-> F78dScan(rom),
   first |-> FirstRegion(rom), second |-> SecondRegion(rom), third |-> ThirdRegion(rom),
   fourth |-> FourthRegion(rom), clean |-> CleanLines(rom), v2 |-> V2Lines(rom), v3 |-> V3Lines(rom),
   final |-> FinalLines(rom), simple |-> SimpleLines(rom), forward |-> ForwardLines(rom)]
Scripts == {"deep", "stall", "f78d", "scan", "first", "second", "third", "fourth", "clean", "v2",
            "v3", "final", "simple", "forward"}

RomSize == 8192
Window(script) ==
  CASE script = "deep" -> 150
    [] script = "stall" -> 200
    [] script \in {"f78d", "scan"} -> 64
    [] script \in {"first", "fourth"} -> 32
    [] script = "second" -> 27
    [] script = "third" -> 18
    [] script = "forward" -> 144
    [] OTHER -> RomSize
Limit(script) ==
  CASE script = "deep" -> 50
    [] script = "stall" -> 60
    [] OTHER -> Window(script)
Listing(script, table) == Listed(table, Window(script), Limit(script))
=============================================================================
