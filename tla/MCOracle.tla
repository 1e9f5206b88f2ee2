------------------------------ MODULE MCOracle ------------------------------
(***************************************************************************)
(* Vectors for the reference: the programs of the suite, most of them with *)
(* the step after them, in a machine whose segments do not overlap.  Every *)
(* program also runs with an interrupt waiting, maskable or not, and with  *)
(* the flags the other way about.                                          *)
(***************************************************************************)
EXTENDS Lockstep

Regs == [AX |-> \h1234, CX |-> 2, DX |-> \h3DA, BX |-> \h30, SP |-> \h40, BP |-> 8,
         SI |-> \h10, DI |-> \h20, ES |-> \h300, CS |-> \h100, SS |-> \h400, DS |-> \h200,
         IP |-> \h10]

\* The interrupt handlers return at once; that of vector 2 breaks out first.
Ivt == [a \in 0 .. 4 * \h22 - 1 |-> <<0, 0, 0, 5>>[(a % 4) + 1]]
Handler == (\h5000 :> \hCF)
Nested == [a \in 8 .. 11 |-> <<1, 0, 0, 5>>[(a % 4) + 1]] @@ (\h5001 :> \hCC) @@ (\h5002 :> \hCF)
Data == (\h2010 :> 7) @@ (\h2011 :> 8) @@ (\h2012 :> 9) @@ (\h3020 :> 7) @@ (\h3021 :> 9)
          @@ (\h3022 :> 9) @@ (\h2030 :> \h85) @@ (\h2031 :> \h80) @@ (\h2040 :> \hFF)
          @@ (\h4040 :> 3) @@ (\h4041 :> 0) @@ (\h4042 :> 1) @@ (\h4043 :> 1)
          @@ (\h4044 :> \hD7) @@ (\h4045 :> \h0E)

Moves == {<<\h91>>, <<\h99>>, <<\hB4, \h56>>, <<\hBB, \hEF, \hBE>>, <<\h88, \h07>>,
  <<\h8B, \h5E, \hFE>>, <<\h26, \h87, \h07>>, <<\h86, \hC4>>, <<\h8C, \hC0>>,
  <<\h8E, \hC0>>, <<\h8E, \hD0, \hBC, \h40, 0>>, <<\h8E, \hC8>>, <<\hC6, \h07, \h7F>>,
  <<\hC7, \h87, 2, 0, \h22, \h11>>, <<\hC7, \hCF>>, <<\hC4, \h36, \h30, 0>>,
  <<\h26, \hC5, \h06, \h20, 0>>, <<\hC4, \hC0>>, <<\hA0, \h30, 0>>, <<\h36, \hA3, \h12, 0>>}
StackPrograms == {<<\h50, \h5B>>, <<\h06, \h1F>>, <<\h17, \h5C>>, <<\hFB, \h17, \h5C>>,
  <<\hFB, \h8E, \hD0, \hBC, \h40, 0>>, <<\h9C>>, <<\h9D>>, <<\h9E, \h9F>>,
  <<\h54>>, <<\h0E>>}
ArithmeticPrograms == {<<\h00, \h07>>, <<\h13, \h07>>, <<\h1B, \hC3>>, <<\h2A, \hC4>>, <<\h08, \h07>>,
  <<\h21, \hC3>>, <<\h33, \hC0>>, <<\h38, \h07>>, <<\h14, \hF0>>, <<\h3D, \h34, \h12>>,
  <<\h80, \h07, 1>>, <<\h83, \hE9, \hFF>>, <<\h81, \hDB, 1, \h80>>, <<\h84, \h07>>,
  <<\hA9, 0, \h80>>, <<\h41>>, <<\h49>>, <<\hFE, \h07>>, <<\hFE, \h4F, \h10>>, <<\hFE, \hD0>>,
  <<\hF6, \h07, \h0F>>, <<\hF7, \hD0>>, <<\hF6, \h17>>, <<\hF6, \hE1>>, <<\hF6, \h2F>>,
  <<\hF7, \hE1>>, <<\hF7, \hE9>>, <<\hF6, \hF1>>, <<\hF6, \hF3>>, <<\hF6, \hFB>>, <<\hF7, \hF1>>,
  <<\hF7, \hFB>>, <<\hF6, \hF2>>, <<\hF7, \h37>>, <<\hF6, \hD8>>, <<\hD0, \hE0>>, <<\hD1, \hE8>>,
  <<\hD0, \h3F>>, <<\hD3, \hE0>>, <<\hD2, \h07>>, <<\hD1, \h0F>>, <<\hD1, \hD0>>, <<\hD3, \hDB>>,
  <<\h27>>, <<\hD4, \h0A>>, <<\hD5, \h0A>>, <<\h90, \hD4, \h0A>>, <<\hD4, 0>>, <<\hF5>>,
  <<\hD4, \h0A, \h14, 0>>}
StringPrograms == {<<\hA4>>, <<\hF3, \hA5>>, <<\hF3, \hA6>>, <<\hF2, \hA6>>, <<\hFD, \hF3, \hA4>>,
  <<\h26, \hF3, \hAD>>, <<\hF2, \hAE>>, <<\hF3, \hAB>>, <<\hAF>>, <<\hB1, 0, \hF3, \hA6>>,
  <<\hF3, \h90>>}
ControlPrograms == {<<\hEB, 2>>, <<\hE9, \hFD, \hFF>>, <<\h74, 2>>, <<\h7C, \hFE>>, <<\h7F, 4>>,
  <<\hE2, \hFE>>, <<\hE3, 2>>, <<\hE0, 0>>, <<\hE1, \hFC>>, <<\hE8, 1, 0, \hF4, \hC3>>, <<\hC2, 2, 0>>,
  <<\h9A, 0, 0, 0, 5>>, <<\hEA, 0, 0, 0, 5>>, <<\hCB>>, <<\hCA, 2, 0>>, <<\hFF, \hD3>>,
  <<\hFF, \hE3>>, <<\hFF, \h37>>, <<\hCC, \hF4>>, <<\hCD, \h21>>, <<\hCE>>, <<\hCF>>,
  <<\hF8, \hF9>>, <<\hFA, \h90>>, <<\hFB, \h90, \hF4>>, <<\hFC>>, <<\hFB, \hF4>>, <<\h9B>>, <<\hD7>>,
  <<\h8D, \h07>>}
Ports == {<<\hEC, \hEC>>, <<\h90, \hEC>>, <<\hED>>, <<\hE6, \h42, \hE5, \h42>>, <<\hE7, \h80, \hE4, \h81>>,
  <<\hEF, \hEC>>, <<\hB0, 8, \hE6, \h61, \hE4, \h61, \hE4, \h62>>, <<\hE4, \h60>>, <<\hEC, \hA8, 1, \h75, \hFB>>, <<\hEC, \hA8, \h80, \h74, \hFB>>,
  <<\hE6, \h62, \hE4, \h62>>}

Boundaries == {<<\hBC, 0, 0, \h50>>, <<\hBC, 1, 0, \h5B>>, <<\hBC, 0, 0, \hFB, \h90, \h90>>,
  <<\hBE, \hFF, \hFF, \hA5>>, <<\hBB, \hFF, \hFF, \h8B, \h07>>, <<\hBB, \hFF, \hFF, \hF7, \h17>>,
  <<\h4B, \hBB, \hFF, \hFF, \hFF, \h37>>, <<\hBD, \hFF, \hFF, \h8B, \h4E, 1>>,
  <<\hB8, \hFF, \hFF, \h8E, \hD8, \h8B, \h07>>, <<\hB8, \hFF, \hFF, \h40, \h05, \hFF, \h7F>>,
  <<\h41, \hF6, \hE1>>, <<\h49, \hF7, \h07, 1, 0>>, <<\h38, \h07, \hD1, \hC0>>, <<\h38, \h07, \hD1, \hE0>>,
  <<\h41, \h27>>, <<\h04, \h9B, \h27>>, <<\hF0, \hFE, \h07>>, <<\h26, \h36, \h8B, \h07>>,
  <<\hF3, \hF2, \hA6>>, <<\hF2, \h26, \hA7>>, <<\hF9, \h7E, 2>>, <<\hF9, \h7D, 2>>, <<\h2E, \hA4>>, <<\h26, \h91>>, <<\hFD, \hA5>>,
  <<\hE5, \hFF>>, <<\hE7, \hFF>>, <<\hBA, \hFF, \hFF, \hED>>}

Programs == Boundaries \cup Moves \cup StackPrograms \cup ArithmeticPrograms \cup StringPrograms \cup ControlPrograms \cup Ports

Vector(program, flags, irq, nmi) ==
  [program |-> program, regs |-> Regs, flags |-> flags, irq |-> irq, nmi |-> nmi, steps |-> 6,
   memory |-> (IF nmi THEN Nested ELSE Handler) @@ Handler @@ Ivt @@ Data,
   ports |-> IF irq = {} THEN << >> ELSE (\h61 :> 8),
   expectedMemory |-> \h2008 .. \h2048 \cup \h3010 .. \h3030 \cup \h4030 .. \h4050,
   expectedIo |-> flags = {RESERVED}]

Flagged == {RESERVED, IntF, CF, AF, OF}
\* Every opcode, and every extension of those that have extensions, with an
\* operand in memory and in a register.
Groups == \h80 .. \h83 \cup \hD0 .. \hD3 \cup {\h8C, \h8E, \h8F, \hC6, \hC7, \hF6, \hF7, \hFE, \hFF}
Opcodes == {<<op, modrm, 5, \h80>> : op \in Byte \ Prefixes, modrm \in {\h47, \hC3}}
Extensions == {<<op, mode + 8 * e, 5, \h80>> : op \in Groups, e \in 0 .. 7, mode \in {\h47, \hC3}}

\* Where every interrupt leads to the stub of the BIOS.
Stubs == [a \in 0 .. 4 * \h22 - 1 |-> <<0, \hE0, 0, \hF0>>[(a % 4) + 1]]
Interrupts == {<<\hCD, number>> : number \in {7, 8, \h0E, \h1F, \h20}} \cup {<<\hFB, \h90, \h90>>}

SuiteVectors ==
  {Vector(p, f, i, n) : p \in Programs, f \in {{RESERVED}, Flagged},
                        i \in {{}, {8}}, n \in BOOLEAN}
    \cup {[Vector(p, f, {}, FALSE) EXCEPT !.steps = 1] :
             p \in Opcodes \cup Extensions, f \in {{RESERVED}, Flagged}}
    \cup {[Vector(p, {RESERVED}, i, FALSE) EXCEPT !.steps = 2, !.memory = Stubs @@ @] :
             p \in Interrupts, i \in {{}, {9}}}
=============================================================================
