---------------------------- MODULE MCArithmetic ----------------------------
EXTENDS Arithmetic

Digits   == {0, 1, 4, 5, 8, 9}
Decimals == {16 * h + l : h, l \in Digits}
Edges8   == {0, 1, 2, 15, 16, 127, 128, 129, 200, 254, 255}
Edges16  == {0, 1, 255, 256, 257, 4660, 32767, 32768, 32769, 65280, 65534, 65535}
Edges    == Edges8 \cup Edges16
Few      == {0, 1, 128, 255, 32767, 32768, 65535}

Instruction(kind, op, wide, count) ==
  [kind |-> kind, op |-> op, wide |-> wide, count |-> count]
Plain(kind, wide) == Instruction(kind, 0, wide, 0)
Byte1(kind)       == Plain(kind, FALSE)
Runs(codes, axs, dxs, operands) ==
  [code : codes, ax : axs, dx : dxs, operand : operands, cf : BOOLEAN]

AluPrograms ==
  Runs({<<Instruction("alu", op, w, 0)>> : op \in 0 .. 7, w \in BOOLEAN},
       Edges, {0}, Edges)
IncPrograms ==
  Runs({<<Plain(k, w)>> : k \in {"inc", "dec"}, w \in BOOLEAN}, Edges, {0}, {0})
DecimalPrograms ==
  Runs({<<Instruction("alu", ADC, FALSE, 0), Byte1("daa")>>,
        <<Instruction("alu", SBB, FALSE, 0), Byte1("das")>>},
       Decimals, {0}, Decimals)
ShiftPrograms ==
  Runs({<<Instruction("shift", x, w, n)>> :
          x \in 0 .. 7, w \in BOOLEAN, n \in {0, 1, 2, 7, 8, 9, 15, 16, 17, 18, 35}},
       {0, 1, 129, 165, 4660, 32768, 33023, 65535}, {0}, {0})
    \cup Runs({<<Instruction("alu", CMP, w, 0), Instruction("shift", x, w, 1)>> :
                 x \in 0 .. 7, w \in BOOLEAN}, Few, {0}, {1})
MultiplyPrograms ==
  Runs({<<Plain(k, w)>> : k \in {"mul", "imul"}, w \in BOOLEAN}, Edges, {0}, Edges)
    \cup Runs({<<Plain("inc", TRUE), Byte1(k)>> :
                 k \in {"mul", "imul", "group3_test", "daa", "das"}}
                \cup {<<Plain("inc", TRUE), Byte1("cmc"), Byte1(k)>> :
                        k \in {"group3_test", "daa", "das"}},
              Few, {0}, Few)
DividePrograms ==
  Runs({<<Byte1("div")>>, <<Byte1("idiv")>>, <<Byte1("cbw"), Byte1("idiv")>>},
       Edges \cup {16000, 38400, 51000}, {0}, Edges8)
    \cup Runs({<<Plain("div", TRUE)>>, <<Plain("idiv", TRUE)>>,
               <<Byte1("cwd"), Plain("idiv", TRUE)>>},
              Edges16, {0, 1, 127, 32767, 32768, 65534, 65535}, Edges16)
OtherPrograms ==
  Runs({<<Byte1("aam"), Byte1("aad")>>}, 0 .. 255, {0}, {0, 1, 2, 10, 16, 255})
    \cup Runs({<<Byte1(k)>> : k \in {"test", "group3_test", "group3_not",
                                     "clc", "stc", "cmc"}}, Few, {0}, Few)

EveryProgram ==
  UNION {AluPrograms, IncPrograms, DecimalPrograms, ShiftPrograms,
         MultiplyPrograms, DividePrograms, OtherPrograms}
=============================================================================
