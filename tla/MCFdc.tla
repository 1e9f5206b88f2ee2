------------------------------- MODULE MCFdc -------------------------------
EXTENDS Fdc

\* Drive A; cylinder 1; from sector 1, from 4 (nothing to read)
\* or from 10 (there is none), to sector 3; 512 bytes.
ReadParamBytes ==
  [i \in 0 .. 7 |-> CASE i = 0 -> {0}
                      [] i = 1 -> {1}
                      [] i = 3 -> {1, 4, 10}
                      [] i = 4 -> {2}
                      [] i = 5 -> {3}
                      [] OTHER -> {0}]
=============================================================================
