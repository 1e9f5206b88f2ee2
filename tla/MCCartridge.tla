----------------------------- MODULE MCCartridge -----------------------------
(***************************************************************************)
(* Banks of four bytes, the first of which is the loader's: payloads that  *)
(* end before, at and after the end of a bank, disks of none to four banks *)
(* and a bank register that counts to six.                                 *)
(***************************************************************************)
EXTENDS Cartridge

SomePayloads == {1, 3, 4, 7, 8}
SomeBss   == {0, 2}
SomeMedia == {0, 3, 4, 5, 13}
=============================================================================
