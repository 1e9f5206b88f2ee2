--------------------------- MODULE MCPagedMemory ---------------------------
(***************************************************************************)
(* Two guest pages and one page of expansion RAM above them, two bytes     *)
(* each.  The cache pages and the target of a transfer can be different    *)
(* pages or the same one; page 1 is the last, so a transfer into it runs   *)
(* over the top of the guest, and a sum of 2 wraps to page 0.              *)
(***************************************************************************)
EXTENDS PagedMemory

MCMedia == { [h \in 0 .. 1 |-> [o \in Offset |-> 1]],
             [h \in 0 .. 1 |-> [o \in Offset |-> (o + h) % 2]] }
=============================================================================
