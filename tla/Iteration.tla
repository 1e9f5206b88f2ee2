------------------------------ MODULE Iteration ------------------------------
(***************************************************************************)
(* A loop whose number of rounds is fixed, as its round applied so often:  *)
(* a round is a function from the loop's variables to their next values.   *)
(***************************************************************************)
Twice(f)   == [s \in DOMAIN f |-> f[f[s]]]
Eight(f)   == Twice(Twice(Twice(f)))
Sixteen(f) == Twice(Eight(f))
=============================================================================
