----------------------------- MODULE KeyStream -----------------------------
(***************************************************************************)
(* What the keyboard port promises the guest: the scan codes of the keys   *)
(* come to port 60h in the order in which the keys were struck, none lost, *)
(* none twice and none invented, until the guest resets the keyboard.  A   *)
(* handler may let several codes pass through the port, of which the guest *)
(* sees the last: at most Burst of them.  With Burst = 1 every code stands *)
(* in the port for at least one instruction.                               *)
(***************************************************************************)
EXTENDS Integers, Sequences

CONSTANTS
  Codes,     \* the scan codes of each key
  Answer,    \* codes the host may type of its own accord
  SelfTest,  \* the code a reset leaves in the port
  Burst

VARIABLES keys, backlog, port

vars == <<keys, backlog, port>>

Init ==
  /\ keys \in Seq(DOMAIN Codes)
  /\ backlog = <<>>
  /\ port = SelfTest

Strike ==
  /\ \E key \in DOMAIN Codes : keys' = Append(keys, key)
  /\ UNCHANGED <<backlog, port>>

\* n codes pass through the port, which was p before.
Pass(codes, n, p) ==
  /\ n <= Len(codes)
  /\ backlog' = SubSeq(codes, n + 1, Len(codes))
  /\ port' = IF n = 0 THEN p ELSE codes[n]

Taken     == IF keys = <<>> THEN <<>> ELSE Codes[Head(keys)]
Remaining == IF keys = <<>> THEN <<>> ELSE Tail(keys)

\* The host takes the oldest key, if any, and may add its answer.
Host ==
  /\ keys' = Remaining
  /\ \E answer \in {<<>>, Answer}, n \in 0 .. Burst :
       Pass(backlog \o Taken \o answer, n, port)

\* The guest acknowledges: the port is cleared for the next code, if any.
Acknowledge ==
  /\ UNCHANGED keys
  /\ \E n \in 0 .. 1 : Pass(backlog, n, 0)

Reset ==
  /\ UNCHANGED keys
  /\ backlog' = <<>>
  /\ port' \in {SelfTest, 0}

Next == Strike \/ Host \/ Acknowledge \/ Reset

Spec == Init /\ [][Next]_vars
=============================================================================
