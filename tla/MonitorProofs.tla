---------------------------- MODULE MonitorProofs ----------------------------
(***************************************************************************)
(* For every length of the run: the dump of the fault script is the memory *)
(* at the store that hit the watchpoint, and the scripts that clean up     *)
(* leave no VICE behind.  The commands of the fault script have an order,  *)
(* and VICE obeys them in it: when the watchpoint is hit nothing is on its *)
(* way that lets the machine run on.  Of every script: a dump that is      *)
(* saved answers the request for it, and a hit is not read over.           *)
(***************************************************************************)
EXTENDS Monitor, SequenceTheorems, TLAPS

CommandTypes == {"ping", "set", "exit", "mem", "quit"}
MessageTypes ==
  {"ping", "checkpoint", "exit", "mem", "registers", "stopped", "resumed", "noise"}

Commands == [type : CommandTypes, id : Int]
Messages == [type : MessageTypes, id : Int, hit : BOOLEAN, version : Int]
Clients ==
  [at : 1 .. 12, status : {"going", "raised", "ended"}, failed : BOOLEAN, held : Int,
   reads : Int, clock : Int, id : Int, hit : BOOLEAN, lost : BOOLEAN, asked : Int,
   body : Int, saved : BOOLEAN, file : Int]

----------------------------------------------------------------------------
(***************************************************************************)
(* The fault script's steps, and the order of its commands.                *)
(***************************************************************************)
Order(type) ==
  IF type = "ping" THEN 1 ELSE IF type = "set" THEN 2 ELSE IF type = "exit" THEN 3
  ELSE IF type = "mem" THEN 4 ELSE 5

\* How many commands have been sent when the script is at a step.
SentBy(at) ==
  IF at <= 2 THEN 0 ELSE IF at <= 4 THEN 1 ELSE IF at <= 6 THEN 2 ELSE IF at <= 8 THEN 3
  ELSE IF at <= 11 THEN 4 ELSE 5

LEMMA FaultSteps ==
  ASSUME script = "fault", client.status = "going", client.at \in 1 .. 12
  PROVE  /\ client.at = 1 => StepAt = Do("connect")
         /\ client.at = 2 => StepAt = Send("ping")
         /\ client.at = 3 => StepAt = Drain(5)
         /\ client.at = 4 => StepAt = Send("set")
         /\ client.at = 5 => StepAt = Await("checkpoint")
         /\ client.at = 6 => StepAt = Send("exit")
         /\ client.at = 7 => StepAt = Do("wait")
         /\ client.at = 8 => StepAt = Send("mem")
         /\ client.at = 9 => StepAt = Await("mem")
         /\ client.at = 10 => StepAt = Do("save")
         /\ client.at = 11 => StepAt = Send("quit")
         /\ client.at = 12 => StepAt = NoStep
<1>1. Program[script] = FaultProgram
  BY DEF Program
<1>2. Len(FaultProgram) = 11
  BY DEF FaultProgram
<1>3. StepAt = IF client.at <= 11 THEN FaultProgram[client.at] ELSE NoStep
  BY <1>1, <1>2 DEF StepAt
<1>4. /\ FaultProgram[1] = Do("connect")
      /\ FaultProgram[2] = Send("ping")
      /\ FaultProgram[3] = Drain(5)
      /\ FaultProgram[4] = Send("set")
      /\ FaultProgram[5] = Await("checkpoint")
      /\ FaultProgram[6] = Send("exit")
      /\ FaultProgram[7] = Do("wait")
      /\ FaultProgram[8] = Send("mem")
      /\ FaultProgram[9] = Await("mem")
      /\ FaultProgram[10] = Do("save")
      /\ FaultProgram[11] = Send("quit")
  BY DEF FaultProgram
<1> HIDE DEF FaultProgram
<1> QED
  BY <1>3, <1>4

\* What the script does at a step that is one of the actions' guards.
LEMMA FaultGuards ==
  ASSUME script = "fault", client \in Clients
  PROVE  /\ StepAt.do # "nothing" => client.status = "going" /\ client.at <= 11
         /\ StepAt.do = "connect" => client.at = 1
         /\ StepAt.do = "send" =>
              /\ client.at \in {2, 4, 6, 8, 11}
              /\ StepAt.type \in CommandTypes
              /\ Order(StepAt.type) = SentBy(client.at) + 1
              /\ SentBy(client.at + 1) = SentBy(client.at) + 1
         /\ StepAt.do # "resume" /\ StepAt.do # "recv"
         /\ StepAt.do = "save" => client.at = 10
         /\ Reading => client.at \in {3, 5, 7, 9}
         /\ client.at = 3 /\ Reading => StepAt = Drain(5)
         /\ client.at = 5 /\ Reading => StepAt = Await("checkpoint")
         /\ client.at = 7 /\ Reading => StepAt = Do("wait")
         /\ client.at = 9 /\ Reading => StepAt = Await("mem")
<1>1. client.at \in 1 .. 12
  BY DEF Clients
<1>2. CASE client.status # "going"
  <2>1. StepAt = NoStep
    BY <1>2 DEF StepAt
  <2> QED
    BY <2>1 DEF NoStep, Do, Reading
<1>3. CASE client.status = "going"
  <2>1. CASE client.at = 1
    BY <1>1, <1>3, <2>1, FaultSteps DEF Do, Reading
  <2>2. CASE client.at = 2
    BY <1>1, <1>3, <2>2, FaultSteps DEF Send, Reading, CommandTypes, Order, SentBy
  <2>3. CASE client.at = 3
    BY <1>1, <1>3, <2>3, FaultSteps DEF Drain, Reading
  <2>4. CASE client.at = 4
    BY <1>1, <1>3, <2>4, FaultSteps DEF Send, Reading, CommandTypes, Order, SentBy
  <2>5. CASE client.at = 5
    BY <1>1, <1>3, <2>5, FaultSteps DEF Await, Reading
  <2>6. CASE client.at = 6
    BY <1>1, <1>3, <2>6, FaultSteps DEF Send, Reading, CommandTypes, Order, SentBy
  <2>7. CASE client.at = 7
    BY <1>1, <1>3, <2>7, FaultSteps DEF Do, Reading
  <2>8. CASE client.at = 8
    BY <1>1, <1>3, <2>8, FaultSteps DEF Send, Reading, CommandTypes, Order, SentBy
  <2>9. CASE client.at = 9
    BY <1>1, <1>3, <2>9, FaultSteps DEF Await, Reading
  <2>10. CASE client.at = 10
    BY <1>1, <1>3, <2>10, FaultSteps DEF Do, Reading
  <2>11. CASE client.at = 11
    BY <1>1, <1>3, <2>11, FaultSteps DEF Send, Reading, CommandTypes, Order, SentBy
  <2>12. CASE client.at = 12
    BY <1>1, <1>3, <2>12, FaultSteps DEF NoStep, Do, Reading
  <2> QED
    BY <1>1, <2>1, <2>2, <2>3, <2>4, <2>5, <2>6, <2>7, <2>8, <2>9, <2>10, <2>11, <2>12
<1> QED
  BY <1>2, <1>3

LEMMA PassedFacts ==
  ASSUME NEW c \in Clients, c.at <= 11
  PROVE  /\ Passed(c) \in Clients
         /\ Passed(c).at = c.at + 1
         /\ Passed(c).body = c.body /\ Passed(c).saved = c.saved /\ Passed(c).file = c.file
<1> DEFINE moved(n, z) == [c EXCEPT !.at = n, !.reads = z, !.held = z]
<1>1. c.at \in 1 .. 12
  BY DEF Clients
<1>2. c.at + 1 \in 1 .. 12 /\ 0 \in Int
  BY <1>1
<1>3. Passed(c) = moved(c.at + 1, 0)
  BY Zenon DEF Passed
<1>4. \A n \in 1 .. 12, z \in Int :
        /\ moved(n, z) \in Clients /\ moved(n, z).at = n
        /\ moved(n, z).body = c.body /\ moved(n, z).saved = c.saved
        /\ moved(n, z).file = c.file
  BY ZenonT(60) DEF Clients
<1> HIDE DEF moved
<1> QED
  BY <1>2, <1>3, <1>4

LEMMA RaisedFacts ==
  ASSUME NEW c \in Clients
  PROVE  /\ Raised(c) \in Clients
         /\ Raised(c).at = c.at
         /\ Raised(c).body = c.body /\ Raised(c).saved = c.saved /\ Raised(c).file = c.file
  BY DEF Raised, Clients

----------------------------------------------------------------------------
(***************************************************************************)
(* The inductive invariant.  h is where the machine was hit, in a set; a   *)
(* hit on the wire has happened, and an answer to "mem" is from then.      *)
(***************************************************************************)
SaidAfter(h) == {m \in Messages : (IsHit(m) => h # {}) /\ (m.type = "mem" => h = {m.version})}
Pieces(h) == [part : 1 .. 3, m : SaidAfter(h)]

FaultTypeOK ==
  /\ client \in Clients
  /\ vice \in {"running", "stopped", "stalled", "gone"}
  /\ watch \in BOOLEAN /\ ticks \in Nat
  /\ inbox \in Seq(Commands)

InOrderSent ==
  /\ \A i \in 1 .. Len(inbox) : Order(inbox[i].type) <= SentBy(client.at)
  /\ \A i, j \in 1 .. Len(inbox) : i < j => Order(inbox[i].type) < Order(inbox[j].type)

\* "exit" has been obeyed: what is still to come stops the machine.
PastExit ==
  client.at >= 7 /\ \A i \in 1 .. Len(inbox) : Order(inbox[i].type) > 3

Arming == watch /\ vice = "running" => PastExit
AfterHit == hitAt # {} => ~watch /\ vice \in {"stopped", "gone"} /\ PastExit /\ hitAt = {ticks}

Knows ==
  /\ client.at > 7 => hitAt # {}
  /\ client.at > 9 => hitAt = {client.body}
  /\ client.saved => hitAt = {client.file}

WireOK == wire \in Seq(Pieces(hitAt))

FInv == FaultTypeOK /\ InOrderSent /\ Arming /\ AfterHit /\ Knows /\ WireOK

\* A script that changes nothing but itself, without saving or sending.
LEMMA ClientOnly ==
  ASSUME FInv, client' \in Clients, client'.at >= client.at,
         UNCHANGED <<inbox, vice, watch, ticks, hitAt>>, wire' \in Seq(Pieces(hitAt)),
         client'.at > 7 => hitAt # {},
         client'.at > 9 => hitAt = {client'.body},
         client'.saved => hitAt = {client'.file}
  PROVE  FInv'
<1>1. FaultTypeOK'
  BY DEF FInv, FaultTypeOK
<1>2. client.at \in 1 .. 12 /\ client'.at \in 1 .. 12
  BY DEF FInv, FaultTypeOK, Clients
<1>3. SentBy(client.at) <= SentBy(client'.at)
  BY <1>2 DEF SentBy
<1>4. \A i \in 1 .. Len(inbox) : Order(inbox[i].type) \in Int
  BY DEF Order
<1>5. SentBy(client.at) \in Int /\ SentBy(client'.at) \in Int
  BY DEF SentBy
<1>6. InOrderSent'
  BY <1>3, <1>4, <1>5 DEF FInv, InOrderSent
<1>7. PastExit => PastExit'
  BY <1>2 DEF PastExit
<1>8. Arming' /\ AfterHit'
  BY <1>7 DEF FInv, Arming, AfterHit
<1>9. Knows' /\ WireOK'
  BY DEF Knows, WireOK
<1> QED
  BY <1>1, <1>6, <1>8, <1>9 DEF FInv

----------------------------------------------------------------------------
(***************************************************************************)
(* The fault script's reading.                                             *)
(***************************************************************************)
Same(d, c) == /\ d \in Clients /\ d.at = c.at
              /\ d.body = c.body /\ d.saved = c.saved /\ d.file = c.file
Onward(d, c) == /\ d \in Clients /\ d.at = c.at + 1
                /\ d.saved = c.saved /\ d.file = c.file

LEMMA FieldFacts ==
  ASSUME NEW c \in Clients
  PROVE  /\ \A n \in Int : Same([c EXCEPT !.held = n], c)
         /\ \A n \in Int, h \in BOOLEAN : Same([c EXCEPT !.held = 0, !.reads = n, !.hit = h], c)
         /\ \A h \in BOOLEAN : Same([c EXCEPT !.hit = h], c)
         /\ \A b \in BOOLEAN : Same([c EXCEPT !.lost = b], c)
         /\ \A b \in BOOLEAN, st \in {"going", "raised", "ended"} :
              Same([c EXCEPT !.status = st, !.failed = b], c)
         /\ \A v \in Int : /\ [c EXCEPT !.body = v] \in Clients
                           /\ [c EXCEPT !.body = v].at = c.at
                           /\ [c EXCEPT !.body = v].body = v
                           /\ [c EXCEPT !.body = v].saved = c.saved
                           /\ [c EXCEPT !.body = v].file = c.file
         /\ \A n \in Int : Same([c EXCEPT !.clock = n], c)
         /\ \A n, k \in Int : Same([c EXCEPT !.id = n, !.asked = k], c)
         /\ /\ [c EXCEPT !.saved = TRUE, !.file = c.body] \in Clients
            /\ [c EXCEPT !.saved = TRUE, !.file = c.body].at = c.at
            /\ [c EXCEPT !.saved = TRUE, !.file = c.body].body = c.body
            /\ [c EXCEPT !.saved = TRUE, !.file = c.body].file = c.body
<1>0. 0 \in Int
  OBVIOUS
<1>1. \A n \in Int : Same([c EXCEPT !.held = n], c)
  BY ZenonT(60) DEF Clients, Same
<1>2. \A n \in Int, h \in BOOLEAN, z \in Int : Same([c EXCEPT !.held = z, !.reads = n, !.hit = h], c)
  BY ZenonT(60) DEF Clients, Same
<1>3. \A h \in BOOLEAN : Same([c EXCEPT !.hit = h], c)
  BY ZenonT(60) DEF Clients, Same
<1>4. \A b \in BOOLEAN : Same([c EXCEPT !.lost = b], c)
  BY ZenonT(60) DEF Clients, Same
<1>5. \A b \in BOOLEAN, st \in {"going", "raised", "ended"} :
        Same([c EXCEPT !.status = st, !.failed = b], c)
  BY ZenonT(60) DEF Clients, Same
<1>6. \A v \in Int : /\ [c EXCEPT !.body = v] \in Clients
                     /\ [c EXCEPT !.body = v].at = c.at
                     /\ [c EXCEPT !.body = v].body = v
                     /\ [c EXCEPT !.body = v].saved = c.saved
                     /\ [c EXCEPT !.body = v].file = c.file
  BY ZenonT(60) DEF Clients
<1>7. \A n \in Int : Same([c EXCEPT !.clock = n], c)
  BY ZenonT(60) DEF Clients, Same
<1>8. \A n, k \in Int : Same([c EXCEPT !.id = n, !.asked = k], c)
  BY ZenonT(60) DEF Clients, Same
<1>9. \A v \in Int : /\ [c EXCEPT !.saved = TRUE, !.file = v] \in Clients
                     /\ [c EXCEPT !.saved = TRUE, !.file = v].at = c.at
                     /\ [c EXCEPT !.saved = TRUE, !.file = v].body = c.body
                     /\ [c EXCEPT !.saved = TRUE, !.file = v].file = v
  BY ZenonT(60) DEF Clients
<1>10. c.body \in Int
  BY DEF Clients
<1> QED
  BY <1>0, <1>1, <1>2, <1>3, <1>4, <1>5, <1>6, <1>7, <1>8, <1>9, <1>10, ZenonT(60)

LEMMA PassedOn ==
  ASSUME NEW c \in Clients, c.at <= 11, NEW d, Same(d, c)
  PROVE  Onward(Passed(d), c)
  BY PassedFacts DEF Same, Onward

LEMMA Bodied ==
  ASSUME NEW c \in Clients, NEW d, Onward(d, c), NEW v \in Int
  PROVE  Onward([d EXCEPT !.body = v], c) /\ [d EXCEPT !.body = v].body = v
<1>1. d \in Clients
  BY DEF Onward
<1> QED
  BY <1>1, FieldFacts, Zenon DEF Onward

LEMMA HandledFacts ==
  ASSUME FInv, script = "fault", Reading, NEW m \in SaidAfter(hitAt)
  PROVE  \/ Same(Handled(m), client)
         \/ /\ Onward(Handled(m), client)
            /\ client.at \in {3, 5, 7, 9}
            /\ client.at = 7 => hitAt # {}
            /\ client.at = 9 => hitAt = {Handled(m).body}
<1> DEFINE c == [client EXCEPT !.held = 0, !.reads = client.reads + 1,
                               !.hit = client.hit \/ IsHit(m)]
<1>1. client \in Clients /\ client.at \in {3, 5, 7, 9} /\ client.reads \in Int
  BY FaultGuards DEF FInv, FaultTypeOK, Clients
<1>2. client.hit \in BOOLEAN /\ m \in Messages
  BY <1>1 DEF Clients, SaidAfter
<1>3. IsHit(m) \in BOOLEAN /\ (client.hit \/ IsHit(m)) \in BOOLEAN
  BY <1>2 DEF IsHit, Messages
<1>4. client.reads + 1 \in Int
  BY <1>1
<1>5. Same(c, client)
  BY <1>1, <1>3, <1>4, FieldFacts
<1>6. Same([client EXCEPT !.held = 0], client)
  <2>1. 0 \in Int
    OBVIOUS
  <2> QED
    BY <1>1, <2>1, FieldFacts, Zenon
<1>7. Onward(Passed(c), client)
  <2>1. client.at <= 11
    BY <1>1
  <2> HIDE DEF c
  <2> QED
    BY <1>1, <1>5, <2>1, PassedOn, Zenon
<1>8. m.version \in Int /\ client.at <= 11 /\ Same(client, client)
  BY <1>1, <1>2 DEF Messages, Same
<1>9. Onward([Passed(client) EXCEPT !.body = m.version], client)
      /\ [Passed(client) EXCEPT !.body = m.version].body = m.version
  BY <1>1, <1>8, PassedOn, Bodied, Zenon
<1>10. Onward(Passed([client EXCEPT !.hit = TRUE]), client)
  <2>1. TRUE \in BOOLEAN
    OBVIOUS
  <2>2. Same([client EXCEPT !.hit = TRUE], client)
    BY <1>1, <2>1, FieldFacts, Zenon
  <2> QED
    BY <1>1, <1>8, <2>2, PassedOn, Zenon
<1>11. Handled(m) = IF StepAt.do = "drain"
                      THEN IF c.reads = StepAt.count THEN Passed(c) ELSE c
                    ELSE IF StepAt.do = "await" /\ Matches(m)
                      THEN [Passed(client) EXCEPT !.body = m.version]
                    ELSE IF StepAt.do = "wait" /\ IsHit(m)
                      THEN Passed([client EXCEPT !.hit = TRUE])
                    ELSE [client EXCEPT !.held = 0]
  BY Zenon DEF Handled
<1> HIDE DEF c
<1>12. CASE client.at = 3
  <2>1. StepAt = Drain(5)
    BY <1>1, <1>12, FaultGuards
  <2>2. StepAt.do = "drain"
    BY <2>1 DEF Drain
  <2> QED
    BY <1>5, <1>7, <1>11, <1>12, <2>2
<1>13. CASE client.at = 5
  <2>1. StepAt = Await("checkpoint")
    BY <1>1, <1>13, FaultGuards
  <2>2. StepAt.do = "await"
    BY <2>1 DEF Await
  <2> QED
    BY <1>6, <1>9, <1>11, <1>13, <2>2
<1>14. CASE client.at = 7
  <2>1. StepAt = Do("wait")
    BY <1>1, <1>14, FaultGuards
  <2>2. StepAt.do = "wait"
    BY <2>1 DEF Do
  <2>3. IsHit(m) => hitAt # {}
    BY DEF SaidAfter
  <2> QED
    BY <1>6, <1>10, <1>11, <1>14, <2>2, <2>3
<1>15. CASE client.at = 9
  <2>1. StepAt = Await("mem")
    BY <1>1, <1>15, FaultGuards
  <2>2. StepAt.do = "await" /\ StepAt.type = "mem"
    BY <2>1 DEF Await
  <2>3. Matches(m) => hitAt = {m.version}
    BY <2>2 DEF Matches, SaidAfter
  <2> QED
    BY <1>6, <1>9, <1>11, <1>15, <2>2, <2>3
<1> QED
  BY <1>1, <1>12, <1>13, <1>14, <1>15

----------------------------------------------------------------------------
(***************************************************************************)
(* The fault script's other steps.                                         *)
(***************************************************************************)
LEMMA SameKeeps ==
  ASSUME FInv, Same(client', client),
         UNCHANGED <<inbox, vice, watch, ticks, hitAt>>, wire' \in Seq(Pieces(hitAt))
  PROVE  FInv'
<1>1. client' \in Clients /\ client'.at = client.at /\ client.at \in Int
  BY DEF Same, FInv, FaultTypeOK, Clients
<1>2. /\ client'.at > 7 => hitAt # {}
      /\ client'.at > 9 => hitAt = {client'.body}
      /\ client'.saved => hitAt = {client'.file}
  BY DEF Same, FInv, Knows
<1> QED
  BY <1>1, <1>2, ClientOnly

LEMMA RaisedKeeps ==
  ASSUME FInv, client' = Raised(client), UNCHANGED <<inbox, wire, vice, watch, ticks, hitAt>>
  PROVE  FInv'
<1>1. Same(client', client)
  BY RaisedFacts DEF Same, FInv, FaultTypeOK
<1> QED
  BY <1>1, SameKeeps DEF FInv, WireOK

LEMMA PassedKeeps ==
  ASSUME FInv, client.at \in {1, 3, 5}, client' = Passed(client),
         UNCHANGED <<inbox, wire, vice, watch, ticks, hitAt>>
  PROVE  FInv'
<1>1. client \in Clients /\ client.at <= 11
  BY DEF FInv, FaultTypeOK
<1>2. /\ client' \in Clients /\ client'.at = client.at + 1
      /\ client'.saved = client.saved /\ client'.file = client.file
  BY <1>1, PassedFacts
<1>3. client'.at >= client.at /\ ~(client'.at > 7) /\ ~(client'.at > 9)
  BY <1>2
<1> QED
  BY <1>2, <1>3, ClientOnly DEF FInv, WireOK, Knows

LEMMA WireHead ==
  ASSUME FInv, wire # <<>>
  PROVE  /\ Head(wire).m \in SaidAfter(hitAt) /\ Head(wire).part \in 1 .. 3
         /\ Tail(wire) \in Seq(Pieces(hitAt))
<1>1. Head(wire) \in Pieces(hitAt) /\ Tail(wire) \in Seq(Pieces(hitAt))
  BY HeadTailProperties DEF FInv, WireOK
<1> QED
  BY <1>1 DEF Pieces

LEMMA ReceiveStep ==
  ASSUME FInv, script = "fault", Receive
  PROVE  FInv'
<1>1. /\ Reading /\ wire # <<>> /\ wire' = Tail(wire)
      /\ UNCHANGED <<inbox, vice, watch, ticks, hitAt>>
  BY DEF Receive, Aligned
<1>2. \/ client' = [client EXCEPT !.held = Head(wire).part]
      \/ client' = Handled(Head(wire).m)
  BY DEF Receive
<1>3. wire' \in Seq(Pieces(hitAt)) /\ client \in Clients /\ Head(wire).part \in Int
  BY <1>1, WireHead DEF FInv, FaultTypeOK
<1>4. CASE client' = [client EXCEPT !.held = Head(wire).part]
  <2>1. Same(client', client)
    BY <1>3, <1>4, FieldFacts, Zenon
  <2> QED
    BY <1>1, <1>3, <2>1, SameKeeps
<1>5. CASE client' = Handled(Head(wire).m)
  <2>1. \/ Same(client', client)
        \/ /\ Onward(client', client)
           /\ client.at \in {3, 5, 7, 9}
           /\ client.at = 7 => hitAt # {}
           /\ client.at = 9 => hitAt = {client'.body}
    BY <1>1, <1>5, HandledFacts, WireHead
  <2>2. CASE Same(client', client)
    BY <1>1, <1>3, <2>2, SameKeeps
  <2>3. ASSUME Onward(client', client), client.at \in {3, 5, 7, 9},
               client.at = 7 => hitAt # {},
               client.at = 9 => hitAt = {client'.body}
        PROVE  FInv'
    <3>1. /\ client' \in Clients /\ client'.at = client.at + 1
          /\ client'.saved = client.saved /\ client'.file = client.file
      BY <2>3 DEF Onward
    <3>2. client'.at > 7 => hitAt # {}
      BY <2>3, <3>1 DEF FInv, Knows
    <3>3. client'.at > 9 => hitAt = {client'.body}
      BY <2>3, <3>1
    <3>4. client'.saved => hitAt = {client'.file}
      BY <3>1 DEF FInv, Knows
    <3>5. client'.at >= client.at
      BY <2>3, <3>1
    <3> QED
      BY <1>1, <1>3, <3>1, <3>2, <3>3, <3>4, <3>5, ClientOnly
  <2> QED
    BY <2>1, <2>2, <2>3
<1> QED
  BY <1>2, <1>4, <1>5

\* What is saved is what was asked for after the hit.
LEMMA SaveStep ==
  ASSUME FInv, script = "fault", Save
  PROVE  FInv'
<1>1. /\ client' = [Passed(client) EXCEPT !.saved = TRUE, !.file = client.body]
      /\ UNCHANGED <<inbox, wire, vice, watch, ticks, hitAt>>
  BY DEF Save
<1>2. client \in Clients /\ client.at = 10
  BY FaultGuards DEF Save, FInv, FaultTypeOK
<1>3. /\ Passed(client) \in Clients /\ Passed(client).at = 11
      /\ Passed(client).body = client.body
  BY <1>2, PassedFacts
<1>4. /\ client' \in Clients /\ client'.at = 11
      /\ client'.body = client.body /\ client'.file = client.body
  <2>1. client' = [Passed(client) EXCEPT !.saved = TRUE, !.file = Passed(client).body]
    BY <1>1, <1>3
  <2> QED
    BY <1>3, <2>1, FieldFacts, Zenon
<1>5. hitAt = {client.body}
  BY <1>2 DEF FInv, Knows
<1> QED
  BY <1>1, <1>2, <1>4, <1>5, ClientOnly DEF FInv, WireOK

LEMMA SendStep ==
  ASSUME FInv, script = "fault", SendCommand
  PROVE  FInv'
<1>1. PICK later \in {0, 1} : Sent(StepAt.type, [client EXCEPT !.clock = client.clock + later])
  BY DEF SendCommand
<1> DEFINE c == [client EXCEPT !.clock = client.clock + later]
           type == StepAt.type
           new == [type |-> type, id |-> c.clock]
           asked == IF type = "mem" THEN ticks ELSE Passed(c).asked
<1>2. /\ StepAt.do = "send" /\ UNCHANGED <<wire, vice, watch, ticks, hitAt>>
      /\ inbox' = Append(inbox, new)
      /\ client' = [Passed(c) EXCEPT !.id = c.clock, !.asked = asked]
  BY <1>1 DEF SendCommand, Sent
<1>3. /\ client \in Clients /\ client.at \in {2, 4, 6, 8, 11} /\ type \in CommandTypes
      /\ Order(type) = SentBy(client.at) + 1
      /\ SentBy(client.at + 1) = SentBy(client.at) + 1
  BY <1>2, FaultGuards DEF FInv, FaultTypeOK
<1>4. Same(c, client) /\ c.clock \in Int
  <2>1. client.clock + later \in Int
    BY <1>3 DEF Clients
  <2>2. Same(c, client)
    BY <1>3, <2>1, FieldFacts, Zenon
  <2> QED
    BY <2>2 DEF Same, Clients
<1> HIDE DEF c
<1>5. Onward(Passed(c), client) /\ Passed(c).body = client.body
  BY <1>3, <1>4, PassedFacts DEF Same, Onward
<1>6. asked \in Int
  BY <1>5 DEF FInv, FaultTypeOK, Onward, Clients
<1> HIDE DEF asked
<1>7. /\ client' \in Clients /\ client'.at = client.at + 1
      /\ client'.body = client.body /\ client'.saved = client.saved
      /\ client'.file = client.file
  <2>1. Passed(c) \in Clients
    BY <1>5 DEF Onward
  <2>2. Same(client', Passed(c))
    BY <1>2, <1>4, <1>6, <2>1, FieldFacts, Zenon
  <2> QED
    BY <1>5, <2>2 DEF Same, Onward
<1>8. new \in Commands /\ new.type = type
  BY <1>3, <1>4 DEF Commands
<1> HIDE DEF new
<1>9. /\ inbox \in Seq(Commands) /\ inbox' \in Seq(Commands)
      /\ Len(inbox') = Len(inbox) + 1 /\ Len(inbox) \in Nat
      /\ \A i \in 1 .. Len(inbox) : inbox'[i] = inbox[i]
      /\ inbox'[Len(inbox) + 1] = new
  BY <1>2, <1>8 DEF FInv, FaultTypeOK
<1>10. SentBy(client.at) \in Int /\ SentBy(client'.at) = SentBy(client.at) + 1
  BY <1>3, <1>7 DEF SentBy
<1>11. \A x : Order(x) \in Int
  BY DEF Order
<1>12. InOrderSent'
  <2>1. \A i \in 1 .. Len(inbox') : Order(inbox'[i].type) <= SentBy(client'.at)
    BY <1>3, <1>8, <1>9, <1>10, <1>11, SMTT(30) DEF FInv, InOrderSent
  <2>2. ASSUME NEW i \in 1 .. Len(inbox'), NEW j \in 1 .. Len(inbox'), i < j
        PROVE  Order(inbox'[i].type) < Order(inbox'[j].type)
    <3>1. i \in 1 .. Len(inbox) /\ inbox'[i] = inbox[i]
      BY <1>9, <2>2
    <3>2. CASE j \in 1 .. Len(inbox)
      BY <1>9, <2>2, <3>1, <3>2 DEF FInv, InOrderSent
    <3>3. CASE j = Len(inbox) + 1
      <4>1. Order(inbox'[j].type) = SentBy(client.at) + 1
        BY <1>3, <1>8, <1>9, <3>3
      <4>2. Order(inbox[i].type) <= SentBy(client.at)
        BY <3>1 DEF FInv, InOrderSent
      <4> QED
        BY <1>10, <1>11, <3>1, <4>1, <4>2
    <3> QED
      BY <1>9, <3>2, <3>3
  <2> QED
    BY <2>1, <2>2 DEF InOrderSent
<1>13. PastExit => PastExit'
  <2> SUFFICES ASSUME PastExit PROVE PastExit'
    OBVIOUS
  <2>1. client.at \in {8, 11}
    BY <1>3 DEF PastExit
  <2>2. Order(type) > 3
    BY <1>3, <2>1 DEF SentBy
  <2> QED
    BY <1>7, <1>8, <1>9, <2>1, <2>2 DEF PastExit
<1>14. Arming' /\ AfterHit'
  BY <1>2, <1>13 DEF FInv, Arming, AfterHit
<1>15. Knows'
  BY <1>2, <1>3, <1>7 DEF FInv, Knows
<1>16. FaultTypeOK' /\ WireOK'
  BY <1>2, <1>7, <1>9 DEF FInv, FaultTypeOK, WireOK
<1> QED
  BY <1>12, <1>14, <1>15, <1>16 DEF FInv

LEMMA CleanUpStep ==
  ASSUME FInv, script = "fault", CleanUp
  PROVE  FInv'
<1>1. /\ client' = [client EXCEPT !.status = "ended", !.failed = client.status = "raised"]
      /\ vice' = "gone" /\ UNCHANGED <<inbox, wire, watch, ticks, hitAt>>
  BY DEF CleanUp, CleansUp
<1>2. Same(client', client)
  <2>1. client \in Clients /\ "ended" \in {"going", "raised", "ended"}
    BY DEF FInv, FaultTypeOK
  <2>2. (client.status = "raised") \in BOOLEAN
    OBVIOUS
  <2> QED
    BY <1>1, <2>1, <2>2, FieldFacts, Zenon
<1>3. client' \in Clients /\ client'.at = client.at
  BY <1>2 DEF Same
<1>4. FaultTypeOK' /\ WireOK'
  BY <1>1, <1>3 DEF FInv, FaultTypeOK, WireOK
<1>5. InOrderSent' /\ (PastExit => PastExit')
  BY <1>1, <1>3 DEF FInv, InOrderSent, PastExit
<1>6. Arming' /\ AfterHit'
  BY <1>1, <1>5 DEF FInv, Arming, AfterHit
<1>7. Knows'
  BY <1>1, <1>2 DEF FInv, Knows, Same
<1> QED
  BY <1>4, <1>5, <1>6, <1>7 DEF FInv

LEMMA ClientStep ==
  ASSUME FInv, script = "fault", Client
  PROVE  FInv'
<1>1. client \in Clients
  BY DEF FInv, FaultTypeOK
<1>2. CASE Connect
  <2>1. client.at = 1
    BY <1>1, <1>2, FaultGuards DEF Connect
  <2> QED
    BY <1>2, <2>1, PassedKeeps, RaisedKeeps DEF Connect
<1>3. CASE TimeOut
  <2>1. CASE StepAt.do = "drain"
    <3>1. client.at \in {3, 5, 7, 9}
      BY <1>1, <1>3, FaultGuards DEF TimeOut
    <3>2. client.at = 3
      <4>1. client.at = 7 => StepAt.do = "wait"
        BY <1>1, <1>3, FaultGuards DEF TimeOut, Do
      <4>2. client.at \in {5, 9} => StepAt.do = "await"
        BY <1>1, <1>3, FaultGuards DEF TimeOut, Await
      <4> QED
        BY <2>1, <3>1, <4>1, <4>2
    <3> QED
      BY <1>3, <2>1, <3>2, PassedKeeps DEF TimeOut
  <2>2. CASE StepAt.do # "drain"
    BY <1>3, <2>2, RaisedKeeps DEF TimeOut
  <2> QED
    BY <2>1, <2>2
<1>4. CASE Misread
  BY <1>4, RaisedKeeps DEF Misread, ChecksMagic
<1>5. CASE Expire
  BY <1>5, RaisedKeeps DEF Expire
<1>6. CASE ConnectionClosed
  <2>1. StepAt.do # "recv"
    BY <1>1, FaultGuards
  <2> QED
    BY <1>6, <2>1, RaisedKeeps DEF ConnectionClosed
<1>7. ~ResumeAfterHit /\ ~ReceiveRaw
  BY <1>1, FaultGuards DEF ResumeAfterHit, ReceiveRaw
<1>8. CASE SendFails
  BY <1>8, RaisedKeeps DEF SendFails
<1> QED
  BY <1>2, <1>3, <1>4, <1>5, <1>6, <1>7, <1>8, SendStep, SaveStep, ReceiveStep, CleanUpStep
     DEF Client

----------------------------------------------------------------------------
(***************************************************************************)
(* VICE.                                                                   *)
(***************************************************************************)
LEMMA PartsFacts ==
  ASSUME NEW h, NEW m \in SaidAfter(h)
  PROVE  Parts(m) \in Seq(Pieces(h))
<1>1. LastPart(m) \in {2, 3}
  BY DEF LastPart
<1>2. \A i \in 1 .. LastPart(m) : [part |-> i, m |-> m] \in Pieces(h)
  BY <1>1 DEF Pieces
<1>3. Parts(m) \in [1 .. LastPart(m) -> Pieces(h)]
  BY <1>2 DEF Parts
<1> QED
  BY <1>1, <1>3, SeqDef

\* What is said of no store and no memory can be said at any time.
LEMMA ToldFacts ==
  ASSUME NEW h
  PROVE  /\ \A type \in {"registers", "stopped", "resumed"} : Told(type) \in SaidAfter(h)
         /\ \A type \in {"ping", "checkpoint", "exit"}, id \in Int :
              Message(type, id, FALSE, NoVersion) \in SaidAfter(h)
         /\ Stopping \in Seq(Pieces(h))
<1>1. \A type \in {"registers", "stopped", "resumed"} : Told(type) \in SaidAfter(h)
  BY DEF Told, Answer, Message, NoId, NoVersion, SaidAfter, Messages, MessageTypes, IsHit
<1>2. \A type \in {"ping", "checkpoint", "exit"}, id \in Int :
        Message(type, id, FALSE, NoVersion) \in SaidAfter(h)
  BY DEF Message, NoVersion, SaidAfter, Messages, MessageTypes, IsHit
<1>3. Stopping \in Seq(Pieces(h))
  <2>1. /\ Parts(Told("registers")) \in Seq(Pieces(h))
        /\ Parts(Told("stopped")) \in Seq(Pieces(h))
    BY <1>1, PartsFacts
  <2> QED
    BY <2>1, ConcatProperties DEF Stopping
<1> QED
  BY <1>1, <1>2, <1>3

\* The machine stands still at the store when the memory is asked for.
LEMMA AnswersFacts ==
  ASSUME FInv, NEW c \in Commands, c.type = "mem" => hitAt = {ticks}
  PROVE  Answers(c) \in Seq(Pieces(hitAt))
<1>1. CASE c.type = "quit"
  BY <1>1, EmptySeq DEF Answers
<1>2. CASE c.type # "quit"
  <2> DEFINE type == IF c.type = "set" THEN "checkpoint" ELSE c.type
             version == IF c.type = "mem" THEN ticks ELSE NoVersion
             m == Message(type, c.id, FALSE, version)
             after == IF c.type = "exit" THEN Parts(Told("resumed")) ELSE <<>>
  <2>1. Answers(c) = Parts(m) \o after
    BY <1>2 DEF Answers
  <2>2. c.id \in Int /\ c.type \in CommandTypes /\ ticks \in Int
    BY DEF Commands, FInv, FaultTypeOK
  <2>3. m \in SaidAfter(hitAt)
    <3>1. CASE c.type = "mem"
      <4>1. hitAt = {ticks}
        BY <3>1
      <4> QED
        BY <2>2, <3>1, <4>1 DEF Message, SaidAfter, Messages, MessageTypes, IsHit
    <3>2. CASE c.type # "mem"
      <4>1. type \in {"ping", "checkpoint", "exit"} /\ version = NoVersion
        BY <1>2, <2>2, <3>2 DEF CommandTypes
      <4> QED
        BY <2>2, <4>1, ToldFacts
    <3> QED
      BY <3>1, <3>2
  <2>4. after \in Seq(Pieces(hitAt))
    BY ToldFacts, PartsFacts, EmptySeq
  <2> HIDE DEF m, after
  <2> QED
    BY <2>1, <2>3, <2>4, PartsFacts, ConcatProperties
<1> QED
  BY <1>1, <1>2

LEMMA ObeyStep ==
  ASSUME FInv, Obey
  PROVE  FInv'
<1> DEFINE c == Head(inbox)
           before == IF vice = "running" THEN Stopping ELSE <<>>
<1>1. /\ inbox # <<>> /\ vice \in {"running", "stopped"} /\ inbox' = Tail(inbox)
      /\ wire' = wire \o before \o Answers(c)
      /\ vice' = IF c.type = "exit" THEN "running"
                 ELSE IF c.type = "quit" THEN "gone" ELSE "stopped"
      /\ watch' = (watch \/ c.type = "set")
      /\ UNCHANGED <<client, ticks, hitAt>>
  BY DEF Obey
<1>2. /\ c \in Commands /\ c = inbox[1] /\ 1 \in 1 .. Len(inbox)
      /\ inbox' \in Seq(Commands) /\ Len(inbox') = Len(inbox) - 1
      /\ \A i \in 1 .. Len(inbox') : inbox'[i] = inbox[i + 1]
  <2>1. inbox \in Seq(Commands)
    BY DEF FInv, FaultTypeOK
  <2> QED
    BY <1>1, <2>1, HeadTailProperties, LenProperties, EmptySeq
<1>3. Len(inbox) \in Nat /\ client.at \in 1 .. 12 /\ c.type \in CommandTypes
  BY <1>2 DEF FInv, FaultTypeOK, Clients, Commands
<1> HIDE DEF c
<1>4. Order(c.type) <= SentBy(client.at)
  BY <1>2 DEF FInv, InOrderSent
<1>5. \A i \in 1 .. Len(inbox') : Order(inbox'[i].type) > Order(c.type)
  <2> SUFFICES ASSUME NEW i \in 1 .. Len(inbox')
               PROVE  Order(c.type) < Order(inbox'[i].type)
    BY DEF Order
  <2>1. i + 1 \in 1 .. Len(inbox) /\ 1 < i + 1
    BY <1>2, <1>3
  <2> QED
    BY <1>2, <2>1 DEF FInv, InOrderSent
<1>6. InOrderSent'
  <2>1. \A i \in 1 .. Len(inbox') : Order(inbox'[i].type) <= SentBy(client.at)
    BY <1>2, <1>3 DEF FInv, InOrderSent
  <2>2. ASSUME NEW i \in 1 .. Len(inbox'), NEW j \in 1 .. Len(inbox'), i < j
        PROVE  Order(inbox'[i].type) < Order(inbox'[j].type)
    <3>1. i + 1 \in 1 .. Len(inbox) /\ j + 1 \in 1 .. Len(inbox) /\ i + 1 < j + 1
      BY <1>2, <1>3, <2>2
    <3> QED
      BY <1>2, <3>1 DEF FInv, InOrderSent
  <2> QED
    BY <1>1, <2>1, <2>2 DEF InOrderSent
<1>7. PastExit => PastExit' /\ c.type \in {"mem", "quit"}
  <2> SUFFICES ASSUME PastExit PROVE PastExit' /\ c.type \in {"mem", "quit"}
    OBVIOUS
  <2>1. Order(c.type) > 3
    BY <1>2 DEF PastExit
  <2>2. c.type \in {"mem", "quit"}
    BY <1>3, <2>1 DEF Order, CommandTypes
  <2>3. \A i \in 1 .. Len(inbox') : Order(inbox'[i].type) > 3
    BY <1>5, <2>1 DEF Order
  <2> QED
    BY <1>1, <2>2, <2>3 DEF PastExit
<1>8. c.type = "exit" => PastExit'
  <2> SUFFICES ASSUME c.type = "exit" PROVE PastExit'
    OBVIOUS
  <2>1. client.at >= 7
    BY <1>3, <1>4 DEF Order, SentBy
  <2>2. \A i \in 1 .. Len(inbox') : Order(inbox'[i].type) > 3
    BY <1>5 DEF Order
  <2> QED
    BY <1>1, <2>1, <2>2 DEF PastExit
<1>9. c.type = "mem" => hitAt = {ticks}
  <2>1. c.type = "mem" => client.at > 7
    BY <1>3, <1>4 DEF Order, SentBy
  <2> QED
    BY <2>1 DEF FInv, Knows, AfterHit
<1>10. Arming'
  BY <1>1, <1>8 DEF Arming
<1>11. AfterHit'
  BY <1>1, <1>7 DEF FInv, AfterHit
<1>12. Knows'
  BY <1>1 DEF FInv, Knows
<1>13. WireOK'
  <2>1. before \in Seq(Pieces(hitAt)) /\ wire \in Seq(Pieces(hitAt))
    BY ToldFacts, EmptySeq DEF FInv, WireOK
  <2>2. Answers(c) \in Seq(Pieces(hitAt))
    BY <1>2, <1>9, AnswersFacts
  <2> HIDE DEF before
  <2>3. wire \o before \in Seq(Pieces(hitAt))
    BY <2>1, ConcatProperties
  <2>4. (wire \o before) \o Answers(c) \in Seq(Pieces(hitAt))
    BY <2>2, <2>3, ConcatProperties
  <2> QED
    BY <1>1, <2>4 DEF WireOK
<1>14. FaultTypeOK'
  BY <1>1, <1>2 DEF FInv, FaultTypeOK
<1> QED
  BY <1>6, <1>10, <1>11, <1>12, <1>13, <1>14 DEF FInv

\* While the machine runs it has not been hit; when it is, it stops there.
LEMMA RunStep ==
  ASSUME FInv, Run
  PROVE  FInv'
<1>1. /\ vice = "running" /\ ticks' = ticks + 1 /\ UNCHANGED <<client, inbox>>
      /\ \/ /\ watch /\ watch' = FALSE /\ vice' = "stopped" /\ hitAt' = {ticks'}
            /\ wire' = wire \o Parts(Message("checkpoint", NoId, TRUE, NoVersion)) \o Stopping
         \/ UNCHANGED <<watch, vice, hitAt, wire>>
  BY DEF Run
<1>2. hitAt = {} /\ ~(client.at > 7) /\ ~(client.at > 9) /\ ~client.saved
  BY <1>1 DEF FInv, AfterHit, Knows
<1>3. ticks \in Nat /\ ticks' \in Nat
  BY <1>1 DEF FInv, FaultTypeOK
<1>4. InOrderSent' /\ (PastExit => PastExit')
  BY <1>1 DEF FInv, InOrderSent, PastExit
<1>5. Knows'
  BY <1>1, <1>2 DEF Knows
<1>6. FaultTypeOK'
  BY <1>1, <1>3 DEF FInv, FaultTypeOK
<1>7. CASE /\ watch /\ watch' = FALSE /\ vice' = "stopped" /\ hitAt' = {ticks'}
           /\ wire' = wire \o Parts(Message("checkpoint", NoId, TRUE, NoVersion)) \o Stopping
  <2>1. PastExit'
    BY <1>1, <1>4, <1>7 DEF FInv, Arming
  <2>2. Arming' /\ AfterHit'
    BY <1>7, <2>1 DEF Arming, AfterHit
  <2> DEFINE hit == Message("checkpoint", NoId, TRUE, NoVersion)
  <2>3. hit \in SaidAfter(hitAt')
    BY <1>7 DEF Message, NoId, NoVersion, SaidAfter, Messages, MessageTypes
  <2> HIDE DEF hit
  <2>4. SaidAfter(hitAt) \subseteq SaidAfter(hitAt')
    BY <1>2, <1>7 DEF SaidAfter
  <2>5. Pieces(hitAt) \subseteq Pieces(hitAt')
    BY <2>4 DEF Pieces
  <2>6. wire \in Seq(Pieces(hitAt'))
    BY <2>5, SeqMonotonic DEF FInv, WireOK
  <2>7. Parts(hit) \in Seq(Pieces(hitAt')) /\ Stopping \in Seq(Pieces(hitAt'))
    BY <2>3, PartsFacts, ToldFacts
  <2>8. wire \o Parts(hit) \in Seq(Pieces(hitAt'))
    BY <2>6, <2>7, ConcatProperties
  <2>9. (wire \o Parts(hit)) \o Stopping \in Seq(Pieces(hitAt'))
    BY <2>7, <2>8, ConcatProperties
  <2>10. WireOK'
    BY <1>7, <2>9 DEF WireOK, hit
  <2> QED
    BY <1>4, <1>5, <1>6, <2>2, <2>10 DEF FInv
<1>8. CASE UNCHANGED <<watch, vice, hitAt, wire>>
  <2>1. Arming'
    BY <1>4, <1>8 DEF FInv, Arming
  <2>2. AfterHit'
    BY <1>2, <1>8 DEF AfterHit
  <2>3. WireOK'
    BY <1>8 DEF FInv, WireOK
  <2> QED
    BY <1>4, <1>5, <1>6, <2>1, <2>2, <2>3 DEF FInv
<1> QED
  BY <1>1, <1>7, <1>8

LEMMA LeaveStep ==
  ASSUME FInv, Leave
  PROVE  FInv'
<1>1. /\ vice = "running" /\ vice' \in {"gone", "stalled"}
      /\ UNCHANGED <<client, inbox, wire, watch, ticks, hitAt>>
  BY DEF Leave
<1>2. hitAt = {}
  BY <1>1 DEF FInv, AfterHit
<1> QED
  BY <1>1, <1>2 DEF FInv, FaultTypeOK, InOrderSent, Arming, AfterHit, Knows, WireOK

----------------------------------------------------------------------------
IInv == script = "fault" => FInv

LEMMA InitInvariant ==
  ASSUME Init
  PROVE  IInv
<1>1. client \in Clients /\ client.at = 1 /\ client.saved = FALSE
  BY DEF Init, Clients, NoId, NoVersion
<1>2. inbox \in Seq(Commands) /\ Len(inbox) = 0 /\ wire \in Seq(Pieces(hitAt))
  BY EmptySeq DEF Init
<1>3. FaultTypeOK /\ WireOK
  BY <1>1, <1>2 DEF Init, FaultTypeOK, WireOK
<1>4. InOrderSent
  BY <1>2 DEF InOrderSent
<1>5. Arming /\ AfterHit /\ Knows
  BY <1>1 DEF Init, Arming, AfterHit, Knows
<1> QED
  BY <1>3, <1>4, <1>5 DEF IInv, FInv

LEMMA InvariantStep ==
  ASSUME IInv, [Next]_vars
  PROVE  IInv'
<1>1. script' = script
  BY DEF Next, vars, Over, Client, SendCommand, ResumeAfterHit, SendFails, Connect, Save, Receive,
         Misread, TimeOut, ReceiveRaw, Expire, ConnectionClosed, CleanUp, Obey, Run, Leave
<1>2. SUFFICES ASSUME script = "fault" PROVE FInv'
  BY <1>1 DEF IInv
<1>3. FInv
  BY <1>2 DEF IInv
<1>4. CASE Client
  BY <1>2, <1>3, <1>4, ClientStep
<1>5. CASE Obey \/ Run \/ Leave
  BY <1>3, <1>5, ObeyStep, RunStep, LeaveStep
<1>6. CASE UNCHANGED vars
  BY <1>3, <1>6 DEF vars, FInv, FaultTypeOK, InOrderSent, Arming, AfterHit, PastExit, Knows, WireOK
<1> QED
  BY <1>4, <1>5, <1>6 DEF Next, Over

(***************************************************************************)
(* What the scripts, the stream and VICE agree on holds at every step of   *)
(* every run of the four scripts.                                          *)
(***************************************************************************)
THEOREM Invariance == Spec => []IInv
  BY InitInvariant, InvariantStep, PTL DEF Spec

(***************************************************************************)
(* The fault script saves the memory of the machine as the store that hit  *)
(* the watchpoint left it, however long the machine runs and whatever is   *)
(* late or in pieces on the way.                                           *)
(***************************************************************************)
THEOREM FaultDumpIsExact == Spec => []FaultDumpExact
<1>1. IInv => FaultDumpExact
  BY DEF IInv, FInv, Knows, FaultDumpExact
<1> QED
  BY <1>1, Invariance, PTL

----------------------------------------------------------------------------
(***************************************************************************)
(* No VICE left behind: of every script only its status matters here.      *)
(***************************************************************************)
\* A change of other fields.
Steady(d, c) == DOMAIN d = DOMAIN c /\ d.status = c.status

LEMMA SteadyFacts ==
  ASSUME NEW c, "status" \in DOMAIN c
  PROVE  /\ Steady(Passed(c), c)
         /\ DOMAIN Raised(c) = DOMAIN c /\ Raised(c).status = "raised"
         /\ \A n : Steady([c EXCEPT !.clock = n], c)
         /\ \A n : Steady([c EXCEPT !.held = n], c)
         /\ \A n : Steady([c EXCEPT !.hit = n], c)
         /\ \A n : Steady([c EXCEPT !.lost = n], c)
         /\ \A n : Steady([c EXCEPT !.body = n], c)
         /\ \A n, k : Steady([c EXCEPT !.held = 0, !.reads = n, !.hit = k], c)
         /\ \A n, k : Steady([c EXCEPT !.id = n, !.asked = k], c)
         /\ \A n : Steady([c EXCEPT !.saved = TRUE, !.file = n], c)
  BY ZenonT(60) DEF Steady, Passed, Raised

\* A step of a script that is under way, other than its last.
Goes == DOMAIN client' = DOMAIN client /\ client'.status \in {"going", "raised"}

LEMMA SteadyGoes ==
  ASSUME client.status = "going", "status" \in DOMAIN client
  PROVE  /\ \A d : Steady(d, client) /\ client' = d => Goes
         /\ client' = Raised(client) => Goes
         /\ \A d : Steady(d, client) => "status" \in DOMAIN d /\ d.status = "going"
  BY SteadyFacts DEF Steady, Goes

LEMMA SteadyTrans ==
  ASSUME NEW c, NEW d, NEW e, Steady(d, c), Steady(e, d)
  PROVE  Steady(e, c)
  BY DEF Steady

LEMMA HandledSteady ==
  ASSUME NEW m, "status" \in DOMAIN client
  PROVE  Steady(Handled(m), client)
<1> DEFINE c == [client EXCEPT !.held = 0, !.reads = client.reads + 1,
                               !.hit = client.hit \/ IsHit(m)]
           d == [client EXCEPT !.hit = TRUE]
<1>1. Steady(c, client) /\ Steady(d, client) /\ Steady([client EXCEPT !.held = 0], client)
  BY SteadyFacts, Zenon
<1>2. Steady(Passed(client), client)
  BY SteadyFacts, Zenon
<1>3. Handled(m) = IF StepAt.do = "drain"
                     THEN IF c.reads = StepAt.count THEN Passed(c) ELSE c
                   ELSE IF StepAt.do = "await" /\ Matches(m)
                     THEN [Passed(client) EXCEPT !.body = m.version]
                   ELSE IF StepAt.do = "wait" /\ IsHit(m) THEN Passed(d)
                   ELSE [client EXCEPT !.held = 0]
  BY Zenon DEF Handled
<1> HIDE DEF c, d
<1>4. "status" \in DOMAIN c /\ "status" \in DOMAIN d /\ "status" \in DOMAIN Passed(client)
  BY <1>1, <1>2, Zenon DEF Steady
<1>5. Steady(Passed(c), client) /\ Steady(Passed(d), client)
  BY <1>1, <1>4, SteadyFacts, SteadyTrans, Zenon
<1>6. Steady([Passed(client) EXCEPT !.body = m.version], client)
  BY <1>2, <1>4, SteadyFacts, SteadyTrans, Zenon
<1> QED
  BY <1>1, <1>3, <1>5, <1>6, Zenon

LEMMA SentSteady ==
  ASSUME NEW c, "status" \in DOMAIN client, Steady(c, client), NEW type, Sent(type, c)
  PROVE  Steady(client', client)
<1> DEFINE asked == IF type = "mem" THEN ticks ELSE Passed(c).asked
<1>1. client' = [Passed(c) EXCEPT !.id = c.clock, !.asked = asked]
  BY Zenon DEF Sent
<1> HIDE DEF asked
<1>2. "status" \in DOMAIN c
  BY Zenon DEF Steady
<1>3. Steady(Passed(c), client)
  BY <1>2, SteadyFacts, SteadyTrans, Zenon
<1>4. "status" \in DOMAIN Passed(c)
  BY <1>3, Zenon DEF Steady
<1> QED
  BY <1>1, <1>3, <1>4, SteadyFacts, SteadyTrans, Zenon

LEMMA UnderWay ==
  ASSUME "status" \in DOMAIN client, Client, ~CleanUp
  PROVE  Goes
<1>1. client.status = "going"
  <2>1. StepAt.do # "nothing"
    BY DEF Client, SendCommand, ResumeAfterHit, SendFails, Connect, Save, Receive, Misread, TimeOut,
           ReceiveRaw, Expire, ConnectionClosed, Reading
  <2> QED
    BY <2>1 DEF StepAt, NoStep, Do
<1>2. Steady(Passed(client), client)
  BY SteadyFacts, Zenon
<1>3. CASE SendCommand \/ ResumeAfterHit
  <2>1. \/ client' = Passed(client)
        \/ \E later \in {0, 1} : \E type : Sent(type, [client EXCEPT !.clock = client.clock + later])
    BY <1>3, Zenon DEF SendCommand, ResumeAfterHit
  <2>2. ASSUME NEW later \in {0, 1}, NEW type,
               Sent(type, [client EXCEPT !.clock = client.clock + later])
        PROVE  Steady(client', client)
    <3>1. Steady([client EXCEPT !.clock = client.clock + later], client)
      BY SteadyFacts, Zenon
    <3> QED
      BY <2>2, <3>1, SentSteady, Zenon
  <2> QED
    BY <1>1, <1>2, <2>1, <2>2, SteadyGoes, Zenon
<1>4. CASE Save
  <2>1. "status" \in DOMAIN Passed(client)
    BY <1>2, Zenon DEF Steady
  <2>2. client' = [Passed(client) EXCEPT !.saved = TRUE, !.file = client.body]
    BY <1>4, Zenon DEF Save
  <2>3. Steady(client', client)
    BY <1>2, <2>1, <2>2, SteadyFacts, SteadyTrans, Zenon
  <2> QED
    BY <1>1, <2>3, SteadyGoes, Zenon
<1>5. CASE Receive
  <2>1. \/ client' = [client EXCEPT !.held = Head(wire).part]
        \/ client' = Handled(Head(wire).m)
    BY <1>5, Zenon DEF Receive
  <2>2. Steady(client', client)
    BY <2>1, SteadyFacts, HandledSteady, ZenonT(60)
  <2> QED
    BY <1>1, <2>2, SteadyGoes, Zenon
<1>6. CASE Misread
  <2>1. \/ client' = Raised(client)
        \/ \E m : client' = [Handled(m) EXCEPT !.lost = TRUE]
    BY <1>6, Zenon DEF Misread
  <2>2. ASSUME NEW m, client' = [Handled(m) EXCEPT !.lost = TRUE]
        PROVE  Steady(client', client)
    <3>1. Steady(Handled(m), client)
      BY HandledSteady
    <3>2. "status" \in DOMAIN Handled(m)
      BY <3>1, Zenon DEF Steady
    <3> QED
      BY <2>2, <3>1, <3>2, SteadyFacts, SteadyTrans, Zenon
  <2> QED
    BY <1>1, <2>1, <2>2, SteadyGoes, Zenon
<1>7. CASE SendFails \/ Connect \/ TimeOut \/ ReceiveRaw \/ Expire \/ ConnectionClosed
  <2>1. client' = Passed(client) \/ client' = Raised(client)
    BY <1>7 DEF SendFails, Connect, TimeOut, ReceiveRaw, Expire, ConnectionClosed
  <2> QED
    BY <1>1, <1>2, <2>1, SteadyGoes, Zenon
<1> QED
  BY <1>3, <1>4, <1>5, <1>6, <1>7 DEF Client

Tidy == /\ script \in Scripts /\ NoOrphan
        /\ "status" \in DOMAIN client /\ "failed" \in DOMAIN client

(***************************************************************************)
(* When a script has ended, VICE has; only a debug script that failed can  *)
(* leave one behind.  What ends VICE is finally in the two capture scripts *)
(* and the last lines of the others.                                       *)
(***************************************************************************)
THEOREM NoneLeftBehind == Spec => []NoOrphan
<1>1. Init => Tidy
  BY DEF Init, Tidy, NoOrphan
<1>2. Tidy /\ [Next]_vars => Tidy'
  <2> SUFFICES ASSUME Tidy, [Next]_vars PROVE Tidy'
    OBVIOUS
  <2>1. script' = script
    BY DEF Next, vars, Over, Client, SendCommand, ResumeAfterHit, SendFails, Connect, Save, Receive,
           Misread, TimeOut, ReceiveRaw, Expire, ConnectionClosed, CleanUp, Obey, Run, Leave
  <2>2. CASE CleanUp
    <3>1. /\ client' = [client EXCEPT !.status = "ended", !.failed = client.status = "raised"]
          /\ vice' = IF client.status = "raised" /\ ~CleansUp THEN vice ELSE "gone"
      BY <2>2 DEF CleanUp
    <3>2. DOMAIN client' = DOMAIN client
      BY <3>1, Zenon
    <3>3. vice' # "gone" => client.status = "raised" /\ script \in {"debug", "raw"}
      BY <3>1, MonitorAssumption DEF CleansUp, Tidy, MonitorAssumption
    <3>4. client.status = "raised" => client'.failed
      BY <3>1, Zenon DEF Tidy
    <3> QED
      BY <2>1, <3>2, <3>3, <3>4 DEF Tidy, NoOrphan
  <2>3. CASE Client /\ ~CleanUp
    <3>1. Goes
      BY <2>3, UnderWay DEF Tidy
    <3> QED
      BY <2>1, <3>1 DEF Goes, Tidy, NoOrphan
  <2>4. CASE Obey \/ Run \/ Leave
    <3>1. client' = client /\ vice # "gone"
      BY <2>4 DEF Obey, Run, Leave
    <3> QED
      BY <2>1, <3>1 DEF Tidy, NoOrphan
  <2>5. CASE UNCHANGED vars
    BY <2>5 DEF vars, Tidy, NoOrphan
  <2> QED
    BY <2>2, <2>3, <2>4, <2>5 DEF Next, Over
<1>3. Tidy => NoOrphan
  BY DEF Tidy
<1> QED
  BY <1>1, <1>2, <1>3, PTL DEF Spec

----------------------------------------------------------------------------
(***************************************************************************)
(* Every script: the types, the hit that is still to be read, and the      *)
(* answer to the memory request.                                           *)
(***************************************************************************)
Step(s, at) == IF at <= Len(Program[s]) THEN Program[s][at] ELSE NoStep

\* The script has asked for the memory; it has read the answer.
Asked(s, at)    == (s = "fault" /\ at > 8) \/ (s = "diag" /\ at > 9)
Answered(s, at) == (s = "fault" /\ at > 9) \/ (s = "diag" /\ at > 10)

AnyClient ==
  [at : 1 .. 13, status : {"going", "raised", "ended"}, failed : BOOLEAN, held : 0 .. 2,
   reads : Nat, clock : Nat, id : Nat, hit : BOOLEAN, lost : BOOLEAN, asked : Nat,
   body : Int, saved : BOOLEAN, file : Int]
AnyCommand == [type : CommandTypes, id : Nat]

\* What can be on the wire when the memory was asked for at tick n, or not.
Sound(asked, n) ==
  {p \in [part : 1 .. 3, m : Messages] :
     p.part <= LastPart(p.m) /\ (p.m.type = "mem" => asked /\ p.m.version >= n)}

Typed ==
  /\ script \in Scripts
  /\ client \in AnyClient /\ client.at <= Len(Program[script]) + 1
  /\ StepAt.do = "drain" => client.reads < StepAt.count
  /\ vice \in {"running", "stopped", "stalled", "gone"}
  /\ watch \in BOOLEAN /\ ticks \in 0 .. MaxTicks /\ hitAt \subseteq 0 .. MaxTicks
  /\ inbox \in Seq(AnyCommand)

\* Until the machine is resumed it does not run with a watchpoint set.
BeforeExit ==
  client.at <= 6 =>
    /\ hitAt = {} /\ (watch => vice # "running")
    /\ \A i \in 1 .. Len(inbox) : inbox[i].type # "exit"

\* A hit that happened while the script waits, its stream in order, is ahead.
HitOn(w) == \E i \in 1 .. Len(w) : w[i].part = 3 /\ IsHit(w[i].m)
HitAhead ==
  script \in {"fault", "diag"} /\ client.at = 7 /\ ~client.lost /\ hitAt # {} => HitOn(wire)

Answering ==
  /\ client.asked <= ticks
  /\ wire \in Seq(Sound(Asked(script, client.at), client.asked))
  /\ \A i \in 1 .. Len(inbox) : inbox[i].type = "mem" => Asked(script, client.at)
  /\ Answered(script, client.at) => client.body >= client.asked
  /\ client.saved => Answered(script, client.at) /\ client.file >= client.asked

AInv == Typed /\ BeforeExit /\ HitAhead /\ Answering

LEMMA StepTable ==
  ASSUME NEW s \in {"fault", "diag", "debug", "raw"}, NEW at \in 1 .. 13
  PROVE  /\ Step(s, at).do # "nothing" => at <= Len(Program[s]) /\ at <= 12
         /\ Step(s, at).do = "drain" =>
              Step(s, at).count \in Nat \ {0} /\ ~Asked(s, at)
         /\ Step(s, at).do = "send" =>
              /\ Step(s, at).type \in CommandTypes
              /\ Step(s, at).type = "exit" => at >= 6
              /\ Step(s, at).type = "mem" => ~Asked(s, at) /\ Asked(s, at + 1)
              /\ Step(s, at).type # "mem" => Asked(s, at + 1) = Asked(s, at)
              /\ Answered(s, at + 1) = Answered(s, at)
         /\ Step(s, at).do \notin {"send", "nothing"} => Asked(s, at + 1) = Asked(s, at)
         /\ Step(s, at).do \notin {"await", "nothing"} => Answered(s, at + 1) = Answered(s, at)
         /\ Step(s, at).do = "await" =>
              (Answered(s, at + 1) => Step(s, at).type = "mem")
         /\ Step(s, at).do = "resume" => at >= 6
         /\ Step(s, at).do = "save" => Answered(s, at)
         /\ Step(s, at).do = "wait" => s \in {"fault", "diag"} /\ at = 7
         /\ s \in {"fault", "diag"} /\ at = 7 => Step(s, at).do = "wait"
         /\ Answered(s, at) => Asked(s, at)
<1> DEFINE P(st) ==
         /\ st.do # "nothing" => at <= Len(Program[s]) /\ at <= 12
         /\ st.do = "drain" => st.count \in Nat \ {0} /\ ~Asked(s, at)
         /\ st.do = "send" =>
              /\ st.type \in CommandTypes
              /\ st.type = "exit" => at >= 6
              /\ st.type = "mem" => ~Asked(s, at) /\ Asked(s, at + 1)
              /\ st.type # "mem" => Asked(s, at + 1) = Asked(s, at)
              /\ Answered(s, at + 1) = Answered(s, at)
         /\ st.do \notin {"send", "nothing"} => Asked(s, at + 1) = Asked(s, at)
         /\ st.do \notin {"await", "nothing"} => Answered(s, at + 1) = Answered(s, at)
         /\ st.do = "await" =>
              (Answered(s, at + 1) => st.type = "mem")
         /\ st.do = "resume" => at >= 6
         /\ st.do = "save" => Answered(s, at)
         /\ st.do = "wait" => s \in {"fault", "diag"} /\ at = 7
         /\ s \in {"fault", "diag"} /\ at = 7 => st.do = "wait"
         /\ Answered(s, at) => Asked(s, at)
<1>1. SUFFICES P(Step(s, at))
  OBVIOUS
<1>2. /\ \A d : Do(d).do = d
      /\ \A t : Send(t).do = "send" /\ Send(t).type = t
      /\ \A t : Await(t).do = "await" /\ Await(t).type = t
      /\ \A n : Drain(n).do = "drain" /\ Drain(n).count = n
      /\ NoStep.do = "nothing"
  BY DEF Do, Send, Await, Drain, NoStep
<1>3. CASE s = "fault"
  <2>1. Program[s] = FaultProgram /\ Len(FaultProgram) = 11
    BY <1>3 DEF Program, FaultProgram
  <2>2. /\ FaultProgram[1] = Do("connect") /\ FaultProgram[2] = Send("ping")
        /\ FaultProgram[3] = Drain(5) /\ FaultProgram[4] = Send("set")
        /\ FaultProgram[5] = Await("checkpoint") /\ FaultProgram[6] = Send("exit")
        /\ FaultProgram[7] = Do("wait") /\ FaultProgram[8] = Send("mem")
        /\ FaultProgram[9] = Await("mem") /\ FaultProgram[10] = Do("save")
        /\ FaultProgram[11] = Send("quit")
    BY DEF FaultProgram
  <2>3. Step(s, at) = IF at <= 11 THEN FaultProgram[at] ELSE NoStep
    BY <2>1 DEF Step
  <2> HIDE DEF FaultProgram
  <2>4. at \in 1 .. 4 => P(Step(s, at))
    BY <1>2, <1>3, <2>1, <2>2, <2>3 DEF Asked, Answered, CommandTypes
  <2>5. at \in 5 .. 8 => P(Step(s, at))
    BY <1>2, <1>3, <2>1, <2>2, <2>3 DEF Asked, Answered, CommandTypes
  <2>6. at \in 9 .. 13 => P(Step(s, at))
    BY <1>2, <1>3, <2>1, <2>2, <2>3 DEF Asked, Answered, CommandTypes
  <2> QED
    BY <2>4, <2>5, <2>6
<1>4. CASE s = "diag"
  <2>1. Program[s] = DiagProgram /\ Len(DiagProgram) = 12
    BY <1>4 DEF Program, DiagProgram
  <2>2. /\ DiagProgram[1] = Do("connect") /\ DiagProgram[2] = Send("ping")
        /\ DiagProgram[3] = Drain(5) /\ DiagProgram[4] = Send("set")
        /\ DiagProgram[5] = Await("checkpoint") /\ DiagProgram[6] = Send("exit")
        /\ DiagProgram[7] = Do("wait") /\ DiagProgram[8] = Do("resume")
        /\ DiagProgram[9] = Send("mem") /\ DiagProgram[10] = Await("mem")
        /\ DiagProgram[11] = Do("save") /\ DiagProgram[12] = Send("quit")
    BY DEF DiagProgram
  <2>3. Step(s, at) = IF at <= 12 THEN DiagProgram[at] ELSE NoStep
    BY <2>1 DEF Step
  <2> HIDE DEF DiagProgram
  <2>4. at \in 1 .. 4 => P(Step(s, at))
    BY <1>2, <1>4, <2>1, <2>2, <2>3 DEF Asked, Answered, CommandTypes
  <2>5. at \in 5 .. 8 => P(Step(s, at))
    BY <1>2, <1>4, <2>1, <2>2, <2>3 DEF Asked, Answered, CommandTypes
  <2>6. at \in 9 .. 13 => P(Step(s, at))
    BY <1>2, <1>4, <2>1, <2>2, <2>3 DEF Asked, Answered, CommandTypes
  <2> QED
    BY <2>4, <2>5, <2>6
<1>5. CASE s = "debug"
  <2>1. Program[s] = DebugProgram /\ Len(DebugProgram) = 8
    BY <1>5 DEF Program, DebugProgram
  <2>2. /\ DebugProgram[1] = Do("connect") /\ DebugProgram[2] = Send("ping")
        /\ DebugProgram[3] = Drain(5) /\ DebugProgram[4] = Send("set")
        /\ DebugProgram[5] = Drain(5) /\ DebugProgram[6] = Send("exit")
        /\ DebugProgram[7] = Drain(5) /\ DebugProgram[8] = Drain(10)
    BY DEF DebugProgram
  <2>3. Step(s, at) = IF at <= 8 THEN DebugProgram[at] ELSE NoStep
    BY <2>1 DEF Step
  <2> HIDE DEF DebugProgram
  <2>4. at \in 1 .. 6 => P(Step(s, at))
    BY <1>2, <1>5, <2>1, <2>2, <2>3 DEF Asked, Answered, CommandTypes
  <2>5. at \in 7 .. 13 => P(Step(s, at))
    BY <1>2, <1>5, <2>1, <2>2, <2>3 DEF Asked, Answered, CommandTypes
  <2> QED
    BY <2>4, <2>5
<1>6. CASE s = "raw"
  <2>1. Program[s] = RawProgram /\ Len(RawProgram) = 4
    BY <1>6 DEF Program, RawProgram
  <2>2. /\ RawProgram[1] = Do("connect") /\ RawProgram[2] = Do("recv")
        /\ RawProgram[3] = Send("ping") /\ RawProgram[4] = Do("recv")
    BY DEF RawProgram
  <2>3. Step(s, at) = IF at <= 4 THEN RawProgram[at] ELSE NoStep
    BY <2>1 DEF Step
  <2> HIDE DEF RawProgram
  <2> QED
    BY <1>2, <1>6, <2>1, <2>2, <2>3 DEF Asked, Answered, CommandTypes
<1> QED
  BY <1>3, <1>4, <1>5, <1>6

----------------------------------------------------------------------------
\* What the script does to its own fields.
Alike(d, c) ==
  /\ d \in AnyClient /\ d.at = c.at /\ d.lost = c.lost /\ d.asked = c.asked
  /\ d.body = c.body /\ d.saved = c.saved /\ d.file = c.file
Forward(d, c) ==
  /\ d \in AnyClient /\ d.at = c.at + 1 /\ d.reads = 0 /\ d.lost = c.lost
  /\ d.asked = c.asked /\ d.saved = c.saved /\ d.file = c.file

LEMMA HeldField ==
  ASSUME NEW c \in AnyClient, NEW n \in 0 .. 2, NEW d, d = [c EXCEPT !.held = n]
  PROVE  Alike(d, c) /\ d.reads = c.reads /\ d.status = c.status
  BY ZenonT(60) DEF AnyClient, Alike

LEMMA ReadsField ==
  ASSUME NEW c \in AnyClient, NEW n \in Nat, NEW h \in BOOLEAN
  PROVE  /\ Alike([c EXCEPT !.held = 0, !.reads = n, !.hit = h], c)
         /\ [c EXCEPT !.held = 0, !.reads = n, !.hit = h].reads = n
<1> DEFINE read(z) == [c EXCEPT !.held = z, !.reads = n, !.hit = h]
<1>1. \A z \in 0 .. 2 : Alike(read(z), c) /\ read(z).reads = n
  BY ZenonT(60) DEF AnyClient, Alike
<1>2. 0 \in 0 .. 2
  OBVIOUS
<1> HIDE DEF read
<1>3. Alike(read(0), c) /\ read(0).reads = n
  BY <1>1, <1>2
<1> QED
  BY <1>3, Zenon DEF read

LEMMA HitField ==
  ASSUME NEW c \in AnyClient, NEW h \in BOOLEAN, NEW d, d = [c EXCEPT !.hit = h]
  PROVE  Alike(d, c)
  BY ZenonT(60) DEF AnyClient, Alike

LEMMA StatusField ==
  ASSUME NEW c \in AnyClient, NEW s \in {"going", "raised", "ended"}, NEW b \in BOOLEAN,
         NEW d, d = [c EXCEPT !.status = s, !.failed = b]
  PROVE  Alike(d, c) /\ d.status = s
  BY ZenonT(60) DEF AnyClient, Alike

LEMMA RaisedField ==
  ASSUME NEW c \in AnyClient
  PROVE  Alike(Raised(c), c) /\ Raised(c).status = "raised"
<1>1. \A s \in {"going", "raised", "ended"} :
        Alike([c EXCEPT !.status = s], c) /\ [c EXCEPT !.status = s].status = s
  BY ZenonT(60) DEF AnyClient, Alike
<1> QED
  BY <1>1 DEF Raised

LEMMA ClockField ==
  ASSUME NEW c \in AnyClient, NEW n \in Nat, NEW d, d = [c EXCEPT !.clock = n]
  PROVE  Alike(d, c) /\ d.clock = n
  BY ZenonT(60) DEF AnyClient, Alike

LEMMA LostField ==
  ASSUME NEW c \in AnyClient, NEW b \in BOOLEAN, NEW d, d = [c EXCEPT !.lost = b]
  PROVE  /\ d \in AnyClient /\ d.at = c.at /\ d.lost = b /\ d.asked = c.asked
         /\ d.body = c.body /\ d.saved = c.saved /\ d.file = c.file /\ d.reads = c.reads
  BY ZenonT(60) DEF AnyClient

LEMMA BodyField ==
  ASSUME NEW c \in AnyClient, NEW v \in Int, NEW d, d = [c EXCEPT !.body = v]
  PROVE  /\ d \in AnyClient /\ d.at = c.at /\ d.lost = c.lost /\ d.asked = c.asked
         /\ d.body = v /\ d.saved = c.saved /\ d.file = c.file /\ d.reads = c.reads
  BY ZenonT(60) DEF AnyClient

LEMMA FileField ==
  ASSUME NEW c \in AnyClient, NEW v \in Int
  PROVE  LET d == [c EXCEPT !.saved = TRUE, !.file = v]
         IN  /\ d \in AnyClient /\ d.at = c.at /\ d.lost = c.lost /\ d.asked = c.asked
             /\ d.body = c.body /\ d.file = v /\ d.reads = c.reads
<1> DEFINE filed(b) == [c EXCEPT !.saved = b, !.file = v]
<1>1. \A b \in BOOLEAN :
        /\ filed(b) \in AnyClient /\ filed(b).at = c.at /\ filed(b).lost = c.lost
        /\ filed(b).asked = c.asked /\ filed(b).body = c.body /\ filed(b).file = v
        /\ filed(b).reads = c.reads
  BY ZenonT(60) DEF AnyClient
<1>2. TRUE \in BOOLEAN
  OBVIOUS
<1> HIDE DEF filed
<1>3. /\ filed(TRUE) \in AnyClient /\ filed(TRUE).at = c.at /\ filed(TRUE).lost = c.lost
      /\ filed(TRUE).asked = c.asked /\ filed(TRUE).body = c.body /\ filed(TRUE).file = v
      /\ filed(TRUE).reads = c.reads
  BY <1>1, <1>2, Zenon
<1> QED
  BY <1>3, Zenon DEF filed

LEMMA PassedField ==
  ASSUME NEW c \in AnyClient, c.at <= 12
  PROVE  Forward(Passed(c), c) /\ Passed(c).body = c.body
<1> DEFINE moved(n, r, z) == [c EXCEPT !.at = n, !.reads = r, !.held = z]
           d == moved(c.at + 1, 0, 0)
<1>1. \A n \in 1 .. 13, r \in Nat, z \in 0 .. 2 :
        /\ moved(n, r, z) \in AnyClient /\ moved(n, r, z).at = n
        /\ moved(n, r, z).reads = r /\ moved(n, r, z).lost = c.lost
        /\ moved(n, r, z).asked = c.asked /\ moved(n, r, z).saved = c.saved
        /\ moved(n, r, z).file = c.file /\ moved(n, r, z).body = c.body
  BY ZenonT(60) DEF AnyClient
<1>2. Passed(c) = d
  BY Zenon DEF Passed
<1>3. c.at + 1 \in 1 .. 13 /\ 0 \in Nat /\ 0 \in 0 .. 2
  BY DEF AnyClient
<1> HIDE DEF moved
<1>4. /\ d \in AnyClient /\ d.at = c.at + 1 /\ d.reads = 0 /\ d.lost = c.lost
      /\ d.asked = c.asked /\ d.saved = c.saved /\ d.file = c.file /\ d.body = c.body
  BY <1>1, <1>3, Zenon
<1> QED
  BY <1>2, <1>4, Zenon DEF Forward

LEMMA StepIs ==
  /\ StepAt = IF client.status = "going" THEN Step(script, client.at) ELSE NoStep
  /\ StepAt' = IF client'.status = "going" THEN Step(script', client'.at) ELSE NoStep
  BY DEF StepAt, Step

\* The table, at the step in hand.
LEMMA StepHere ==
  ASSUME AInv, StepAt.do # "nothing"
  PROVE  /\ client.status = "going" /\ StepAt = Step(script, client.at)
         /\ client \in AnyClient /\ client.at \in 1 .. 12
         /\ client.at <= Len(Program[script])
         /\ script \in {"fault", "diag", "debug", "raw"}
<1>1. client.status = "going" /\ StepAt = Step(script, client.at)
  BY StepIs DEF NoStep, Do
<1>2. client \in AnyClient /\ client.at \in 1 .. 13 /\ script \in {"fault", "diag", "debug", "raw"}
  BY MonitorAssumption DEF MonitorAssumption, AInv, Typed, AnyClient
<1>3. client.at <= 12 /\ client.at <= Len(Program[script])
  BY <1>1, <1>2, StepTable
<1> QED
  BY <1>1, <1>2, <1>3

\* A script that changes nothing but itself, without sending.
LEMMA OwnStep ==
  ASSUME AInv, client' \in AnyClient,
         UNCHANGED <<script, inbox, vice, watch, ticks, hitAt>>,
         \/ client'.at = client.at
         \/ client'.at = client.at + 1 /\ StepAt.do \notin {"nothing", "send"},
         client'.asked = client.asked,
         client'.status = "going" =>
           \/ client'.reads = 0
           \/ /\ client'.at = client.at /\ client.status = "going"
              /\ StepAt.do = "drain" => client'.reads < StepAt.count,
         wire' \in Seq(Sound(Asked(script, client.at), client.asked)),
         script \in {"fault", "diag"} /\ client'.at = 7 /\ ~client'.lost /\ hitAt # {} =>
           HitOn(wire'),
         Answered(script, client'.at) => client'.body >= client.asked,
         client'.saved => Answered(script, client.at) /\ client'.file >= client.asked
  PROVE  AInv'
<1>1. /\ client \in AnyClient /\ client.at \in 1 .. 13 /\ client'.at \in 1 .. 13
      /\ script \in {"fault", "diag", "debug", "raw"}
  BY MonitorAssumption DEF MonitorAssumption, AInv, Typed, AnyClient
<1>2. client'.at <= Len(Program[script']) + 1
  <2>1. CASE client'.at = client.at
    BY <2>1 DEF AInv, Typed
  <2>2. CASE client'.at = client.at + 1 /\ StepAt.do \notin {"nothing", "send"}
    <3>1. client.at <= Len(Program[script])
      BY <2>2, StepHere
    <3>2. Len(Program[script]) \in Int
      BY <1>1 DEF Program, FaultProgram, DiagProgram, DebugProgram, RawProgram
    <3> QED
      BY <1>1, <2>2, <3>1, <3>2, SMTT(30)
  <2> QED
    BY <2>1, <2>2
<1>3. StepAt'.do = "drain" => client'.reads < StepAt'.count
  <2> SUFFICES ASSUME StepAt'.do = "drain" PROVE client'.reads < StepAt'.count
    OBVIOUS
  <2>1. client'.status = "going" /\ StepAt' = Step(script, client'.at)
    BY StepIs DEF NoStep, Do
  <2>2. CASE client'.reads = 0
    <3>1. StepAt'.count \in Nat \ {0}
      BY <1>1, <2>1, StepTable
    <3> QED
      BY <2>2, <3>1
  <2>3. CASE /\ client'.at = client.at /\ client.status = "going"
             /\ StepAt.do = "drain" => client'.reads < StepAt.count
    <3>1. StepAt' = StepAt
      BY <2>1, <2>3, StepIs
    <3> QED
      BY <2>3, <3>1
  <2> QED
    BY <2>1, <2>2, <2>3
<1>4. Typed'
  BY <1>2, <1>3 DEF AInv, Typed
<1>5. BeforeExit'
  <2>1. client'.at >= client.at
    BY <1>1
  <2> QED
    BY <1>1, <2>1 DEF AInv, BeforeExit
<1>6. /\ Asked(script, client'.at) = Asked(script, client.at)
      /\ Answered(script, client.at) => Answered(script, client'.at)
  <2>1. CASE client'.at = client.at
    BY <2>1
  <2>2. CASE client'.at = client.at + 1 /\ StepAt.do \notin {"nothing", "send"}
    <3>1. StepAt = Step(script, client.at)
      BY <2>2, StepHere
    <3>2. Asked(script, client'.at) = Asked(script, client.at)
      BY <1>1, <2>2, <3>1, StepTable
    <3>3. Answered(script, client.at) => Answered(script, client'.at)
      BY <1>1, <2>2 DEF Answered
    <3> QED
      BY <3>2, <3>3
  <2> QED
    BY <2>1, <2>2
<1>7. HitAhead'
  BY DEF HitAhead
<1>8. Answering'
  BY <1>6 DEF AInv, Answering
<1> QED
  BY <1>4, <1>5, <1>7, <1>8 DEF AInv

----------------------------------------------------------------------------
\* Reading, in any script.
LEMMA HandledAny ==
  ASSUME AInv, Reading, NEW m \in Messages,
         m.type = "mem" => Asked(script, client.at) /\ m.version >= client.asked
  PROVE  \/ /\ Alike(Handled(m), client)
            /\ StepAt.do = "drain" => Handled(m).reads < StepAt.count
            /\ StepAt.do = "wait" => ~IsHit(m)
         \/ /\ Forward(Handled(m), client)
            /\ Answered(script, client.at + 1) => Handled(m).body >= client.asked
<1> DEFINE more == client.reads + 1
           seen == client.hit \/ IsHit(m)
           c == [client EXCEPT !.held = 0, !.reads = more, !.hit = seen]
           h == [client EXCEPT !.hit = TRUE]
           z == [client EXCEPT !.held = 0]
           b == [Passed(client) EXCEPT !.body = m.version]
<1>1. /\ client.status = "going" /\ StepAt = Step(script, client.at)
      /\ client \in AnyClient /\ client.at \in 1 .. 12 /\ client.at <= 12
      /\ script \in {"fault", "diag", "debug", "raw"}
      /\ StepAt.do \in {"await", "drain", "wait"}
  BY StepHere DEF Reading
<1>2. client.reads \in Nat /\ more \in Nat /\ seen \in BOOLEAN
      /\ m.version \in Int /\ 0 \in 0 .. 2 /\ TRUE \in BOOLEAN
      /\ client.body \in Int
  BY <1>1 DEF AnyClient, Messages, IsHit
<1>3. Alike(c, client) /\ c.reads = client.reads + 1
  <2>1. client \in AnyClient /\ 0 \in 0 .. 2 /\ more \in Nat /\ seen \in BOOLEAN
    BY <1>1, <1>2
  <2> HIDE DEF seen, more
  <2>2. Alike(c, client) /\ c.reads = more
    BY <2>1, ReadsField, Zenon
  <2> QED
    BY <2>2 DEF more
<1>4. Alike(h, client) /\ Alike(z, client) /\ z.reads = client.reads
  BY <1>1, <1>2, HitField, HeldField, Zenon
<1>5. Forward(Passed(client), client)
  BY <1>1, PassedField, Zenon
<1>6. Handled(m) = IF StepAt.do = "drain"
                     THEN IF c.reads = StepAt.count THEN Passed(c) ELSE c
                   ELSE IF StepAt.do = "await" /\ Matches(m) THEN b
                   ELSE IF StepAt.do = "wait" /\ IsHit(m) THEN Passed(h)
                   ELSE z
  BY Zenon DEF Handled
<1> HIDE DEF c, h, z
<1>7. CASE StepAt.do = "drain"
  <2>1. ~Answered(script, client.at + 1)
    <3>1. ~Asked(script, client.at)
      BY <1>1, <1>7, StepTable
    <3>2. Answered(script, client.at + 1) => Answered(script, client.at)
      BY <1>1, <1>7, StepTable, SMTT(30)
    <3> QED
      BY <1>1, <3>1, <3>2, StepTable, SMTT(30)
  <2>2. StepAt.count \in Nat /\ client.reads < StepAt.count
    <3>1. StepAt.count \in Nat
      BY <1>1, <1>7, StepTable, SMTT(30)
    <3> QED
      BY <1>7, <3>1 DEF AInv, Typed
  <2>3. CASE c.reads = StepAt.count
    <3>1. c \in AnyClient /\ c.at <= 12 /\ c.at = client.at
      BY <1>1, <1>3 DEF Alike
    <3>2. Forward(Passed(c), c)
      BY <3>1, PassedField, Zenon
    <3>3. Forward(Passed(c), client)
      BY <1>3, <3>2, Zenon DEF Alike, Forward
    <3> QED
      BY <1>6, <1>7, <2>1, <2>3, <3>3, Zenon
  <2>4. CASE c.reads # StepAt.count
    <3>1. c.reads < StepAt.count
      BY <1>2, <1>3, <2>2, <2>4
    <3>2. StepAt.do # "wait"
      BY <1>7
    <3> QED
      BY <1>3, <1>6, <1>7, <2>4, <3>1, <3>2, Zenon
  <2> QED
    BY <2>3, <2>4
<1>8. CASE StepAt.do = "await" /\ Matches(m)
  <2>1. Forward(b, client) /\ b.body = m.version
    <3>1. Passed(client) \in AnyClient
      BY <1>5 DEF Forward
    <3>2. /\ b \in AnyClient /\ b.at = Passed(client).at /\ b.lost = Passed(client).lost
          /\ b.asked = Passed(client).asked /\ b.body = m.version
          /\ b.saved = Passed(client).saved /\ b.file = Passed(client).file
          /\ b.reads = Passed(client).reads
      <4>1. \A d : d = b => d.body = m.version /\ d \in AnyClient
        BY <1>2, <3>1, BodyField
      <4> QED
        BY <1>2, <3>1, <4>1, BodyField
    <3> HIDE DEF b
    <3> QED
      BY <1>5, <3>2, Zenon DEF Forward
  <2> HIDE DEF b
  <2>2. Answered(script, client.at + 1) => m.type = "mem"
    BY <1>1, <1>8, StepTable, SMTT(30) DEF Matches
  <2>3. Answered(script, client.at + 1) => b.body >= client.asked
    BY <2>1, <2>2
  <2>4. Handled(m) = b
    BY <1>6, <1>8, Zenon
  <2> QED
    BY <2>1, <2>3, <2>4, Zenon
<1>9. CASE StepAt.do = "wait" /\ IsHit(m)
  <2>1. Handled(m) = Passed(h)
    BY <1>6, <1>9, Zenon
  <2>2. h \in AnyClient /\ h.at <= 12 /\ h.at = client.at
    BY <1>1, <1>4 DEF Alike
  <2>3. Forward(Passed(h), h)
    BY <2>2, PassedField, Zenon
  <2>4. Forward(Passed(h), client)
    BY <1>4, <2>3, Zenon DEF Alike, Forward
  <2>5. ~Answered(script, client.at + 1)
    BY <1>1, <1>9, StepTable, SMTT(30) DEF Answered
  <2> QED
    BY <2>1, <2>4, <2>5, Zenon
<1>10. CASE /\ StepAt.do # "drain" /\ ~(StepAt.do = "await" /\ Matches(m))
            /\ ~(StepAt.do = "wait" /\ IsHit(m))
  <2>1. Handled(m) = z
    BY <1>6, <1>10, Zenon
  <2> QED
    BY <1>4, <1>10, <2>1, Zenon
<1> QED
  BY <1>7, <1>8, <1>9, <1>10, Zenon

\* A message is dealt with, and the wire is read.
LEMMA ReadStep ==
  ASSUME AInv, Reading, NEW m \in Messages,
         m.type = "mem" => Asked(script, client.at) /\ m.version >= client.asked,
         NEW d, d = Handled(m) \/ d = [Handled(m) EXCEPT !.lost = TRUE], client' = d,
         UNCHANGED <<script, inbox, vice, watch, ticks, hitAt>>,
         wire' \in Seq(Sound(Asked(script, client.at), client.asked)),
         HitOn(wire) /\ ~HitOn(wire') => d.lost \/ IsHit(m)
  PROVE  AInv'
<1> DEFINE e == Handled(m)
<1>1. /\ client.status = "going" /\ StepAt = Step(script, client.at)
      /\ client \in AnyClient /\ client.at \in 1 .. 12
      /\ script \in {"fault", "diag", "debug", "raw"}
      /\ StepAt.do \in {"await", "drain", "wait"}
  BY StepHere DEF Reading
<1>2. \/ /\ Alike(e, client)
         /\ StepAt.do = "drain" => e.reads < StepAt.count
         /\ StepAt.do = "wait" => ~IsHit(m)
      \/ /\ Forward(e, client)
         /\ Answered(script, client.at + 1) => e.body >= client.asked
  BY HandledAny, Zenon
<1> HIDE DEF e
<1>3. e \in AnyClient
  BY <1>2 DEF Alike, Forward
<1>4. /\ d \in AnyClient /\ d.at = e.at /\ (e.lost => d.lost) /\ d.asked = e.asked
      /\ d.body = e.body /\ d.saved = e.saved /\ d.file = e.file /\ d.reads = e.reads
  <2>1. CASE d = e
    BY <1>3, <2>1, Zenon
  <2>2. CASE d = [e EXCEPT !.lost = TRUE]
    <3>1. d.lost = TRUE
      BY <1>3, <2>2, LostField, Zenon
    <3> QED
      BY <1>3, <2>2, <3>1, LostField, ZenonT(60)
  <2> QED
    BY <2>1, <2>2, Zenon DEF e
<1>5. client.saved => Answered(script, client.at) /\ client.file >= client.asked
  BY DEF AInv, Answering
<1>6. d.saved = client.saved /\ d.file = client.file /\ d.asked = client.asked
      /\ (client.lost => d.lost)
  BY <1>2, <1>4, Zenon DEF Alike, Forward
<1>7. d.saved => Answered(script, client.at) /\ d.file >= client.asked
  BY <1>5, <1>6, Zenon
<1>8. CASE /\ Alike(e, client)
           /\ StepAt.do = "drain" => e.reads < StepAt.count
           /\ StepAt.do = "wait" => ~IsHit(m)
  <2>1. d.at = client.at /\ d.body = client.body
    BY <1>4, <1>8, Zenon DEF Alike
  <2>2. script \in {"fault", "diag"} /\ d.at = 7 /\ ~d.lost /\ hitAt # {} => HitOn(wire')
    <3> SUFFICES ASSUME script \in {"fault", "diag"}, d.at = 7, ~d.lost, hitAt # {}
                 PROVE  HitOn(wire')
      OBVIOUS
    <3>1. HitOn(wire)
      BY <1>6, <2>1 DEF AInv, HitAhead
    <3>2. StepAt.do = "wait"
      BY <1>1, <2>1, StepTable
    <3> QED
      BY <1>8, <3>1, <3>2
  <2>3. Answered(script, d.at) => d.body >= client.asked
    BY <2>1 DEF AInv, Answering
  <2>4. StepAt.do = "drain" => d.reads < StepAt.count
    BY <1>4, <1>8
  <2> QED
    BY <1>1, <1>4, <1>6, <1>7, <2>1, <2>2, <2>3, <2>4, OwnStep
<1>9. CASE /\ Forward(e, client)
           /\ Answered(script, client.at + 1) => e.body >= client.asked
  <2>1. d.at = client.at + 1 /\ d.reads = 0 /\ StepAt.do \notin {"nothing", "send"}
    BY <1>1, <1>4, <1>9 DEF Forward
  <2>2. ~(d.at = 7 /\ hitAt # {})
    BY <1>1, <2>1 DEF AInv, BeforeExit
  <2>3. Answered(script, d.at) => d.body >= client.asked
    BY <1>4, <1>9, <2>1
  <2> QED
    BY <1>1, <1>4, <1>6, <1>7, <2>1, <2>2, <2>3, OwnStep
<1> QED
  BY <1>2, <1>8, <1>9

LEMMA WireAny ==
  ASSUME AInv
  PROVE  /\ wire \in Seq(Sound(Asked(script, client.at), client.asked))
         /\ wire # <<>> =>
              /\ Head(wire).m \in Messages
              /\ Head(wire).m.type = "mem" =>
                   Asked(script, client.at) /\ Head(wire).m.version >= client.asked
              /\ Head(wire).part \in 1 .. 3 /\ Head(wire).part <= LastPart(Head(wire).m)
              /\ Tail(wire) \in Seq(Sound(Asked(script, client.at), client.asked))
              /\ HitOn(wire) =>
                   HitOn(Tail(wire)) \/ (Head(wire).part = 3 /\ IsHit(Head(wire).m))
<1> DEFINE S == Sound(Asked(script, client.at), client.asked)
<1>1. wire \in Seq(S)
  BY DEF AInv, Answering
<1>2. ASSUME wire # <<>>
      PROVE  /\ Head(wire) \in S /\ Tail(wire) \in Seq(S)
             /\ HitOn(wire) =>
                  HitOn(Tail(wire)) \/ (Head(wire).part = 3 /\ IsHit(Head(wire).m))
  <2> HIDE DEF S
  <2>1. /\ Head(wire) \in S /\ Tail(wire) \in Seq(S) /\ Head(wire) = wire[1]
        /\ Len(Tail(wire)) = Len(wire) - 1 /\ Len(wire) \in Nat
        /\ \A i \in 1 .. Len(Tail(wire)) : Tail(wire)[i] = wire[i + 1]
    BY <1>1, <1>2, HeadTailProperties, LenProperties
  <2>2. ASSUME NEW i \in 1 .. Len(wire), wire[i].part = 3, IsHit(wire[i].m)
        PROVE  HitOn(Tail(wire)) \/ (Head(wire).part = 3 /\ IsHit(Head(wire).m))
    <3>1. CASE i = 1
      BY <2>1, <2>2, <3>1
    <3>2. CASE i # 1
      <4>1. i - 1 \in 1 .. Len(Tail(wire)) /\ (i - 1) + 1 = i
        BY <2>1, <3>2
      <4>2. Tail(wire)[i - 1] = wire[i]
        BY <2>1, <4>1
      <4> QED
        BY <2>2, <4>1, <4>2 DEF HitOn
    <3> QED
      BY <3>1, <3>2
  <2> QED
    BY <2>1, <2>2 DEF HitOn
<1> QED
  BY <1>1, <1>2 DEF Sound

\* The rest of what is on the wire is as sound as the whole.
LEMMA RestSound ==
  ASSUME NEW S, NEW w \in Seq(S), NEW n \in 0 .. Len(w)
  PROVE  SubSeq(w, n + 1, Len(w)) \in Seq(S)
<1>1. Len(w) \in Nat /\ n \in Nat /\ \A i \in 1 .. Len(w) : w[i] \in S
  BY LenProperties, ElementOfSeq
<1>2. \A i \in (n + 1) .. Len(w) : w[i] \in S
  BY <1>1
<1> QED
  BY <1>1, <1>2, SubSeqProperties

LEMMA PassStep ==
  ASSUME AInv, StepAt.do \in {"connect", "drain", "wait", "recv", "resume"},
         client' = Passed(client), UNCHANGED <<script, inbox, vice, watch, ticks, hitAt>>,
         wire' \in Seq(Sound(Asked(script, client.at), client.asked))
  PROVE  AInv'
<1>1. /\ StepAt = Step(script, client.at) /\ client \in AnyClient /\ client.at \in 1 .. 12
      /\ script \in {"fault", "diag", "debug", "raw"}
  BY StepHere
<1>2. Forward(client', client) /\ client'.body = client.body
  <2>1. client.at <= 12
    BY <1>1
  <2> QED
    BY <1>1, <2>1, PassedField
<1>3. ~(client'.at = 7 /\ hitAt # {})
  <2>1. client'.at = client.at + 1
    BY <1>2 DEF Forward
  <2>2. client'.at = 7 => client.at <= 6
    BY <1>1, <2>1
  <2> QED
    BY <2>2 DEF AInv, BeforeExit
<1>4. Answered(script, client'.at) = Answered(script, client.at)
  <2>1. client'.at = client.at + 1
    BY <1>2 DEF Forward
  <2>2. client.at \in 1 .. 13 /\ Step(script, client.at).do \notin {"await", "nothing"}
    BY <1>1
  <2> QED
    BY <1>1, <2>1, <2>2, StepTable, SMTT(30)
<1>5. Answered(script, client'.at) => client'.body >= client.asked
  BY <1>2, <1>4 DEF AInv, Answering
<1>6. client'.saved => Answered(script, client.at) /\ client'.file >= client.asked
  BY <1>2 DEF AInv, Answering, Forward
<1> QED
  BY <1>2, <1>3, <1>5, <1>6, OwnStep DEF Forward

\* A change of other fields, on a wire that stays or loses no hit.
LEMMA AlikeStep ==
  ASSUME AInv, Alike(client', client), UNCHANGED <<script, inbox, vice, watch, ticks, hitAt>>,
         wire' \in Seq(Sound(Asked(script, client.at), client.asked)),
         HitOn(wire) => HitOn(wire'),
         client'.status = "going" =>
           /\ client.status = "going"
           /\ StepAt.do = "drain" => client'.reads < StepAt.count
  PROVE  AInv'
<1>1. /\ client' \in AnyClient /\ client'.at = client.at /\ client'.lost = client.lost
      /\ client'.asked = client.asked /\ client'.body = client.body
      /\ client'.saved = client.saved /\ client'.file = client.file
  BY Zenon DEF Alike
<1>2. script \in {"fault", "diag"} /\ client'.at = 7 /\ ~client'.lost /\ hitAt # {} =>
        HitOn(wire')
  BY <1>1 DEF AInv, HitAhead
<1>3. Answered(script, client'.at) => client'.body >= client.asked
  BY <1>1 DEF AInv, Answering
<1>4. client'.saved => Answered(script, client.at) /\ client'.file >= client.asked
  BY <1>1 DEF AInv, Answering
<1> QED
  BY <1>1, <1>2, <1>3, <1>4, OwnStep

LEMMA RaiseStep ==
  ASSUME AInv, client' = Raised(client),
         UNCHANGED <<script, inbox, wire, vice, watch, ticks, hitAt>>
  PROVE  AInv'
<1>1. client \in AnyClient
  BY DEF AInv, Typed
<1>2. Alike(client', client) /\ client'.status = "raised"
  BY <1>1, RaisedField
<1> QED
  BY <1>2, WireAny, AlikeStep

LEMMA ReceiveAny ==
  ASSUME AInv, Receive
  PROVE  AInv'
<1>1. /\ Reading /\ wire # <<>> /\ wire' = Tail(wire)
      /\ UNCHANGED <<script, inbox, vice, watch, ticks, hitAt>>
  BY DEF Receive, Aligned
<1> DEFINE piece == Head(wire)
<1>2. /\ piece.m \in Messages
      /\ piece.m.type = "mem" => Asked(script, client.at) /\ piece.m.version >= client.asked
      /\ piece.part \in 1 .. 3 /\ piece.part <= LastPart(piece.m)
      /\ wire' \in Seq(Sound(Asked(script, client.at), client.asked))
      /\ HitOn(wire) => HitOn(wire') \/ (piece.part = 3 /\ IsHit(piece.m))
  BY <1>1, WireAny
<1>3. client' = IF piece.part < LastPart(piece.m) THEN [client EXCEPT !.held = piece.part]
                ELSE Handled(piece.m)
  BY DEF Receive
<1> HIDE DEF piece
<1>4. CASE piece.part < LastPart(piece.m)
  <2>1. piece.part \in 0 .. 2 /\ piece.part # 3
    BY <1>2, <1>4 DEF LastPart
  <2>2. /\ client \in AnyClient /\ client.status = "going"
        /\ client' = [client EXCEPT !.held = piece.part]
    BY <1>1, <1>3, <1>4, StepHere DEF Reading
  <2>3. /\ Alike(client', client) /\ client'.reads = client.reads
        /\ client'.status = client.status
    BY <2>1, <2>2, HeldField, Zenon
  <2>4. StepAt.do = "drain" => client'.reads < StepAt.count
    BY <2>3 DEF AInv, Typed
  <2> QED
    BY <1>1, <1>2, <2>1, <2>2, <2>3, <2>4, AlikeStep
<1>5. CASE ~(piece.part < LastPart(piece.m))
  <2>1. client' = Handled(piece.m)
    BY <1>3, <1>5
  <2> QED
    BY <1>1, <1>2, <2>1, ReadStep
<1> QED
  BY <1>4, <1>5

LEMMA MisreadAny ==
  ASSUME AInv, Misread
  PROVE  AInv'
<1>1. /\ Reading /\ UNCHANGED <<script, inbox, vice, watch, ticks, hitAt>>
      /\ \/ client' = Raised(client) /\ wire' = wire
         \/ \E n \in 1 .. Len(wire), hit \in BOOLEAN :
              /\ client' = [Handled(IF hit THEN Message("checkpoint", NoId, TRUE, NoVersion)
                                           ELSE Noise) EXCEPT !.lost = TRUE]
              /\ wire' = SubSeq(wire, n + 1, Len(wire))
  BY DEF Misread
<1>2. CASE client' = Raised(client) /\ wire' = wire
  BY <1>1, <1>2, RaiseStep
<1>3. ASSUME NEW n \in 1 .. Len(wire), NEW hit \in BOOLEAN,
             client' = [Handled(IF hit THEN Message("checkpoint", NoId, TRUE, NoVersion)
                                       ELSE Noise) EXCEPT !.lost = TRUE],
             wire' = SubSeq(wire, n + 1, Len(wire))
      PROVE  AInv'
  <2> DEFINE m == IF hit THEN Message("checkpoint", NoId, TRUE, NoVersion) ELSE Noise
  <2>1. m \in Messages /\ m.type # "mem"
    BY DEF Message, Noise, Told, Answer, NoId, NoVersion, Messages, MessageTypes
  <2>2. n \in 0 .. Len(wire)
    OBVIOUS
  <2>3. wire' \in Seq(Sound(Asked(script, client.at), client.asked))
    BY <1>3, <2>2, WireAny, RestSound
  <2>4. client' = [Handled(m) EXCEPT !.lost = TRUE]
    BY <1>3
  <2> HIDE DEF m
  <2>5. client'.lost
    <3>1. Handled(m) \in AnyClient
      BY <1>1, <2>1, HandledAny DEF Alike, Forward
    <3>2. client'.lost = TRUE
      BY <2>4, <3>1, LostField, Zenon
    <3> QED
      BY <3>2
  <2> QED
    BY <1>1, <2>1, <2>3, <2>4, <2>5, ReadStep
<1> QED
  BY <1>1, <1>2, <1>3

LEMMA SaveAny ==
  ASSUME AInv, Save
  PROVE  AInv'
<1>1. /\ client' = [Passed(client) EXCEPT !.saved = TRUE, !.file = client.body]
      /\ UNCHANGED <<script, inbox, wire, vice, watch, ticks, hitAt>> /\ StepAt.do = "save"
  BY DEF Save
<1>2. /\ StepAt = Step(script, client.at) /\ client \in AnyClient /\ client.at \in 1 .. 12
      /\ script \in {"fault", "diag", "debug", "raw"}
  BY <1>1, StepHere
<1>3. Forward(Passed(client), client) /\ Passed(client).body = client.body
  <2>1. client.at <= 12
    BY <1>2
  <2> QED
    BY <1>2, <2>1, PassedField
<1>4. client.body \in Int /\ Passed(client) \in AnyClient
  BY <1>2, <1>3 DEF AnyClient, Forward
<1>5. /\ client' \in AnyClient /\ client'.at = client.at + 1 /\ client'.asked = client.asked
      /\ client'.body = client.body /\ client'.file = client.body /\ client'.reads = 0
  <2>1. /\ client' \in AnyClient /\ client'.at = Passed(client).at
        /\ client'.asked = Passed(client).asked /\ client'.body = Passed(client).body
        /\ client'.file = client.body /\ client'.reads = Passed(client).reads
    <3> DEFINE p == Passed(client)
               v == client.body
    <3>1. p \in AnyClient /\ v \in Int /\ client' = [p EXCEPT !.saved = TRUE, !.file = v]
      BY <1>1, <1>4
    <3> HIDE DEF p, v
    <3>2. /\ client' \in AnyClient /\ client'.at = p.at /\ client'.asked = p.asked
          /\ client'.body = p.body /\ client'.file = v /\ client'.reads = p.reads
      BY <3>1, FileField, Zenon
    <3> QED
      BY <3>2 DEF p, v
  <2> QED
    BY <1>3, <2>1, Zenon DEF Forward
<1>6. Answered(script, client.at) /\ client.body >= client.asked
  BY <1>1, <1>2, StepTable, SMTT(30) DEF AInv, Answering
<1>7. ~(client'.at = 7 /\ hitAt # {})
  BY <1>2, <1>5 DEF AInv, BeforeExit
<1> QED
  BY <1>1, <1>5, <1>6, <1>7, WireAny, OwnStep

LEMMA CleanUpAny ==
  ASSUME AInv, CleanUp
  PROVE  AInv'
<1>1. /\ client' = [client EXCEPT !.status = "ended", !.failed = client.status = "raised"]
      /\ vice' \in {vice, "gone"} /\ UNCHANGED <<script, inbox, wire, watch, ticks, hitAt>>
  BY DEF CleanUp
<1>2. Alike(client', client) /\ client'.status = "ended"
  <2>1. client \in AnyClient /\ (client.status = "raised") \in BOOLEAN
    BY DEF AInv, Typed
  <2>2. "ended" \in {"going", "raised", "ended"}
    OBVIOUS
  <2> QED
    BY <1>1, <2>1, <2>2, StatusField, ZenonT(60)
<1>3. /\ client' \in AnyClient /\ client'.at = client.at /\ client'.lost = client.lost
      /\ client'.asked = client.asked /\ client'.body = client.body
      /\ client'.saved = client.saved /\ client'.file = client.file
  BY <1>2, Zenon DEF Alike
<1>4. Typed'
  <2>1. StepAt'.do # "drain"
    BY <1>2, StepIs DEF NoStep, Do
  <2> QED
    BY <1>1, <1>3, <2>1 DEF AInv, Typed
<1>5. BeforeExit' /\ HitAhead' /\ Answering'
  BY <1>1, <1>3 DEF AInv, Typed, BeforeExit, HitAhead, Answering
<1> QED
  BY <1>4, <1>5 DEF AInv

LEMMA SentAny ==
  ASSUME AInv, NEW later \in {0, 1}, NEW type,
         Sent(type, [client EXCEPT !.clock = client.clock + later]),
         UNCHANGED <<script, wire, vice, watch, ticks, hitAt>>,
         \/ StepAt.do = "send" /\ type = StepAt.type
         \/ StepAt.do = "resume" /\ type = "exit"
  PROVE  AInv'
<1> DEFINE c == [client EXCEPT !.clock = client.clock + later]
           new == [type |-> type, id |-> c.clock]
           asked == IF type = "mem" THEN ticks ELSE Passed(c).asked
<1>1. /\ StepAt = Step(script, client.at) /\ client \in AnyClient /\ client.at \in 1 .. 12
      /\ client.at <= Len(Program[script])
      /\ script \in {"fault", "diag", "debug", "raw"}
  BY StepHere
<1>2. /\ inbox' = Append(inbox, new)
      /\ client' = [Passed(c) EXCEPT !.id = c.clock, !.asked = asked]
  BY Zenon DEF Sent
<1>3. Alike(c, client) /\ c.clock \in Nat /\ c \in AnyClient /\ c.at <= 12
  <2>1. client.clock + later \in Nat
    BY <1>1 DEF AnyClient
  <2>2. Alike(c, client) /\ c.clock = client.clock + later
    BY <1>1, <2>1, ClockField, Zenon
  <2> QED
    BY <1>1, <2>1, <2>2 DEF Alike
<1> HIDE DEF c
<1>4. Forward(Passed(c), client) /\ Passed(c).body = client.body
  <2>1. Forward(Passed(c), c) /\ Passed(c).body = c.body
    BY <1>3, PassedField
  <2> QED
    BY <1>3, <2>1, Zenon DEF Alike, Forward
<1>5. asked \in Nat /\ asked = IF type = "mem" THEN ticks ELSE client.asked
  BY <1>4, MonitorAssumption DEF MonitorAssumption, AInv, Typed, Forward, AnyClient
<1> HIDE DEF asked
<1>6. /\ client' \in AnyClient /\ client'.at = client.at + 1 /\ client'.lost = client.lost
      /\ client'.asked = asked /\ client'.body = client.body /\ client'.saved = client.saved
      /\ client'.file = client.file /\ client'.reads = 0
  <2>1. Passed(c) \in AnyClient
    BY <1>4 DEF Forward
  <2>2. /\ client' \in AnyClient /\ client'.at = Passed(c).at /\ client'.lost = Passed(c).lost
        /\ client'.asked = asked /\ client'.body = Passed(c).body
        /\ client'.saved = Passed(c).saved /\ client'.file = Passed(c).file
        /\ client'.reads = Passed(c).reads
    <3> DEFINE p == Passed(c)
               n == c.clock
    <3>1. p \in AnyClient /\ n \in Nat /\ asked \in Nat
          /\ client' = [p EXCEPT !.id = n, !.asked = asked]
      BY <1>2, <1>3, <1>5, <2>1
    <3> HIDE DEF p, n
    <3>2. /\ client' \in AnyClient /\ client'.at = p.at /\ client'.lost = p.lost
          /\ client'.asked = asked /\ client'.body = p.body /\ client'.saved = p.saved
          /\ client'.file = p.file /\ client'.reads = p.reads
      <4>1. LET d == [p EXCEPT !.id = n, !.asked = asked]
            IN  /\ d \in AnyClient /\ d.at = p.at /\ d.lost = p.lost /\ d.asked = asked
                /\ d.body = p.body /\ d.saved = p.saved /\ d.file = p.file
                /\ d.reads = p.reads
        BY <3>1, ZenonT(60) DEF AnyClient
      <4> QED
        BY <3>1, <4>1, Zenon
    <3> QED
      BY <3>2, Zenon DEF p
  <2> QED
    BY <1>4, <2>2, Zenon DEF Forward
<1>7. /\ type \in CommandTypes /\ (type = "exit" => client.at >= 6)
      /\ type = "mem" => ~Asked(script, client.at) /\ Asked(script, client.at + 1)
      /\ type # "mem" => Asked(script, client.at + 1) = Asked(script, client.at)
      /\ Answered(script, client.at + 1) = Answered(script, client.at)
  BY <1>1, StepTable, SMTT(30) DEF CommandTypes
<1>8. new \in AnyCommand /\ new.type = type
  BY <1>3, <1>7 DEF AnyCommand
<1> HIDE DEF new
<1>9. /\ inbox \in Seq(AnyCommand) /\ inbox' \in Seq(AnyCommand)
      /\ Len(inbox') = Len(inbox) + 1 /\ Len(inbox) \in Nat
      /\ \A i \in 1 .. Len(inbox) : inbox'[i] = inbox[i]
      /\ inbox'[Len(inbox) + 1] = new
  BY <1>2, <1>8 DEF AInv, Typed
<1>10. Typed'
  <2>1. StepAt'.do = "drain" => StepAt'.count \in Nat \ {0}
    <3>1. client'.at \in 1 .. 13
      BY <1>6 DEF AnyClient
    <3>2. Step(script, client'.at).do = "drain" => Step(script, client'.at).count \in Nat \ {0}
      BY <1>1, <3>1, StepTable
    <3> QED
      BY <3>2, StepIs DEF NoStep, Do
  <2>2. Len(Program[script]) \in Nat
    BY <1>1 DEF Program, FaultProgram, DiagProgram, DebugProgram, RawProgram
  <2>3. client'.at <= Len(Program[script']) + 1
    BY <1>1, <1>6, <2>2
  <2>4. StepAt'.do = "drain" => client'.reads < StepAt'.count
    BY <1>6, <2>1
  <2> QED
    BY <1>6, <1>9, <2>3, <2>4 DEF AInv, Typed
<1>11. BeforeExit'
  <2> SUFFICES ASSUME client'.at <= 6 PROVE BeforeExit'
    BY DEF BeforeExit
  <2>1. client.at <= 6 /\ type # "exit"
    BY <1>1, <1>6, <1>7
  <2>2. \A i \in 1 .. Len(inbox') : inbox'[i].type # "exit"
    BY <1>8, <1>9, <2>1 DEF AInv, BeforeExit
  <2> QED
    BY <2>1, <2>2 DEF AInv, BeforeExit
<1>12. HitAhead'
  <2>1. client'.at = 7 => client.at <= 6
    BY <1>1, <1>6
  <2> QED
    BY <2>1 DEF AInv, BeforeExit, HitAhead
<1>13. CASE type = "mem"
  <2>1. asked = ticks /\ ~Asked(script, client.at) /\ Asked(script, client'.at)
    BY <1>5, <1>6, <1>7, <1>13
  <2>2. ~Answered(script, client.at) /\ ~Answered(script, client'.at)
    BY <1>1, <1>6, <1>7, <2>1, StepTable, SMTT(30)
  <2>3. Sound(Asked(script, client.at), client.asked) \subseteq Sound(Asked(script, client'.at), asked)
    BY <2>1 DEF Sound
  <2>4. wire' \in Seq(Sound(Asked(script, client'.at), asked))
    BY <2>3, WireAny, SeqMonotonic
  <2>5. asked <= ticks
    BY <1>5, <2>1
  <2> QED
    BY <1>6, <1>10, <1>11, <1>12, <2>1, <2>2, <2>4, <2>5 DEF AInv, Answering
<1>14. CASE type # "mem"
  <2>1. /\ asked = client.asked /\ Asked(script, client'.at) = Asked(script, client.at)
        /\ Answered(script, client'.at) = Answered(script, client.at)
    BY <1>5, <1>6, <1>7, <1>14
  <2>2. \A i \in 1 .. Len(inbox') : inbox'[i].type = "mem" => Asked(script, client.at)
    BY <1>8, <1>9, <1>14 DEF AInv, Answering
  <2> QED
    BY <1>6, <1>10, <1>11, <1>12, <2>1, <2>2 DEF AInv, Answering
<1> QED
  BY <1>13, <1>14

LEMMA ClientAny ==
  ASSUME AInv, Client
  PROVE  AInv'
<1>1. CASE SendCommand
  <2>1. PICK later \in {0, 1} : Sent(StepAt.type, [client EXCEPT !.clock = client.clock + later])
    BY <1>1 DEF SendCommand
  <2> QED
    BY <1>1, <2>1, SentAny DEF SendCommand
<1>2. CASE ResumeAfterHit
  <2>1. CASE client.hit
    <3>1. PICK later \in {0, 1} : Sent("exit", [client EXCEPT !.clock = client.clock + later])
      BY <1>2, <2>1 DEF ResumeAfterHit
    <3> QED
      BY <1>2, <3>1, SentAny DEF ResumeAfterHit
  <2>2. CASE ~client.hit
    BY <1>2, <2>2, WireAny, PassStep DEF ResumeAfterHit
  <2> QED
    BY <2>1, <2>2
<1>3. CASE Connect \/ SendFails
  BY <1>3, WireAny, PassStep, RaiseStep DEF Connect, SendFails
<1>4. CASE TimeOut
  BY <1>4, WireAny, PassStep, RaiseStep DEF TimeOut
<1>5. CASE Expire
  BY <1>5, WireAny, PassStep, RaiseStep DEF Expire
<1>6. CASE ConnectionClosed
  BY <1>6, WireAny, PassStep, RaiseStep DEF ConnectionClosed
<1>7. CASE ReceiveRaw
  <2>1. PICK n \in 0 .. Len(wire) : wire' = SubSeq(wire, n + 1, Len(wire))
    BY <1>7 DEF ReceiveRaw
  <2>2. wire' \in Seq(Sound(Asked(script, client.at), client.asked))
    BY <2>1, WireAny, RestSound
  <2> QED
    BY <1>7, <2>2, PassStep DEF ReceiveRaw
<1> QED
  BY <1>1, <1>2, <1>3, <1>4, <1>5, <1>6, <1>7, SaveAny, ReceiveAny, MisreadAny, CleanUpAny
     DEF Client

----------------------------------------------------------------------------
\* VICE, with any script.
LEMMA PartsSound ==
  ASSUME NEW a, NEW n, NEW m \in Messages, m.type = "mem" => a /\ m.version >= n
  PROVE  Parts(m) \in Seq(Sound(a, n))
<1>1. LastPart(m) \in {2, 3}
  BY DEF LastPart
<1>2. \A i \in 1 .. LastPart(m) : [part |-> i, m |-> m] \in Sound(a, n)
  BY <1>1 DEF Sound
<1>3. Parts(m) \in [1 .. LastPart(m) -> Sound(a, n)]
  BY <1>2 DEF Parts
<1> QED
  BY <1>1, <1>3, SeqDef

LEMMA StoppingSound ==
  ASSUME NEW a, NEW n
  PROVE  Stopping \in Seq(Sound(a, n)) /\ Parts(Told("resumed")) \in Seq(Sound(a, n))
<1>1. \A type \in {"registers", "stopped", "resumed"} :
        Told(type) \in Messages /\ Told(type).type # "mem"
  BY DEF Told, Answer, Message, NoId, NoVersion, Messages, MessageTypes
<1>2. /\ Parts(Told("registers")) \in Seq(Sound(a, n))
      /\ Parts(Told("stopped")) \in Seq(Sound(a, n))
      /\ Parts(Told("resumed")) \in Seq(Sound(a, n))
  BY <1>1, PartsSound
<1> QED
  BY <1>2, ConcatProperties DEF Stopping

\* A hit stays on the wire when more is put there.
LEMMA HitStays ==
  ASSUME NEW S, NEW w \in Seq(S), NEW v \in Seq(S)
  PROVE  /\ w \o v \in Seq(S)
         /\ HitOn(w) \/ HitOn(v) => HitOn(w \o v)
<1>1. /\ w \o v \in Seq(S) /\ Len(w \o v) = Len(w) + Len(v) /\ Len(w) \in Nat /\ Len(v) \in Nat
      /\ \A i \in 1 .. Len(w) : (w \o v)[i] = w[i]
      /\ \A i \in 1 .. Len(v) : (w \o v)[Len(w) + i] = v[i]
  BY ConcatProperties, LenProperties
<1>2. ASSUME NEW i \in 1 .. Len(w), w[i].part = 3, IsHit(w[i].m)
      PROVE  HitOn(w \o v)
  <2>1. i \in 1 .. Len(w \o v)
    BY <1>1
  <2> QED
    BY <1>1, <1>2, <2>1 DEF HitOn
<1>3. ASSUME NEW i \in 1 .. Len(v), v[i].part = 3, IsHit(v[i].m)
      PROVE  HitOn(w \o v)
  <2>1. Len(w) + i \in 1 .. Len(w \o v)
    BY <1>1
  <2> QED
    BY <1>1, <1>3, <2>1 DEF HitOn
<1> QED
  BY <1>1, <1>2, <1>3 DEF HitOn

LEMMA ObeyAny ==
  ASSUME AInv, Obey
  PROVE  AInv'
<1> DEFINE c == Head(inbox)
           S == Sound(Asked(script, client.at), client.asked)
           before == IF vice = "running" THEN Stopping ELSE <<>>
<1>1. /\ inbox # <<>> /\ vice \in {"running", "stopped"} /\ inbox' = Tail(inbox)
      /\ wire' = wire \o before \o Answers(c)
      /\ vice' = IF c.type = "exit" THEN "running"
                 ELSE IF c.type = "quit" THEN "gone" ELSE "stopped"
      /\ watch' = (watch \/ c.type = "set")
      /\ UNCHANGED <<script, client, ticks, hitAt>>
  BY DEF Obey
<1>2. /\ c \in AnyCommand /\ c = inbox[1] /\ 1 \in 1 .. Len(inbox)
      /\ inbox' \in Seq(AnyCommand) /\ Len(inbox') = Len(inbox) - 1 /\ Len(inbox) \in Nat
      /\ \A i \in 1 .. Len(inbox') : inbox'[i] = inbox[i + 1]
  <2>1. inbox \in Seq(AnyCommand)
    BY DEF AInv, Typed
  <2> QED
    BY <1>1, <2>1, HeadTailProperties, LenProperties, EmptySeq
<1> HIDE DEF c
<1>3. \A i \in 1 .. Len(inbox') : i + 1 \in 1 .. Len(inbox)
  BY <1>2
<1>4. StepAt' = StepAt
  BY <1>1, StepIs
<1>5. Typed'
  BY <1>1, <1>2, <1>4 DEF AInv, Typed
<1>6. BeforeExit'
  BY <1>1, <1>2, <1>3 DEF AInv, BeforeExit
<1>7. Answers(c) \in Seq(S)
  <2>1. CASE c.type = "quit"
    BY <2>1, EmptySeq DEF Answers
  <2>2. CASE c.type # "quit"
    <3> DEFINE type == IF c.type = "set" THEN "checkpoint" ELSE c.type
               version == IF c.type = "mem" THEN ticks ELSE NoVersion
               m == Message(type, c.id, FALSE, version)
               after == IF c.type = "exit" THEN Parts(Told("resumed")) ELSE <<>>
    <3>1. Answers(c) = Parts(m) \o after
      BY <2>2 DEF Answers
    <3>2. m \in Messages /\ m.type = type /\ m.version = version
      BY <1>2, <2>2, MonitorAssumption
         DEF MonitorAssumption, AnyCommand, CommandTypes, Message, Messages, MessageTypes,
             NoVersion, AInv, Typed
    <3>3. type = "mem" => Asked(script, client.at) /\ version >= client.asked
      <4> SUFFICES ASSUME type = "mem" PROVE Asked(script, client.at) /\ version >= client.asked
        OBVIOUS
      <4>1. c.type = "mem"
        OBVIOUS
      <4>2. ticks \in Nat /\ client.asked \in Nat /\ client.asked <= ticks
        BY MonitorAssumption DEF MonitorAssumption, AInv, Typed, Answering, AnyClient
      <4> QED
        BY <1>2, <4>1, <4>2 DEF AInv, Answering
    <3> HIDE DEF m
    <3>4. Parts(m) \in Seq(S)
      BY <3>2, <3>3, PartsSound
    <3>5. after \in Seq(S)
      BY StoppingSound, EmptySeq
    <3> HIDE DEF after, S
    <3> QED
      BY <3>1, <3>4, <3>5, ConcatProperties
  <2> QED
    BY <2>1, <2>2
<1>8. wire' \in Seq(S) /\ (HitOn(wire) => HitOn(wire'))
  <2>1. wire \in Seq(S) /\ before \in Seq(S)
    BY WireAny, StoppingSound, EmptySeq
  <2> HIDE DEF before, S
  <2>2. wire \o before \in Seq(S) /\ (HitOn(wire) => HitOn(wire \o before))
    BY <2>1, HitStays
  <2> QED
    BY <1>1, <1>7, <2>2, HitStays
<1>9. HitAhead'
  BY <1>1, <1>8 DEF AInv, HitAhead
<1>10. Answering'
  BY <1>1, <1>2, <1>3, <1>8 DEF AInv, Answering
<1> QED
  BY <1>5, <1>6, <1>9, <1>10 DEF AInv

LEMMA RunAny ==
  ASSUME AInv, Run
  PROVE  AInv'
<1> DEFINE S == Sound(Asked(script, client.at), client.asked)
           hit == Message("checkpoint", NoId, TRUE, NoVersion)
<1>1. /\ vice = "running" /\ ticks < MaxTicks /\ ticks' = ticks + 1
      /\ UNCHANGED <<script, client, inbox>>
      /\ \/ /\ watch /\ watch' = FALSE /\ vice' = "stopped" /\ hitAt' = {ticks'}
            /\ wire' = wire \o Parts(hit) \o Stopping
         \/ UNCHANGED <<watch, vice, hitAt, wire>>
  BY DEF Run
<1>2. /\ ticks \in Nat /\ ticks' \in 0 .. MaxTicks /\ client.asked \in Nat
      /\ client.asked <= ticks'
  BY <1>1, MonitorAssumption DEF MonitorAssumption, AInv, Typed, Answering, AnyClient
<1>3. StepAt' = StepAt
  BY <1>1, StepIs
<1>4. Typed'
  BY <1>1, <1>2, <1>3 DEF AInv, Typed
<1>5. BeforeExit'
  BY <1>1 DEF AInv, BeforeExit
<1>6. CASE /\ watch /\ watch' = FALSE /\ vice' = "stopped" /\ hitAt' = {ticks'}
           /\ wire' = wire \o Parts(hit) \o Stopping
  <2>1. hit \in Messages /\ hit.type # "mem" /\ IsHit(hit) /\ LastPart(hit) = 3
    BY DEF Message, NoId, NoVersion, Messages, MessageTypes, IsHit, LastPart
  <2> HIDE DEF hit
  <2>2. wire \in Seq(S) /\ Parts(hit) \in Seq(S) /\ Stopping \in Seq(S)
    BY <2>1, WireAny, PartsSound, StoppingSound
  <2>3. HitOn(Parts(hit))
    <3>1. Parts(hit) = [i \in 1 .. 3 |-> [part |-> i, m |-> hit]]
      BY <2>1 DEF Parts
    <3>2. Len(Parts(hit)) = 3 /\ Parts(hit)[3] = [part |-> 3, m |-> hit]
      BY <2>2, <3>1, LenProperties
    <3>3. 3 \in 1 .. Len(Parts(hit)) /\ Parts(hit)[3].part = 3 /\ IsHit(Parts(hit)[3].m)
      BY <2>1, <3>2
    <3> QED
      BY <3>3 DEF HitOn
  <2> HIDE DEF S
  <2>4. wire \o Parts(hit) \in Seq(S) /\ HitOn(wire \o Parts(hit))
    BY <2>2, <2>3, HitStays
  <2>5. wire' \in Seq(S) /\ HitOn(wire')
    BY <1>6, <2>2, <2>4, HitStays
  <2>6. HitAhead'
    BY <2>5 DEF HitAhead
  <2>7. Answering'
    BY <1>1, <1>2, <2>5 DEF AInv, Answering, S
  <2> QED
    BY <1>4, <1>5, <2>6, <2>7 DEF AInv
<1>7. CASE UNCHANGED <<watch, vice, hitAt, wire>>
  BY <1>1, <1>2, <1>4, <1>5, <1>7 DEF AInv, HitAhead, Answering
<1> QED
  BY <1>1, <1>6, <1>7

LEMMA LeaveAny ==
  ASSUME AInv, Leave
  PROVE  AInv'
<1>1. /\ vice = "running" /\ vice' \in {"gone", "stalled"}
      /\ UNCHANGED <<script, client, inbox, wire, watch, ticks, hitAt>>
  BY DEF Leave
<1>2. StepAt' = StepAt
  BY <1>1, StepIs
<1> QED
  BY <1>1, <1>2 DEF AInv, Typed, BeforeExit, HitAhead, Answering

----------------------------------------------------------------------------
LEMMA AnyInit ==
  ASSUME Init
  PROVE  AInv
<1>1. client \in AnyClient /\ client.at = 1 /\ client.saved = FALSE /\ client.asked = 0
  BY DEF Init, AnyClient, NoId, NoVersion
<1>2. /\ script \in {"fault", "diag", "debug", "raw"} /\ 1 \in 1 .. 13
      /\ ~Asked(script, 1) /\ ~Answered(script, 1)
  BY MonitorAssumption DEF MonitorAssumption, Init, Asked, Answered
<1>3. Typed
  <2>1. StepAt.do # "drain"
    <3>1. Step(script, 1) = Do("connect")
      <4>1. CASE script = "fault"
        BY <4>1 DEF Step, Program, FaultProgram
      <4>2. CASE script = "diag"
        BY <4>2 DEF Step, Program, DiagProgram
      <4>3. CASE script = "debug"
        BY <4>3 DEF Step, Program, DebugProgram
      <4>4. CASE script = "raw"
        BY <4>4 DEF Step, Program, RawProgram
      <4> QED
        BY <1>2, <4>1, <4>2, <4>3, <4>4
    <3> QED
      BY <1>1, <3>1, StepIs DEF NoStep, Do
  <2>2. Len(Program[script]) \in Nat
    BY <1>2 DEF Program, FaultProgram, DiagProgram, DebugProgram, RawProgram
  <2>3. inbox \in Seq(AnyCommand) /\ ticks \in 0 .. MaxTicks /\ hitAt \subseteq 0 .. MaxTicks
    BY EmptySeq, MonitorAssumption DEF MonitorAssumption, Init
  <2>4. client.at <= Len(Program[script]) + 1
    BY <1>1, <2>2
  <2> QED
    BY <1>1, <2>1, <2>3, <2>4 DEF Init, Typed
<1>4. BeforeExit /\ HitAhead
  BY EmptySeq DEF Init, BeforeExit, HitAhead
<1>5. Answering
  BY <1>1, <1>2, EmptySeq DEF Init, Answering
<1> QED
  BY <1>3, <1>4, <1>5 DEF AInv

LEMMA AnyStep ==
  ASSUME AInv, [Next]_vars
  PROVE  AInv'
<1>1. CASE Client
  BY <1>1, ClientAny
<1>2. CASE Obey \/ Run \/ Leave
  BY <1>2, ObeyAny, RunAny, LeaveAny
<1>3. CASE UNCHANGED vars
  <2>1. StepAt' = StepAt
    BY <1>3, StepIs DEF vars
  <2> QED
    BY <1>3, <2>1 DEF vars, AInv, Typed, BeforeExit, HitAhead, Answering
<1> QED
  BY <1>1, <1>2, <1>3 DEF Next, Over

LEMMA AnyInvariance == Spec => []AInv
  BY AnyInit, AnyStep, PTL DEF Spec

(***************************************************************************)
(* Every script stays within its program, a drain within its count, and    *)
(* what is on the wire are pieces of messages, for every length of the run *)
(* and every choice of scripts.                                            *)
(***************************************************************************)
THEOREM TypeCorrect == Spec => []TypeOK
<1>1. AInv => TypeOK
  <2> SUFFICES ASSUME AInv PROVE TypeOK
    OBVIOUS
  <2>1. \A i \in 1 .. Len(wire) : wire[i].part \in 1 .. LastPart(wire[i].m)
    <3>1. \A i \in 1 .. Len(wire) : wire[i] \in Sound(Asked(script, client.at), client.asked)
      BY WireAny, ElementOfSeq
    <3>2. \A i \in 1 .. Len(wire) :
            wire[i].part \in 1 .. 3 /\ wire[i].part <= LastPart(wire[i].m)
      BY <3>1 DEF Sound
    <3> QED
      BY <3>2 DEF LastPart
  <2>2. client.at \in 1 .. Len(Program[script]) + 1
    <3>1. script \in {"fault", "diag", "debug", "raw"}
      BY MonitorAssumption DEF MonitorAssumption, AInv, Typed
    <3>2. Len(Program[script]) \in Nat
      BY <3>1 DEF Program, FaultProgram, DiagProgram, DebugProgram, RawProgram
    <3> QED
      BY <3>2, SMTT(30) DEF AInv, Typed, AnyClient
  <2> QED
    BY <2>1, <2>2 DEF AInv, Typed, AnyClient, TypeOK
<1> QED
  BY <1>1, AnyInvariance, PTL

(***************************************************************************)
(* A dump that is saved holds the memory of a machine that was asked for   *)
(* it: the answer is not older than the request, in the fault script and   *)
(* in the diagnostics', whatever ids collide and headers are misread.      *)
(***************************************************************************)
THEOREM DumpsAnswer == Spec => []DumpAnswersRequest
<1>1. AInv => DumpAnswersRequest
  BY DEF AInv, Answering, DumpAnswersRequest
<1> QED
  BY <1>1, AnyInvariance, PTL

(***************************************************************************)
(* While a script waits for the hit, its stream in order, a hit that       *)
(* happened is still on the wire: the machine is not let go before the     *)
(* answer to the watchpoint has been read.                                 *)
(***************************************************************************)
THEOREM HitsAreRead == Spec => []HitNotReadOver
<1>1. AInv => HitNotReadOver
  <2> SUFFICES ASSUME AInv, StepAt.do = "wait", ~client.lost, hitAt # {}
               PROVE  \E i \in 1 .. Len(wire) : IsHit(wire[i].m)
    BY DEF HitNotReadOver
  <2>1. /\ StepAt = Step(script, client.at) /\ client.at \in 1 .. 13
        /\ script \in {"fault", "diag", "debug", "raw"}
    BY StepHere
  <2>2. script \in {"fault", "diag"} /\ client.at = 7
    BY <2>1, StepTable
  <2> QED
    BY <2>2 DEF AInv, HitAhead, HitOn
<1> QED
  BY <1>1, AnyInvariance, PTL
=============================================================================
