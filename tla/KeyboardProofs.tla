--------------------------- MODULE KeyboardProofs ---------------------------
(***************************************************************************)
(* For every ring of two places or more, every set of host keys and every  *)
(* byte the guest writes: the keyboard's fields keep their ranges, the     *)
(* ring is empty between handlers, so that it never overflows, every code  *)
(* is announced, and the keyboard implements the stream of keys.  Type and *)
(* drained ring are one inductive invariant: without the second, push and  *)
(* service could leave the count out of step with head and tail.  The      *)
(* refinement rests on it too: of a drained keyboard only key_waiting is   *)
(* on its way, so that each routine's effect on the codes is one case.     *)
(***************************************************************************)
EXTENDS Keyboard, SequenceTheorems, TLAPS

IInv == TypeOK /\ RingDrained

LEMMA FollowingSlot ==
  ASSUME NEW i \in Slot
  PROVE  Following(i) \in Slot
  BY KeyboardAssumption DEF Following, Slot

----------------------------------------------------------------------------
\* What the routines do to the type and to the ring's indices.
LEMMA PushFacts ==
  ASSUME NEW k \in KeyboardType, NEW c \in Code, k.count < RingSize
  PROVE  /\ Push(k, c) \in KeyboardType
         /\ Push(k, c).count = k.count + 1
         /\ Push(k, c).head = k.head
         /\ Push(k, c).tail = Following(k.tail)
<1> DEFINE stored == [k.queue EXCEPT ![k.tail] = c]
           after(q, t, h, n) ==
             [k EXCEPT !.queue = q, !.tail = t, !.head = h, !.count = n]
<1>1. /\ k.count \in 0 .. RingSize - 1 /\ k.tail \in Slot /\ k.head \in Slot
      /\ stored \in [Slot -> Code]
  BY KeyboardAssumption DEF KeyboardType
<1>2. ~(k.count >= RingSize)
  BY <1>1, KeyboardAssumption
<1>3. Push(k, c) = after(stored, Following(k.tail), k.head, k.count + 1)
  BY <1>2 DEF Push
<1>4. Following(k.tail) \in Slot /\ k.count + 1 \in 0 .. RingSize
  BY <1>1, FollowingSlot, KeyboardAssumption
<1>5. \A q \in [Slot -> Code], t, h \in Slot, n \in 0 .. RingSize :
        /\ after(q, t, h, n) \in KeyboardType
        /\ after(q, t, h, n).count = n
        /\ after(q, t, h, n).head = h
        /\ after(q, t, h, n).tail = t
  BY ZenonT(60) DEF KeyboardType
<1> HIDE DEF stored, after
<1> QED
  BY <1>1, <1>3, <1>4, <1>5

LEMMA PresentFacts ==
  ASSUME NEW k \in KeyboardType
  PROVE  /\ Present(k) \in KeyboardType
         /\ Present(k).count = k.count
         /\ Present(k).head = k.head
         /\ Present(k).tail = k.tail
<1>1. 0 \in 0 .. BdaLimit
  BY KeyboardAssumption
<1> QED
  BY <1>1 DEF Present, KeyboardType

LEMMA TakeNextFacts ==
  ASSUME NEW k \in KeyboardType, k.count > 0
  PROVE  /\ TakeNext(k) \in KeyboardType
         /\ TakeNext(k).count = k.count - 1
         /\ TakeNext(k).head = Following(k.head)
         /\ TakeNext(k).tail = k.tail
<1>1. k.head \in Slot /\ k.queue \in [Slot -> Code]
  BY DEF KeyboardType
<1>2. Following(k.head) \in Slot
  BY <1>1, FollowingSlot
<1>3. k.count - 1 \in 0 .. RingSize
  BY KeyboardAssumption DEF KeyboardType
<1>4. k.queue[k.head] \in Code
  BY <1>1
<1> QED
  BY <1>2, <1>3, <1>4 DEF TakeNext, KeyboardType

LEMMA ServiceFacts ==
  ASSUME NEW k \in KeyboardType
  PROVE  /\ Service(k) \in KeyboardType
         /\ Service(k).tail = k.tail
         /\ k.count > 0 => /\ Service(k).count = k.count - 1
                           /\ Service(k).head = Following(k.head)
         /\ k.count = 0 => /\ Service(k).count = 0
                           /\ Service(k).head = k.head
<1> DEFINE p == IF k.wantirq THEN Present(k) ELSE k
<1>1. /\ p \in KeyboardType
      /\ p.count = k.count /\ p.head = k.head /\ p.tail = k.tail
  BY PresentFacts
<1>2. Service(k) = IF p.count > 0 THEN TakeNext(p) ELSE p
  BY DEF Service
<1> HIDE DEF p
<1>3. p.count > 0 => /\ TakeNext(p) \in KeyboardType
                     /\ TakeNext(p).count = p.count - 1
                     /\ TakeNext(p).head = Following(p.head)
                     /\ TakeNext(p).tail = p.tail
  BY <1>1, TakeNextFacts
<1> QED
  BY <1>1, <1>2, <1>3

----------------------------------------------------------------------------
(***************************************************************************)
(* A drained keyboard: typed, the ring empty.                              *)
(***************************************************************************)
Drained == {k \in KeyboardType : k.count = 0 /\ k.head = k.tail}

LEMMA ServiceDrained ==
  ASSUME NEW k \in Drained
  PROVE  Service(k) \in Drained
  BY ServiceFacts DEF Drained

\* Two pushes and two services bring a drained keyboard back.
LEMMA PairDrained ==
  ASSUME NEW k \in Drained, NEW a \in Code, NEW b \in Code
  PROVE  Service(Service(Push(Push(k, a), b))) \in Drained
<1> DEFINE p == Push(k, a)
           q == Push(p, b)
           s == Service(q)
           t == Service(s)
<1>1. k \in KeyboardType /\ k.count = 0 /\ k.head = k.tail
  BY DEF Drained
<1>2. /\ p \in KeyboardType /\ p.count = 1 /\ p.head = k.head
      /\ p.tail = Following(k.tail)
  <2>1. k.count < RingSize
    BY <1>1, KeyboardAssumption
  <2> QED
    BY <1>1, <2>1, PushFacts
<1> HIDE DEF p
<1>3. /\ q \in KeyboardType /\ q.count = 2 /\ q.head = k.head
      /\ q.tail = Following(Following(k.tail))
  <2>1. p.count < RingSize
    BY <1>2, KeyboardAssumption
  <2>2. /\ q \in KeyboardType /\ q.count = p.count + 1 /\ q.head = p.head
        /\ q.tail = Following(p.tail)
    BY <1>2, <2>1, PushFacts
  <2> QED
    BY <1>2, <2>2
<1> HIDE DEF q
<1>4. /\ s \in KeyboardType /\ s.count = 1 /\ s.head = Following(k.head)
      /\ s.tail = q.tail
  BY <1>3, ServiceFacts
<1> HIDE DEF s
<1>5. /\ t \in KeyboardType /\ t.count = 0
      /\ t.head = Following(Following(k.head)) /\ t.tail = s.tail
  BY <1>4, ServiceFacts
<1> HIDE DEF t
<1>6. t \in Drained
  BY <1>1, <1>3, <1>4, <1>5 DEF Drained
<1> QED
  BY <1>6 DEF p, q, s, t

LEMMA FlagsDrained ==
  ASSUME NEW k \in Drained
  PROVE  RequestIrq1(k) \in Drained /\ Quiet(k) \in Drained
  BY DEF RequestIrq1, Quiet, Drained, KeyboardType

LEMMA InjectDrained ==
  ASSUME NEW k \in Drained, NEW make \in 1 .. 127
  PROVE  Inject(k, make) \in Drained
<1>1. make \in Code /\ Break(make) \in Code
  BY DEF Break, Code
<1>2. Service(Service(Push(Push(k, make), Break(make)))) \in Drained
  BY <1>1, PairDrained
<1> QED
  BY <1>2, FlagsDrained DEF Inject

LEMMA PollDrained ==
  ASSUME NEW k \in Drained, NEW key \in HostKeys \cup {Unmapped, NoKey}
  PROVE  Poll(k, key) \in Drained
<1>1. Service(Quiet(k)) \in Drained
  BY FlagsDrained, ServiceDrained
<1>2. key \notin {NoKey, Unmapped} => key \in 1 .. 127
  BY KeyboardAssumption DEF Unmapped, NoKey
<1> QED
  BY <1>1, <1>2, InjectDrained DEF Poll

LEMMA AnswerDrained ==
  ASSUME NEW k \in Drained
  PROVE  AnswerPrompt(k) \in Drained
<1>1. YMake \in Code /\ Break(YMake) \in Code
  BY DEF YMake, Break, Code
<1>2. Service(Service(Push(Push(k, YMake), Break(YMake)))) \in Drained
  BY <1>1, PairDrained
<1> QED
  BY <1>2, ServiceDrained, FlagsDrained DEF AnswerPrompt

LEMMA ResetDrained ==
  ASSUME NEW k, k \in [queue : [Slot -> Code], head : Slot, tail : Slot,
                       count : 0 .. RingSize, key_waiting : Code,
                       wantirq : BOOLEAN, pa : Code, shift_full : BOOLEAN,
                       pb : Code, bda_keys : 0 .. BdaLimit, asked : BOOLEAN]
  PROVE  Reset(k) \in Drained
<1>1. /\ 0 \in Slot /\ 0 \in 0 .. RingSize /\ 0 \in Code
      /\ SelfTestOk \in Code /\ 1 \in 0 .. BdaLimit
  BY KeyboardAssumption DEF Slot, Code, SelfTestOk
<1>2. Reset(k) \in KeyboardType
  BY <1>1 DEF Reset, KeyboardType
<1>3. Reset(k).count = 0 /\ Reset(k).head = Reset(k).tail
  BY DEF Reset
<1> QED
  BY <1>2, <1>3 DEF Drained

LEMMA WritePortBDrained ==
  ASSUME NEW v \in PortBytes, kb \in Drained, WritePortB(v)
  PROVE  kb' \in Drained
<1> DEFINE k == [ResetOnClockRelease(Quiet(kb), v) EXCEPT !.pb = v]
<1>1. ResetOnClockRelease(Quiet(kb), v) \in Drained
  BY FlagsDrained, ResetDrained DEF ResetOnClockRelease, Drained, KeyboardType
<1>2. v \in Code /\ 0 \in Code
  BY KeyboardAssumption DEF Code
<1>3. k \in Drained
  BY <1>1, <1>2 DEF Drained, KeyboardType
<1>4. kb' = IF Bit(v, 7)
              THEN Service([k EXCEPT !.pa = 0, !.shift_full = FALSE])
              ELSE k
  BY DEF WritePortB
<1> HIDE DEF k
<1>5. [k EXCEPT !.pa = 0, !.shift_full = FALSE] \in Drained
  BY <1>2, <1>3 DEF Drained, KeyboardType
<1> QED
  BY <1>3, <1>4, <1>5, ServiceDrained

----------------------------------------------------------------------------
\* The rest of the state: the host's side.
HostTypeOK ==
  /\ key_buffer \in Seq(HostKeys \cup {Unmapped})
  /\ Len(key_buffer) <= KernalLimit
  /\ irq_masked \in BOOLEAN
  /\ pressed \in HostKeys \cup {Unmapped, NoKey}
  /\ boot_autokey_sent \in BOOLEAN

LEMMA IInvSplit == IInv <=> kb \in Drained /\ HostTypeOK
  BY DEF IInv, TypeOK, RingDrained, Drained, HostTypeOK

LEMMA InitInv == Init => IInv
<1> SUFFICES ASSUME Init PROVE IInv
  OBVIOUS
<1>1. kb \in Drained
  <2>1. 0 \in Slot /\ 0 \in 0 .. RingSize /\ 0 \in Code /\ 0 \in 0 .. BdaLimit
    BY KeyboardAssumption DEF Slot, Code
  <2>2. [i \in Slot |-> 0] \in [Slot -> Code]
    BY <2>1
  <2> QED
    BY <2>1, <2>2, ResetDrained DEF Init
<1>2. HostTypeOK
  <2>1. PICK n \in 0 .. KernalLimit :
          key_buffer \in [1 .. n -> HostKeys \cup {Unmapped}]
    BY DEF Init
  <2>2. n \in Nat /\ n <= KernalLimit
    BY KeyboardAssumption
  <2>3. key_buffer \in Seq(HostKeys \cup {Unmapped})
    BY <2>1, <2>2, SeqDef
  <2>4. Len(key_buffer) = n
    BY <2>1, <2>2, <2>3, LenProperties
  <2> QED
    BY <2>2, <2>3, <2>4 DEF Init, HostTypeOK
<1> QED
  BY <1>1, <1>2, IInvSplit

LEMMA NextInv == IInv /\ [Next]_vars => IInv'
<1> SUFFICES ASSUME kb \in Drained, HostTypeOK, [Next]_vars
             PROVE  (kb \in Drained)' /\ HostTypeOK'
  BY IInvSplit, PTL
<1>1. CASE EndOfBatch
  <2>1. NextKey \in HostKeys \cup {Unmapped, NoKey}
    BY DEF NextKey, HostTypeOK
  <2>2. Poll(kb, NextKey) \in Drained
    BY <2>1, PollDrained
  <2>3. kb' \in Drained
    BY <1>1, <2>2, AnswerDrained DEF EndOfBatch
  <2>4. HostTypeOK'
    <3>1. /\ key_buffer' \in Seq(HostKeys \cup {Unmapped})
          /\ Len(key_buffer') <= KernalLimit
          /\ irq_masked' \in BOOLEAN
      <4>1. CASE key_buffer = <<>>
        BY <1>1, <4>1 DEF EndOfBatch, Getin, HostTypeOK
      <4>2. CASE key_buffer # <<>>
        <5>1. /\ Tail(key_buffer) \in Seq(HostKeys \cup {Unmapped})
              /\ Len(Tail(key_buffer)) = Len(key_buffer) - 1
              /\ Len(key_buffer) \in Nat
          BY <4>2, HeadTailProperties, LenProperties DEF HostTypeOK
        <5>2. key_buffer' = Tail(key_buffer) /\ irq_masked' = FALSE
          BY <1>1, <4>2 DEF EndOfBatch, Getin
        <5>3. Len(key_buffer) - 1 <= KernalLimit
          BY <5>1, KeyboardAssumption DEF HostTypeOK
        <5> QED
          BY <5>1, <5>2, <5>3
      <4> QED
        BY <4>1, <4>2
    <3> QED
      BY <1>1, <3>1 DEF EndOfBatch, HostTypeOK
  <2> QED
    BY <2>3, <2>4
<1>2. CASE \E v \in PortBytes : Out61(v)
  BY <1>2, WritePortBDrained DEF Out61, HostTypeOK, hostVars
<1>3. CASE BiosStores
  <2>1. Quiet(kb) \in Drained /\ kb.bda_keys + 1 \in 0 .. BdaLimit
    BY <1>3, FlagsDrained, KeyboardAssumption DEF BiosStores, Drained, KeyboardType
  <2>2. kb' = [Quiet(kb) EXCEPT !.bda_keys = kb.bda_keys + 1]
    BY <1>3 DEF BiosStores, Quiet, Drained, KeyboardType
  <2> QED
    BY <1>3, <2>1, <2>2 DEF BiosStores, Drained, KeyboardType, HostTypeOK, hostVars
<1>4. CASE BiosTakes
  <2>1. Quiet(kb) \in Drained /\ kb.bda_keys - 1 \in 0 .. BdaLimit
    BY <1>4, FlagsDrained, KeyboardAssumption DEF BiosTakes, Drained, KeyboardType
  <2>2. kb' = [Quiet(kb) EXCEPT !.bda_keys = kb.bda_keys - 1]
    BY <1>4 DEF BiosTakes, Quiet, Drained, KeyboardType
  <2> QED
    BY <1>4, <2>1, <2>2 DEF BiosTakes, Drained, KeyboardType, HostTypeOK, hostVars
<1>5. CASE \E k \in HostKeys \cup {Unmapped} : Press(k)
  BY <1>5 DEF Press, HostTypeOK
<1>6. CASE KernalScan
  <2>1. pressed \in HostKeys \cup {Unmapped}
    BY <1>6 DEF KernalScan, HostTypeOK
  <2>2. /\ key_buffer' \in Seq(HostKeys \cup {Unmapped})
        /\ Len(key_buffer') <= KernalLimit
    BY <1>6, <2>1, KeyboardAssumption DEF KernalScan, HostTypeOK
  <2> QED
    BY <1>6, <2>2 DEF KernalScan, HostTypeOK
<1>7. CASE UNCHANGED vars
  BY <1>7 DEF vars, hostVars, HostTypeOK
<1> QED
  BY <1>1, <1>2, <1>3, <1>4, <1>5, <1>6, <1>7 DEF Next

THEOREM Invariance == Spec => []IInv
  BY InitInv, NextInv, PTL DEF Spec

(***************************************************************************)
(* Every field of the keyboard keeps its range, for every ring size.       *)
(***************************************************************************)
THEOREM TypeCorrect == Spec => []TypeOK
<1>1. IInv => TypeOK
  BY DEF IInv
<1> QED
  BY <1>1, Invariance, PTL

(***************************************************************************)
(* The scan-code ring is empty whenever the guest runs; with two places or *)
(* more it never overflows.                                                *)
(***************************************************************************)
THEOREM RingAlwaysDrained == Spec => []RingDrained
<1>1. IInv => RingDrained
  BY DEF IInv
<1> QED
  BY <1>1, Invariance, PTL

----------------------------------------------------------------------------
(***************************************************************************)
(* What the routines do to the codes.  Of a drained keyboard only the      *)
(* waiting code is on its way to the port.                                 *)
(***************************************************************************)
Waiting(k) == IF k.wantirq THEN <<k.key_waiting>> ELSE <<>>

LEMMA WaitingIsBacklog ==
  ASSUME NEW k \in Drained
  PROVE  Waiting(k) \o [i \in 1 .. k.count |->
                          k.queue[(k.head + i - 1) % RingSize]] = Waiting(k)
<1>1. k.count = 0 /\ k.key_waiting \in Code
  BY DEF Drained, KeyboardType
<1>2. [i \in 1 .. k.count |-> k.queue[(k.head + i - 1) % RingSize]] = <<>>
  BY <1>1
<1>3. Waiting(k) \in Seq(Code)
  BY <1>1 DEF Waiting
<1> QED
  BY <1>2, <1>3, ConcatEmptySeq

LEMMA ServicePort ==
  ASSUME NEW k \in Drained
  PROVE  /\ Service(k).wantirq = FALSE
         /\ Service(k).pa = IF k.wantirq THEN k.key_waiting ELSE k.pa
         /\ Service(k).asked = (k.asked \/ k.wantirq)
<1>1. k \in KeyboardType /\ k.count = 0
  BY DEF Drained
<1>2. CASE k.wantirq
  <2>1. Present(k).count = 0
    BY <1>1, PresentFacts
  <2>2. Service(k) = Present(k)
    BY <1>2, <2>1 DEF Service
  <2> QED
    BY <1>1, <1>2, <2>2 DEF Present, KeyboardType
<1>3. CASE ~k.wantirq
  <2>1. Service(k) = k
    BY <1>1, <1>3 DEF Service
  <2> QED
    BY <1>1, <1>3, <2>1 DEF KeyboardType
<1> QED
  BY <1>2, <1>3

\* Of two codes pushed, two services bring the first to the port and leave
\* the second waiting, whatever waited before.
LEMMA PairPort ==
  ASSUME NEW k \in Drained, NEW a \in Code, NEW b \in Code
  PROVE  LET t == Service(Service(Push(Push(k, a), b)))
         IN  t.pa = a /\ t.key_waiting = b /\ t.wantirq = TRUE /\ t.asked = TRUE
<1> DEFINE p == Push(k, a)
           q == Push(p, b)
           s == Service(q)
           t == Service(s)
           one == Following(k.tail)
<1>1. k \in KeyboardType /\ k.count = 0 /\ k.head = k.tail /\ k.tail \in Slot
  BY DEF Drained, KeyboardType
<1>2. one \in Slot /\ one # k.tail
  BY <1>1, KeyboardAssumption DEF Following, Slot
<1>3. /\ p \in KeyboardType /\ p.count = 1 /\ p.head = k.tail /\ p.tail = one
      /\ p.queue = [k.queue EXCEPT ![k.tail] = a]
  <2>1. k.count < RingSize
    BY <1>1, KeyboardAssumption
  <2>2. p.queue = [k.queue EXCEPT ![k.tail] = a]
    BY <1>1 DEF Push, KeyboardType
  <2> QED
    BY <1>1, <2>1, <2>2, PushFacts
<1> HIDE DEF p
<1>4. /\ q \in KeyboardType /\ q.count = 2 /\ q.head = k.tail
      /\ q.queue = [p.queue EXCEPT ![one] = b]
  <2>1. p.count < RingSize
    BY <1>3, KeyboardAssumption
  <2>2. q.queue = [p.queue EXCEPT ![one] = b]
    BY <1>3 DEF Push, KeyboardType
  <2>3. q \in KeyboardType /\ q.count = p.count + 1 /\ q.head = p.head
    BY <1>3, <2>1, PushFacts
  <2> QED
    BY <1>3, <2>2, <2>3
<1>5. q.queue[k.tail] = a /\ q.queue[one] = b
  <2>1. k.queue \in [Slot -> Code]
    BY <1>1 DEF KeyboardType
  <2> QED
    BY <1>1, <1>2, <1>3, <1>4, <2>1
<1> HIDE DEF q
<1>6. /\ s \in KeyboardType /\ s.count = 1 /\ s.head = one
      /\ s.queue = q.queue /\ s.wantirq = TRUE /\ s.key_waiting = a
  <2>1. s \in KeyboardType /\ s.count = 1 /\ s.head = one
    BY <1>4, ServiceFacts
  <2>2. s.queue = q.queue /\ s.wantirq = TRUE /\ s.key_waiting = q.queue[q.head]
    BY <1>4 DEF Service, Present, TakeNext, KeyboardType
  <2> QED
    BY <1>4, <1>5, <2>1, <2>2
<1> HIDE DEF s, one
<1>7. /\ t.pa = s.key_waiting /\ t.asked = TRUE /\ t.wantirq = TRUE
      /\ t.key_waiting = s.queue[s.head]
  BY <1>6 DEF Service, Present, TakeNext, KeyboardType
<1> QED
  BY <1>5, <1>6, <1>7 DEF t, s, q, p

LEMMA FlagsPort ==
  ASSUME NEW k \in Drained
  PROVE  /\ \A f \in {"wantirq", "pa", "key_waiting", "pb"} :
              RequestIrq1(k)[f] = k[f] /\ Quiet(k)[f] = k[f]
         /\ RequestIrq1(k).asked = TRUE
         /\ Quiet(k).asked = FALSE
  BY DEF RequestIrq1, Quiet, Drained, KeyboardType

Absent == {NoKey, Unmapped}

\* A poll without a key lets the waiting code through.
LEMMA PollIdlePort ==
  ASSUME NEW k \in Drained, NEW key \in Absent
  PROVE  LET t == Poll(k, key)
         IN  /\ t.wantirq = FALSE /\ t.asked = k.wantirq
             /\ t.pa = IF k.wantirq THEN k.key_waiting ELSE k.pa
<1>1. Quiet(k) \in Drained
  BY FlagsDrained
<1>2. /\ Quiet(k).wantirq = k.wantirq /\ Quiet(k).pa = k.pa
      /\ Quiet(k).key_waiting = k.key_waiting /\ Quiet(k).asked = FALSE
  BY FlagsPort
<1>3. Poll(k, key) = Service(Quiet(k))
  BY DEF Poll, Absent
<1>4. k.wantirq \in BOOLEAN
  BY DEF Drained, KeyboardType
<1> QED
  BY <1>1, <1>2, <1>3, <1>4, ServicePort

\* A poll that takes a key leaves its make code in the port, its break code
\* waiting.
LEMMA PollKeyPort ==
  ASSUME NEW k \in Drained, NEW key \in HostKeys
  PROVE  LET t == Poll(k, key)
         IN  /\ t.wantirq = TRUE /\ t.asked = TRUE
             /\ t.pa = key /\ t.key_waiting = Break(key)
<1> DEFINE s == Service(Quiet(k))
           t == Service(Service(Push(Push(s, key), Break(key))))
<1>1. s \in Drained
  BY FlagsDrained, ServiceDrained
<1>2. key \in Code /\ Break(key) \in Code /\ key \notin Absent
  BY KeyboardAssumption DEF Break, Code, Absent, NoKey, Unmapped
<1>3. Poll(k, key) = RequestIrq1(t)
  BY <1>2 DEF Poll, Inject, Absent
<1> HIDE DEF s
<1>4. t \in Drained
  BY <1>1, <1>2, PairDrained
<1>5. t.pa = key /\ t.key_waiting = Break(key) /\ t.wantirq = TRUE
  BY <1>1, <1>2, PairPort
<1> HIDE DEF t
<1> QED
  BY <1>3, <1>4, <1>5, FlagsPort

\* The answer to the prompt passes altogether.
LEMMA AnswerPort ==
  ASSUME NEW k \in Drained
  PROVE  LET t == AnswerPrompt(k)
         IN  t.wantirq = FALSE /\ t.asked = TRUE /\ t.pa = Break(YMake)
<1> DEFINE s == Service(Service(Push(Push(k, YMake), Break(YMake))))
           t == Service(s)
<1>1. YMake \in Code /\ Break(YMake) \in Code
  BY DEF YMake, Break, Code
<1>2. s \in Drained /\ s.wantirq = TRUE /\ s.key_waiting = Break(YMake)
  BY <1>1, PairDrained, PairPort
<1>3. AnswerPrompt(k) = RequestIrq1(t)
  BY DEF AnswerPrompt
<1> HIDE DEF s
<1>4. t \in Drained /\ t.wantirq = FALSE /\ t.pa = Break(YMake)
  BY <1>2, ServiceDrained, ServicePort
<1> HIDE DEF t
<1> QED
  BY <1>3, <1>4, FlagsPort

\* A write to port 61h: it resets, acknowledges or leaves the codes alone.
LEMMA WritePort ==
  ASSUME NEW v \in PortBytes, kb \in Drained, WritePortB(v)
  PROVE  \/ /\ kb'.wantirq = FALSE /\ kb'.asked = TRUE
            /\ kb'.pa \in {SelfTestOk, 0}
         \/ /\ kb'.wantirq = FALSE /\ kb'.asked = kb.wantirq
            /\ kb'.pa = IF kb.wantirq THEN kb.key_waiting ELSE 0
         \/ /\ kb'.wantirq = kb.wantirq /\ kb'.pa = kb.pa
            /\ kb'.key_waiting = kb.key_waiting
<1> DEFINE r == ResetOnClockRelease(Quiet(kb), v)
           k == [r EXCEPT !.pb = v]
           z == [k EXCEPT !.pa = 0, !.shift_full = FALSE]
<1>1. Quiet(kb) \in Drained /\ r \in Drained
  BY FlagsDrained, ResetDrained DEF ResetOnClockRelease, Drained, KeyboardType
<1>2. v \in Code /\ 0 \in Code
  BY KeyboardAssumption DEF Code
<1>3. /\ Quiet(kb).wantirq = kb.wantirq /\ Quiet(kb).pa = kb.pa
      /\ Quiet(kb).key_waiting = kb.key_waiting /\ Quiet(kb).asked = FALSE
  BY FlagsPort
<1>4. \/ r.wantirq = FALSE /\ r.asked = TRUE /\ r.pa = SelfTestOk
      \/ r = Quiet(kb)
  BY <1>1 DEF ResetOnClockRelease, Reset, Drained, KeyboardType
<1>5. kb' = IF Bit(v, 7) THEN Service(z) ELSE k
  BY DEF WritePortB
<1> HIDE DEF r
<1>6. /\ k \in Drained /\ k.wantirq = r.wantirq /\ k.asked = r.asked
      /\ k.pa = r.pa /\ k.key_waiting = r.key_waiting
  BY <1>1, <1>2 DEF Drained, KeyboardType
<1> HIDE DEF k
<1>7. /\ z \in Drained /\ z.wantirq = k.wantirq /\ z.asked = k.asked
      /\ z.pa = 0 /\ z.key_waiting = k.key_waiting
  BY <1>2, <1>6 DEF Drained, KeyboardType
<1> HIDE DEF z
<1>8. /\ Service(z).wantirq = FALSE
      /\ Service(z).pa = IF z.wantirq THEN z.key_waiting ELSE z.pa
      /\ Service(z).asked = (z.asked \/ z.wantirq)
  BY <1>7, ServicePort
<1>9. kb.wantirq \in BOOLEAN
  BY DEF Drained, KeyboardType
<1>10. CASE Bit(v, 7)
  BY <1>3, <1>4, <1>5, <1>6, <1>7, <1>8, <1>9, <1>10
<1>11. CASE ~Bit(v, 7)
  BY <1>3, <1>4, <1>5, <1>6, <1>11
<1> QED
  BY <1>10, <1>11

----------------------------------------------------------------------------
(***************************************************************************)
(* The codes announced.                                                    *)
(***************************************************************************)
LEMMA BacklogWaits ==
  /\ kb \in Drained => Backlog = Waiting(kb)
  /\ kb' \in Drained => Backlog' = Waiting(kb')
<1>1. ASSUME kb \in Drained PROVE Backlog = Waiting(kb)
  BY <1>1, WaitingIsBacklog DEF Backlog, Waiting
<1>2. ASSUME kb' \in Drained PROVE Backlog' = Waiting(kb')
  BY <1>2, WaitingIsBacklog DEF Backlog, Waiting
<1> QED
  BY <1>1, <1>2

Announced ==
  kb'.pa \notin {kb.pa, 0} \/ Len(Backlog') < Len(Backlog) => kb'.asked

LEMMA StepAnnounced ==
  ASSUME kb \in Drained, HostTypeOK, kb' \in Drained, Next
  PROVE  Announced \/ UNCHANGED vars
<1>1. Backlog = Waiting(kb) /\ Backlog' = Waiting(kb')
  BY BacklogWaits
<1>2. /\ kb.wantirq = FALSE => Len(Backlog) = 0
      /\ kb.wantirq = TRUE => Len(Backlog) = 1
      /\ kb'.wantirq = FALSE => Len(Backlog') = 0
      /\ kb'.wantirq = TRUE => Len(Backlog') = 1
  BY <1>1 DEF Waiting
<1>3. kb.wantirq \in BOOLEAN /\ kb'.wantirq \in BOOLEAN
  BY DEF Drained, KeyboardType
<1>4. CASE EndOfBatch
  <2> DEFINE t == Poll(kb, NextKey)
  <2>1. NextKey \in HostKeys \cup Absent
    BY DEF NextKey, HostTypeOK, Absent
  <2>2. t \in Drained
    BY <2>1, PollDrained DEF Absent
  <2>3. CASE kb' = AnswerPrompt(t)
    BY <2>2, <2>3, AnswerPort DEF Announced
  <2>4. CASE kb' = t /\ NextKey \in HostKeys
    BY <2>4, PollKeyPort DEF Announced
  <2>5. CASE kb' = t /\ NextKey \in Absent
    <3>1. kb'.asked = kb.wantirq
      BY <2>5, PollIdlePort
    <3>2. ~kb.wantirq => kb'.pa = kb.pa /\ kb'.wantirq = FALSE
      BY <2>5, PollIdlePort
    <3> QED
      BY <1>2, <1>3, <3>1, <3>2 DEF Announced
  <2> QED
    BY <1>4, <2>1, <2>3, <2>4, <2>5 DEF EndOfBatch
<1>5. CASE \E v \in PortBytes : Out61(v)
  <2>1. PICK v \in PortBytes : WritePortB(v)
    BY <1>5 DEF Out61
  <2>2. \/ /\ kb'.wantirq = FALSE /\ kb'.asked = TRUE
           /\ kb'.pa \in {SelfTestOk, 0}
        \/ /\ kb'.wantirq = FALSE /\ kb'.asked = kb.wantirq
           /\ kb'.pa = IF kb.wantirq THEN kb.key_waiting ELSE 0
        \/ /\ kb'.wantirq = kb.wantirq /\ kb'.pa = kb.pa
           /\ kb'.key_waiting = kb.key_waiting
    BY <2>1, WritePort
  <2> QED
    BY <1>2, <1>3, <2>2 DEF Announced
<1>6. CASE BiosStores \/ BiosTakes
  <2>1. kb'.pa = kb.pa /\ kb'.wantirq = kb.wantirq
    BY <1>6 DEF BiosStores, BiosTakes, Quiet, Drained, KeyboardType
  <2> QED
    BY <1>2, <1>3, <2>1 DEF Announced
<1>7. CASE kb' = kb
  BY <1>2, <1>3, <1>7 DEF Announced
<1> QED
  BY <1>4, <1>5, <1>6, <1>7 DEF Next, Press, KernalScan

(***************************************************************************)
(* No code comes to port 60h in silence: whatever the ring's size, a step  *)
(* that brings one, or takes one off what waits, requests IRQ 1.           *)
(***************************************************************************)
THEOREM EveryCodeAnnounced == Spec => CodesAnnounced
<1>1. IInv /\ IInv' /\ [Next]_vars => [Announced]_vars
  <2> SUFFICES ASSUME IInv, IInv', Next
               PROVE  Announced \/ UNCHANGED vars
    OBVIOUS
  <2>1. kb \in Drained /\ HostTypeOK /\ kb' \in Drained
    BY IInvSplit DEF IInv, TypeOK, RingDrained, Drained
  <2> QED
    BY <2>1, StepAnnounced
<1>2. Spec => [][Announced]_vars
  BY <1>1, InitInv, NextInv, PTL DEF Spec
<1> QED
  BY <1>2 DEF CodesAnnounced, Announced

----------------------------------------------------------------------------
(***************************************************************************)
(* The keyboard implements the stream of keys.  First what the stream does *)
(* with short sequences of codes.                                          *)
(***************************************************************************)
LEMMA Passing ==
  ASSUME NEW before \in Seq(Code), NEW c \in Code, NEW after \in Seq(Code)
  PROVE  LET codes == (before \o <<c>>) \o after
             n     == Len(before) + 1
         IN  /\ n \in Nat \ {0} /\ n <= Len(codes) /\ codes[n] = c
             /\ SubSeq(codes, n + 1, Len(codes)) = after
<1> DEFINE front == before \o <<c>>
           codes == front \o after
           n     == Len(before) + 1
           rest  == SubSeq(codes, n + 1, Len(codes))
<1>1. Len(before) \in Nat /\ Len(after) \in Nat /\ <<c>> \in Seq(Code)
  BY LenProperties
<1>2. front \in Seq(Code) /\ Len(front) = n /\ front[n] = c
  BY <1>1, ConcatProperties
<1> HIDE DEF front
<1>3. /\ codes \in Seq(Code) /\ Len(codes) = n + Len(after)
      /\ \A i \in 1 .. n + Len(after) :
           codes[i] = IF i <= n THEN front[i] ELSE after[i - n]
  <2>1. /\ codes \in Seq(Code) /\ Len(codes) = Len(front) + Len(after)
        /\ \A i \in 1 .. Len(front) + Len(after) :
             codes[i] = IF i <= Len(front) THEN front[i] ELSE after[i - Len(front)]
    BY <1>2, ConcatProperties
  <2> QED
    BY <1>2, <2>1
<1>4. n <= Len(codes) /\ codes[n] = c
  BY <1>1, <1>2, <1>3
<1> HIDE DEF codes
<1>5. /\ rest \in Seq(Code) /\ Len(rest) = Len(after)
      /\ \A i \in 1 .. Len(after) : rest[i] = after[i]
  <2>1. \A i \in n + 1 .. Len(codes) : codes[i] \in Code
    BY <1>1, <1>3, ElementOfSeq
  <2>2. /\ rest \in Seq(Code) /\ Len(rest) = Len(codes) - (n + 1) + 1
        /\ \A i \in 1 .. Len(codes) - (n + 1) + 1 : rest[i] = codes[n + 1 + i - 1]
    BY <1>1, <1>3, <2>1, SubSeqProperties
  <2> QED
    BY <1>1, <1>3, <2>2
<1> HIDE DEF rest
<1>6. rest = after
  BY <1>1, <1>5, SeqEqual
<1> QED
  BY <1>1, <1>4, <1>6 DEF n, rest, codes, front

LEMMA PairConcat ==
  ASSUME NEW s \in Seq(Code), NEW a \in Code, NEW b \in Code
  PROVE  /\ s \o <<a, b>> = (s \o <<a>>) \o <<b>>
         /\ s \o <<a, b>> \in Seq(Code) /\ Len(s \o <<a, b>>) = Len(s) + 2
         /\ s \o <<a>> \in Seq(Code) /\ Len(s \o <<a>>) = Len(s) + 1
<1>1. <<a>> \in Seq(Code) /\ <<b>> \in Seq(Code) /\ <<a, b>> \in Seq(Code)
  OBVIOUS
<1>2. Len(<<a>>) = 1 /\ Len(<<b>>) = 1 /\ Len(<<a, b>>) = 2
  OBVIOUS
<1>3. <<a, b>> = <<a>> \o <<b>>
  <2> DEFINE both == <<a>> \o <<b>>
  <2>1. /\ both \in Seq(Code) /\ Len(both) = 2
        /\ \A i \in 1 .. 2 : both[i] = IF i <= 1 THEN <<a>>[i] ELSE <<b>>[i - 1]
    BY <1>1, <1>2, ConcatProperties
  <2>2. both[1] = a /\ both[2] = b
    BY <2>1
  <2>3. \A i \in 1 .. 2 : both[i] = <<a, b>>[i]
    BY <2>2
  <2> HIDE DEF both
  <2>4. both = <<a, b>>
    BY <1>1, <1>2, <2>1, <2>3, SeqEqual
  <2> QED
    BY <2>4 DEF both
<1> QED
  BY <1>1, <1>2, <1>3, ConcatAssociative, ConcatProperties

\* What an abstract handler of the host does to the backlog and the port.
Passes(codes, taken, answer, port) ==
  \E n \in 0 .. 5 :
    /\ n <= Len((codes \o taken) \o answer)
    /\ Backlog' = SubSeq((codes \o taken) \o answer, n + 1,
                         Len((codes \o taken) \o answer))
    /\ kb'.pa = IF n = 0 THEN port ELSE ((codes \o taken) \o answer)[n]

LEMMA PassesTo ==
  ASSUME NEW codes, NEW taken, NEW answer, NEW port,
         NEW before \in Seq(Code), NEW c \in Code, NEW after \in Seq(Code),
         (codes \o taken) \o answer = (before \o <<c>>) \o after,
         Len(before) <= 4, Backlog' = after, kb'.pa = c
  PROVE  Passes(codes, taken, answer, port)
<1> DEFINE all == (before \o <<c>>) \o after
           n   == Len(before) + 1
<1>1. /\ n \in Nat \ {0} /\ n <= Len(all) /\ all[n] = c
      /\ SubSeq(all, n + 1, Len(all)) = after
  BY Passing
<1>2. n \in 0 .. 5 /\ n # 0
  BY <1>1
<1> HIDE DEF n
<1>3. /\ n <= Len((codes \o taken) \o answer)
      /\ Backlog' = SubSeq((codes \o taken) \o answer, n + 1,
                           Len((codes \o taken) \o answer))
      /\ kb'.pa = IF n = 0 THEN port ELSE ((codes \o taken) \o answer)[n]
  BY <1>1, <1>2
<1> QED
  BY <1>2, <1>3 DEF Passes

\* The four shapes of a handler: the guest finds the old code or the one
\* that waited, a key's make code, or the end of the answer.
LEMMA PassesIdle ==
  ASSUME kb \in Drained, Backlog = Waiting(kb), Backlog' = <<>>,
         kb'.pa = IF kb.wantirq THEN kb.key_waiting ELSE kb.pa
  PROVE  Passes(Backlog, <<>>, <<>>, kb.pa)
<1>1. kb.key_waiting \in Code /\ kb.wantirq \in BOOLEAN
  BY DEF Drained, KeyboardType
<1>2. CASE kb.wantirq
  <2> DEFINE c == kb.key_waiting
  <2>1. /\ <<>> \in Seq(Code) /\ <<c>> \in Seq(Code) /\ Len(<<>>) <= 4
        /\ Backlog = <<c>> /\ kb'.pa = c /\ c \in Code
    BY <1>1, <1>2 DEF Waiting
  <2> HIDE DEF c
  <2>2. (Backlog \o <<>>) \o <<>> = (<<>> \o <<c>>) \o <<>>
    BY <2>1, ConcatEmptySeq
  <2> QED
    BY <2>1, <2>2, PassesTo
<1>3. CASE ~kb.wantirq
  <2>1. (Backlog \o <<>>) \o <<>> = <<>>
    BY <1>3 DEF Waiting
  <2>2. SubSeq(<<>>, 0 + 1, Len(<<>>)) = <<>> /\ 0 <= Len(<<>>)
    OBVIOUS
  <2> QED
    BY <1>3, <2>1, <2>2 DEF Passes
<1> QED
  BY <1>2, <1>3

LEMMA ShortBacklog ==
  ASSUME kb \in Drained, Backlog = Waiting(kb)
  PROVE  Backlog \in Seq(Code) /\ Len(Backlog) \in {0, 1}
  BY DEF Waiting, Drained, KeyboardType

LEMMA PassesKey ==
  ASSUME kb \in Drained, Backlog = Waiting(kb),
         NEW a \in Code, NEW b \in Code, Backlog' = <<b>>, kb'.pa = a
  PROVE  Passes(Backlog, <<a, b>>, <<>>, kb.pa)
<1>1. Backlog \in Seq(Code) /\ Len(Backlog) \in {0, 1} /\ <<b>> \in Seq(Code)
  BY ShortBacklog
<1>2. (Backlog \o <<a, b>>) \o <<>> = (Backlog \o <<a>>) \o <<b>>
  BY <1>1, PairConcat, ConcatEmptySeq
<1>3. Len(Backlog) <= 4
  <2>1. \A n \in {0, 1} : n <= 4
    OBVIOUS
  <2> QED
    BY <1>1, <2>1, Zenon
<1> QED
  BY <1>1, <1>2, <1>3, PassesTo

LEMMA PassesAnswer ==
  ASSUME NEW codes \in Seq(Code), NEW taken, NEW port,
         codes \o taken \in Seq(Code), Len(codes \o taken) \in 0 .. 3,
         NEW a \in Code, NEW b \in Code, Backlog' = <<>>, kb'.pa = b
  PROVE  Passes(codes, taken, <<a, b>>, port)
<1> DEFINE front  == codes \o taken
           before == front \o <<a>>
<1>1. /\ before \in Seq(Code) /\ Len(before) = Len(front) + 1
      /\ front \o <<a, b>> = before \o <<b>>
      /\ before \o <<b>> \in Seq(Code)
  BY PairConcat
<1>2. Len(before) <= 4 /\ <<>> \in Seq(Code)
  BY <1>1
<1>3. front \o <<a, b>> = (before \o <<b>>) \o <<>>
  BY <1>1, ConcatEmptySeq
<1> HIDE DEF before
<1> QED
  BY <1>1, <1>2, <1>3, PassesTo

----------------------------------------------------------------------------
(***************************************************************************)
(* Every step of the keyboard is a step of the stream or a stutter.        *)
(***************************************************************************)
LEMMA HostStep ==
  ASSUME kb \in Drained, HostTypeOK, kb' \in Drained, EndOfBatch
  PROVE  Stream!Host
<1> DEFINE t      == Poll(kb, NextKey)
           answer == <<YMake, Break(YMake)>>
<1>1. Backlog = Waiting(kb) /\ Backlog' = Waiting(kb')
  BY BacklogWaits
<1>2. NextKey \in HostKeys \cup Absent
  BY DEF NextKey, HostTypeOK, Absent
<1>3. t \in Drained
  BY <1>2, PollDrained DEF Absent
<1>4. YMake \in Code /\ Break(YMake) \in Code
  BY DEF YMake, Break, Code
<1>5. Backlog \in Seq(Code) /\ Len(Backlog) \in {0, 1}
  BY <1>1, ShortBacklog
<1>6. key_buffer' = Stream!Remaining
  BY DEF EndOfBatch, Getin, Stream!Remaining
<1>7. NextKey \in Absent => Stream!Taken = <<>>
  <2>1. key_buffer # <<>> => Head(key_buffer) \in HostKeys \cup {Unmapped}
    BY HeadTailProperties DEF HostTypeOK
  <2>2. NoKey \notin HostKeys \cup {Unmapped}
    BY KeyboardAssumption DEF NoKey, Unmapped
  <2> QED
    BY <2>1, <2>2 DEF Stream!Taken, CodesOf, NextKey, Absent
<1>8. NextKey \in HostKeys => Stream!Taken = <<NextKey, Break(NextKey)>>
  <2>1. Unmapped \notin HostKeys /\ NoKey \notin HostKeys
    BY KeyboardAssumption DEF NoKey, Unmapped
  <2> QED
    BY <2>1 DEF Stream!Taken, CodesOf, NextKey
<1>9. \A key \in HostKeys : key \in Code /\ Break(key) \in Code
  BY KeyboardAssumption DEF Break, Code
<1>10. \E a \in {<<>>, answer} : Passes(Backlog, Stream!Taken, a, kb.pa)
  <2>1. CASE kb' = t /\ NextKey \in Absent
    <3>1. /\ kb'.wantirq = FALSE
          /\ kb'.pa = IF kb.wantirq THEN kb.key_waiting ELSE kb.pa
      BY <2>1, PollIdlePort
    <3>2. Backlog' = <<>>
      BY <1>1, <3>1 DEF Waiting
    <3> QED
      BY <1>1, <1>7, <2>1, <3>1, <3>2, PassesIdle
  <2>2. CASE kb' = t /\ NextKey \in HostKeys
    <3>1. /\ kb'.wantirq = TRUE /\ kb'.key_waiting = Break(NextKey)
          /\ kb'.pa = NextKey
      BY <2>2, PollKeyPort
    <3>2. Backlog' = <<Break(NextKey)>>
      BY <1>1, <3>1 DEF Waiting
    <3>3. Passes(Backlog, <<NextKey, Break(NextKey)>>, <<>>, kb.pa)
      BY <1>1, <1>9, <2>2, <3>1, <3>2, PassesKey
    <3> QED
      BY <1>8, <2>2, <3>3
  <2>3. CASE kb' = AnswerPrompt(t)
    <3>1. kb'.wantirq = FALSE /\ kb'.pa = Break(YMake)
      BY <1>3, <2>3, AnswerPort
    <3>2. Backlog' = <<>>
      BY <1>1, <3>1 DEF Waiting
    <3>3. /\ Backlog \o Stream!Taken \in Seq(Code)
          /\ Len(Backlog \o Stream!Taken) \in 0 .. 3
      <4>1. CASE NextKey \in Absent
        BY <1>5, <1>7, <4>1, ConcatEmptySeq
      <4>2. CASE NextKey \in HostKeys
        <5>1. NextKey \in Code /\ Break(NextKey) \in Code
          BY <1>9, <4>2
        <5>2. /\ Backlog \o <<NextKey, Break(NextKey)>> \in Seq(Code)
              /\ Len(Backlog \o <<NextKey, Break(NextKey)>>) = Len(Backlog) + 2
          BY <1>5, <5>1, PairConcat
        <5>3. \A n \in {0, 1} : n + 2 \in 0 .. 3
          OBVIOUS
        <5> QED
          BY <1>5, <1>8, <4>2, <5>2, <5>3
      <4> QED
        BY <1>2, <4>1, <4>2
    <3>4. Passes(Backlog, Stream!Taken, answer, kb.pa)
      BY <1>4, <1>5, <3>1, <3>2, <3>3, PassesAnswer
    <3> QED
      BY <3>4
  <2> QED
    BY <1>2, <2>1, <2>2, <2>3 DEF EndOfBatch
<1> QED
  BY <1>6, <1>10 DEF Stream!Host, Stream!Pass, Passes

LEMMA GuestStep ==
  ASSUME NEW v \in PortBytes, kb \in Drained, kb' \in Drained, Out61(v)
  PROVE  Stream!Acknowledge \/ Stream!Reset \/ UNCHANGED Stream!vars
<1>1. Backlog = Waiting(kb) /\ Backlog' = Waiting(kb')
  BY BacklogWaits
<1>2. key_buffer' = key_buffer /\ WritePortB(v)
  BY DEF Out61, hostVars
<1>3. CASE kb'.wantirq = FALSE /\ kb'.pa \in {SelfTestOk, 0}
  BY <1>1, <1>2, <1>3 DEF Waiting, Stream!Reset
<1>4. CASE /\ kb'.wantirq = FALSE
           /\ kb'.pa = IF kb.wantirq THEN kb.key_waiting ELSE 0
  <2>1. Backlog' = <<>>
    BY <1>1, <1>4 DEF Waiting
  <2>2. kb.key_waiting \in Code /\ kb.wantirq \in BOOLEAN
    BY DEF Drained, KeyboardType
  <2>3. CASE kb.wantirq
    <3>1. Backlog = <<kb.key_waiting>>
      BY <1>1, <2>3 DEF Waiting
    <3>2. 1 <= Len(Backlog) /\ Backlog[1] = kb.key_waiting
      BY <3>1
    <3>3. SubSeq(Backlog, 1 + 1, Len(Backlog)) = <<>>
      BY <3>1, SubSeqEmpty
    <3> QED
      BY <1>2, <1>4, <2>1, <2>3, <3>2, <3>3 DEF Stream!Acknowledge, Stream!Pass
  <2>4. CASE ~kb.wantirq
    <3>1. Backlog = <<>>
      BY <1>1, <2>4 DEF Waiting
    <3>2. 0 <= Len(Backlog) /\ SubSeq(Backlog, 0 + 1, Len(Backlog)) = <<>>
      BY <3>1
    <3> QED
      BY <1>2, <1>4, <2>1, <2>4, <3>2 DEF Stream!Acknowledge, Stream!Pass
  <2> QED
    BY <2>3, <2>4
<1>5. CASE /\ kb'.wantirq = kb.wantirq /\ kb'.pa = kb.pa
           /\ kb'.key_waiting = kb.key_waiting
  BY <1>1, <1>2, <1>5 DEF Waiting, Stream!vars
<1> QED
  BY <1>2, <1>3, <1>4, <1>5, WritePort

LEMMA StreamStep ==
  ASSUME kb \in Drained, HostTypeOK, kb' \in Drained, [Next]_vars
  PROVE  [Stream!Next]_(Stream!vars)
<1>1. Backlog = Waiting(kb) /\ Backlog' = Waiting(kb')
  BY BacklogWaits
<1>2. CASE EndOfBatch
  BY <1>2, HostStep DEF Stream!Next
<1>3. CASE \E v \in PortBytes : Out61(v)
  BY <1>3, GuestStep DEF Stream!Next
<1>4. CASE BiosStores \/ BiosTakes
  <2>1. /\ kb'.pa = kb.pa /\ kb'.wantirq = kb.wantirq
        /\ kb'.key_waiting = kb.key_waiting
    BY <1>4 DEF BiosStores, BiosTakes, Quiet, Drained, KeyboardType
  <2>2. key_buffer' = key_buffer
    BY <1>4 DEF BiosStores, BiosTakes, hostVars
  <2> QED
    BY <1>1, <2>1, <2>2 DEF Waiting, Stream!vars
<1>5. CASE KernalScan
  <2>1. pressed \in DOMAIN CodesOf /\ kb' = kb
    BY <1>5 DEF KernalScan, HostTypeOK, CodesOf
  <2> QED
    BY <1>1, <1>5, <2>1 DEF KernalScan, Stream!Next, Stream!Strike
<1>6. CASE kb' = kb /\ key_buffer' = key_buffer
  BY <1>1, <1>6 DEF Stream!vars
<1> QED
  BY <1>2, <1>3, <1>4, <1>5, <1>6 DEF Next, Press, vars, hostVars

(***************************************************************************)
(* Whatever the size of the ring, the keys and the guest's writes, the     *)
(* keyboard implements the stream of keys: no key that reached the         *)
(* KERNAL's buffer is lost, doubled or overtaken on its way to port 60h,   *)
(* and no handler lets more than five codes pass.                          *)
(***************************************************************************)
THEOREM KeyboardImplementsStream == Spec => InOrder
<1>1. Init => Stream!Init
  <2> SUFFICES ASSUME Init PROVE Stream!Init
    OBVIOUS
  <2>1. kb \in Drained /\ HostTypeOK
    BY InitInv, IInvSplit
  <2>2. Backlog = <<>>
    BY <2>1, BacklogWaits DEF Init, Reset, Waiting
  <2>3. kb.pa = SelfTestOk
    BY DEF Init, Reset
  <2>4. key_buffer \in Seq(DOMAIN CodesOf)
    BY <2>1 DEF HostTypeOK, CodesOf
  <2> QED
    BY <2>2, <2>3, <2>4 DEF Stream!Init
<1>2. IInv /\ IInv' /\ [Next]_vars => [Stream!Next]_(Stream!vars)
  <2> SUFFICES ASSUME IInv, IInv', [Next]_vars
               PROVE  [Stream!Next]_(Stream!vars)
    OBVIOUS
  <2>1. kb \in Drained /\ HostTypeOK /\ kb' \in Drained
    BY IInvSplit DEF IInv, TypeOK, RingDrained, Drained
  <2> QED
    BY <2>1, StreamStep
<1> QED
  BY <1>1, <1>2, InitInv, NextInv, PTL DEF Spec, InOrder, Stream!Spec
=============================================================================
