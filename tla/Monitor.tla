------------------------------- MODULE Monitor -------------------------------
(***************************************************************************)
(* The scripts that watch the emulated C64 through VICE's binary monitor:  *)
(* tools/capture_fault_dump.py, capture_diag_dump.py, and two debugging    *)
(* aids, debug_binary_monitor2.py ("debug") and debug_binary_monitor.py    *)
(* ("raw").  A script starts VICE, connects, sets a                        *)
(* watchpoint on a store, lets the machine run, and takes a dump when the  *)
(* watchpoint is hit.  Answers and events come down one stream, in pieces; *)
(* a read that times out forgets the pieces it has.  VICE is external.     *)
(***************************************************************************)
EXTENDS Integers, Sequences

CONSTANTS
  Scripts,    \* of "fault", "diag", "debug" and "raw"
  MaxTicks    \* bound: how far the machine runs before -limitcycles ends it

MonitorAssumption == Scripts \subseteq {"fault", "diag", "debug", "raw"} /\ MaxTicks \in Nat
ASSUME MonitorAssumption

VARIABLES
  script,   \* the script that was started
  client,   \* where it is and what it knows
  inbox,    \* commands on their way to VICE
  wire,     \* pieces of messages on their way to the script
  vice,     \* "running", "stopped", "stalled" on its full output, or "gone"
  watch,    \* whether the temporary watchpoint is set
  ticks,    \* how far the machine has run
  hitAt     \* where it was when the watchpoint stopped it, in a set

vars == <<script, client, inbox, wire, vice, watch, ticks, hitAt>>

----------------------------------------------------------------------------
(***************************************************************************)
(* The scripts, step by step.                                              *)
(***************************************************************************)
Do(what)        == [do |-> what]
Send(type)      == [do |-> "send", type |-> type]
Await(type)     == [do |-> "await", type |-> type]
Drain(count)    == [do |-> "drain", count |-> count]

\* (Variant: the machine is resumed before the watchpoint's answer is read.)
FaultProgramResumesFirst ==
  <<Do("connect"), Send("ping"), Drain(5), Send("set"), Send("exit"), Drain(5), Do("wait"),
    Send("mem"), Await("mem"), Do("save"), Send("quit")>>
FaultProgram ==
  <<Do("connect"), Send("ping"), Drain(5), Send("set"), Await("checkpoint"), Send("exit"),
    Do("wait"), Send("mem"), Await("mem"), Do("save"), Send("quit")>>
DiagProgram ==
  <<Do("connect"), Send("ping"), Drain(5), Send("set"), Await("checkpoint"), Send("exit"),
    Do("wait"), Do("resume"), Send("mem"), Await("mem"), Do("save"), Send("quit")>>
DebugProgram ==
  <<Do("connect"), Send("ping"), Drain(5), Send("set"), Drain(5), Send("exit"), Drain(5),
    Drain(10)>>
RawProgram == <<Do("connect"), Do("recv"), Send("ping"), Do("recv")>>

Program ==
  [fault |-> FaultProgram, diag |-> DiagProgram, debug |-> DebugProgram, raw |-> RawProgram]

NoStep == Do("nothing")
StepAt == IF client.status = "going" /\ client.at <= Len(Program[script])
            THEN Program[script][client.at] ELSE NoStep
Reading == StepAt.do \in {"await", "drain", "wait"}

\* Only this one looks at the magic number of a header.
ChecksMagic == script = "fault"
\* Whether VICE is waited for and killed even when the script fails.
\* (Variant: the dump of the diagnostics leaves VICE to itself.)
CleansUpOnlyFault == script = "fault"
CleansUp == script \in {"fault", "diag"}

Passed(c) == [c EXCEPT !.at = @ + 1, !.reads = 0, !.held = 0]
Raised(c) == [c EXCEPT !.status = "raised"]

----------------------------------------------------------------------------
(***************************************************************************)
(* Messages.  Part 1 and part 2 are the header, part 3 the body: the       *)
(* answers to "ping" and "exit" have none.  Events carry no request's id.  *)
(***************************************************************************)
NoId == 0
NoVersion == -1
Message(type, id, hit, version) == [type |-> type, id |-> id, hit |-> hit, version |-> version]
Answer(type, id) == Message(type, id, FALSE, NoVersion)
Told(type) == Answer(type, NoId)
Noise == Told("noise")

LastPart(m) == IF m.type \in {"ping", "exit"} THEN 2 ELSE 3
Parts(m) == [i \in 1 .. LastPart(m) |-> [part |-> i, m |-> m]]
Stopping == Parts(Told("registers")) \o Parts(Told("stopped"))

----------------------------------------------------------------------------
\* Sending: the id is the clock's, and two commands may share one.
Sent(type, c) ==
  /\ inbox' = Append(inbox, [type |-> type, id |-> c.clock])
  /\ client' = [Passed(c) EXCEPT !.id = c.clock,
                                 !.asked = IF type = "mem" THEN ticks ELSE @]

SendCommand ==
  /\ StepAt.do = "send"
  /\ \E later \in {0, 1} : Sent(StepAt.type, [client EXCEPT !.clock = @ + later])
  /\ UNCHANGED <<script, wire, vice, watch, ticks, hitAt>>

\* capture_diag_dump lets the machine run on after a hit.
ResumeAfterHit ==
  /\ StepAt.do = "resume"
  /\ IF client.hit
       THEN \E later \in {0, 1} : Sent("exit", [client EXCEPT !.clock = @ + later])
       ELSE client' = Passed(client) /\ UNCHANGED inbox
  /\ UNCHANGED <<script, wire, vice, watch, ticks, hitAt>>

\* sendall, when VICE is gone: an error, unless the buffer still takes it.
SendFails ==
  /\ vice = "gone"
  /\ StepAt.do = "send" \/ (StepAt.do = "resume" /\ client.hit)
  /\ client' = Raised(client)
  /\ UNCHANGED <<script, inbox, wire, vice, watch, ticks, hitAt>>

Connect ==
  /\ StepAt.do = "connect"
  /\ client' \in {Passed(client), Raised(client)}
  /\ UNCHANGED <<script, inbox, wire, vice, watch, ticks, hitAt>>

Save ==
  /\ StepAt.do = "save"
  /\ client' = [Passed(client) EXCEPT !.saved = TRUE, !.file = client.body]
  /\ UNCHANGED <<script, inbox, wire, vice, watch, ticks, hitAt>>

----------------------------------------------------------------------------
\* (Variant: an answer is known by its id alone.)
MatchesById(m) == m.id = client.id
Matches(m) == m.type = StepAt.type /\ m.id = client.id

\* (Variant: any event is taken for the hit.)
IsAnyEvent(m) == m.id = NoId
IsHit(m) == m.type = "checkpoint" /\ m.hit

\* What the step in hand makes of a message, and of a hit among others.
Handled(m) ==
  LET c == [client EXCEPT !.held = 0, !.reads = @ + 1, !.hit = @ \/ IsHit(m)]
  IN  IF StepAt.do = "drain"
        THEN IF c.reads = StepAt.count THEN Passed(c) ELSE c
      ELSE IF StepAt.do = "await" /\ Matches(m)
        THEN [Passed(client) EXCEPT !.body = m.version]
      ELSE IF StepAt.do = "wait" /\ IsHit(m)
        THEN Passed([client EXCEPT !.hit = TRUE])
      ELSE [client EXCEPT !.held = 0]

Aligned == wire # <<>> /\ Head(wire).part = client.held + 1

\* read_response, one recv at a time.
Receive ==
  /\ Reading /\ Aligned
  /\ LET piece == Head(wire)
     IN  client' = IF piece.part < LastPart(piece.m) THEN [client EXCEPT !.held = piece.part]
                   ELSE Handled(piece.m)
  /\ wire' = Tail(wire)
  /\ UNCHANGED <<script, inbox, vice, watch, ticks, hitAt>>

\* A header that begins inside a message: found out, or taken at its word.
Misread ==
  /\ Reading /\ wire # <<>> /\ ~Aligned
  /\ IF ChecksMagic
       THEN client' = Raised(client) /\ UNCHANGED wire
       ELSE \E n \in 1 .. Len(wire), hit \in BOOLEAN :
              /\ client' = [Handled(IF hit THEN Message("checkpoint", NoId, TRUE, NoVersion)
                                           ELSE Noise) EXCEPT !.lost = TRUE]
              /\ wire' = SubSeq(wire, n + 1, Len(wire))
  /\ UNCHANGED <<script, inbox, vice, watch, ticks, hitAt>>

\* (Variant: a drain that times out tries again.)
TimeOutDrainsOn ==
  /\ Reading
  /\ client' = IF StepAt.do = "drain" THEN [client EXCEPT !.held = 0] ELSE Raised(client)
  /\ UNCHANGED <<script, inbox, wire, vice, watch, ticks, hitAt>>

\* A read times out, the pieces it held are gone: a drain ends there, as
\* the last step of the debug script does; anything else fails.
TimeOut ==
  /\ Reading
  /\ client' = IF StepAt.do = "drain" THEN Passed(client) ELSE Raised(client)
  /\ UNCHANGED <<script, inbox, wire, vice, watch, ticks, hitAt>>

\* A plain recv: what there is, or nothing after a while.
ReceiveRaw ==
  /\ StepAt.do = "recv" /\ (wire # <<>> \/ vice # "gone")
  /\ \E n \in 0 .. Len(wire) : wire' = SubSeq(wire, n + 1, Len(wire))
  /\ client' = Passed(client)
  /\ UNCHANGED <<script, inbox, vice, watch, ticks, hitAt>>

\* The time for all the reads is over when a message has been dealt with.
Expire ==
  /\ StepAt.do \in {"await", "wait"} /\ client.held = 0
  /\ client' = IF script = "diag" /\ StepAt.do = "wait" THEN Passed(client)
                                                        ELSE Raised(client)
  /\ UNCHANGED <<script, inbox, wire, vice, watch, ticks, hitAt>>

\* A closed connection reads as nothing: an error, but not to a plain recv.
ConnectionClosed ==
  /\ (Reading \/ StepAt.do = "recv") /\ wire = <<>> /\ vice = "gone"
  /\ client' = IF Reading THEN Raised(client) ELSE Passed(client)
  /\ UNCHANGED <<script, inbox, wire, vice, watch, ticks, hitAt>>

\* finally, or the last lines of a script that has none.
CleanUp ==
  /\ \/ client.status = "raised"
     \/ client.status = "going" /\ client.at > Len(Program[script])
  /\ client' = [client EXCEPT !.status = "ended", !.failed = client.status = "raised"]
  /\ vice' = IF client.status = "raised" /\ ~CleansUp THEN vice ELSE "gone"
  /\ UNCHANGED <<script, inbox, wire, watch, ticks, hitAt>>

Client == SendCommand \/ ResumeAfterHit \/ SendFails \/ Connect \/ Save \/ Receive \/ Misread
            \/ TimeOut \/ ReceiveRaw \/ Expire \/ ConnectionClosed \/ CleanUp

----------------------------------------------------------------------------
(***************************************************************************)
(* VICE: a command stops the machine, and is answered in its turn.         *)
(***************************************************************************)
Answers(c) ==
  IF c.type = "quit" THEN <<>>
  ELSE Parts(Message(IF c.type = "set" THEN "checkpoint" ELSE c.type, c.id, FALSE,
                     IF c.type = "mem" THEN ticks ELSE NoVersion))
         \o (IF c.type = "exit" THEN Parts(Told("resumed")) ELSE <<>>)

Obey ==
  /\ inbox # <<>> /\ vice \in {"running", "stopped"}
  /\ LET c == Head(inbox)
     IN  /\ wire' = wire \o (IF vice = "running" THEN Stopping ELSE <<>>) \o Answers(c)
         /\ vice' = IF c.type = "exit" THEN "running"
                    ELSE IF c.type = "quit" THEN "gone" ELSE "stopped"
         /\ watch' = (watch \/ c.type = "set")
  /\ inbox' = Tail(inbox)
  /\ UNCHANGED <<script, client, ticks, hitAt>>

\* The machine runs on, and may store where the watchpoint is.
Run ==
  /\ vice = "running" /\ ticks < MaxTicks
  /\ ticks' = ticks + 1
  /\ \E stores \in BOOLEAN :
       IF stores /\ watch
         THEN /\ watch' = FALSE /\ vice' = "stopped" /\ hitAt' = {ticks'}
              /\ wire' = wire \o Parts(Message("checkpoint", NoId, TRUE, NoVersion)) \o Stopping
         ELSE UNCHANGED <<watch, vice, hitAt, wire>>
  /\ UNCHANGED <<script, client, inbox>>

\* The cycles are used up; or nobody reads the output and the pipe is full.
Leave ==
  /\ \/ vice = "running" /\ ticks = MaxTicks /\ vice' = "gone"
     \/ vice = "running" /\ vice' = "stalled"
  /\ UNCHANGED <<script, client, inbox, wire, watch, ticks, hitAt>>

Over == client.status = "ended" /\ UNCHANGED vars

Init ==
  /\ script \in Scripts
  /\ client = [at |-> 1, status |-> "going", failed |-> FALSE, held |-> 0, reads |-> 0,
               clock |-> 1, id |-> NoId, hit |-> FALSE, lost |-> FALSE, asked |-> 0,
               body |-> NoVersion, saved |-> FALSE, file |-> NoVersion]
  /\ inbox = <<>> /\ wire = <<>>
  /\ vice = "running" /\ watch = FALSE /\ ticks = 0 /\ hitAt = {}

Next == Client \/ Obey \/ Run \/ Leave \/ Over

\* A script goes on: every read of its comes back, with data or without.
Spec == Init /\ [][Next]_vars /\ WF_vars(Client)

----------------------------------------------------------------------------
\* Type invariant.
TypeOK ==
  /\ script \in Scripts
  /\ client.at \in 1 .. Len(Program[script]) + 1
  /\ client.status \in {"going", "raised", "ended"}
  /\ client.held \in 0 .. 2 /\ (StepAt.do = "drain" => client.reads < StepAt.count)
  /\ \A i \in 1 .. Len(wire) : wire[i].part \in 1 .. LastPart(wire[i].m)
  /\ vice \in {"running", "stopped", "stalled", "gone"}
  /\ watch \in BOOLEAN /\ ticks \in 0 .. MaxTicks /\ hitAt \subseteq 0 .. MaxTicks

\* The fault dump is the machine at the store: from the store that hit the
\* watchpoint to the answer of the memory request the machine did not move,
\* whatever came late, in pieces or under a shared id before it
\* (capture_fault_dump's wait_for_hit, then mem_get).
FaultDumpExact ==
  script = "fault" /\ client.saved => hitAt = {client.file}

\* A dump that is saved answers the script's own memory request: it is the
\* memory of a machine that was asked, never the body of another message
\* (drain_until), even where ids collide and headers are misread.
DumpAnswersRequest == client.saved => client.file >= client.asked

\* A hit is never read over: while a script waits for the hit with the
\* stream in order, a hit that happened is still on its way to it (the
\* order in which main sets the watchpoint, reads its answer and resumes).
HitNotReadOver ==
  StepAt.do = "wait" /\ ~client.lost /\ hitAt # {} =>
    \E i \in 1 .. Len(wire) : IsHit(wire[i].m)

\* No VICE is left behind on the monitor's port, for the next script to
\* connect to, but by a debug script that failed.
NoOrphan ==
  client.status = "ended" /\ vice # "gone" =>
    script \in {"debug", "raw"} /\ client.failed

\* Every script ends, also when VICE stalls or goes before it.
Ends == <>(client.status = "ended")
=============================================================================
