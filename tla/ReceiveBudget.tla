---------------------------- MODULE ReceiveBudget ----------------------------
(***************************************************************************)
(* The receive budget that all sessions of a client share: admission of    *)
(* sessions, the leases on received frames, the scratch buffers a secure   *)
(* transport keeps for reuse (src/internal/msgr/receive_budget.go,         *)
(* receive_scratch.go), and the order in which a secure read reserves,     *)
(* allocates, trims and hands over (secure.go, transport.go).              *)
(* A session that loses its transport gets another (session.go), while the *)
(* read pump of the old one may still hold a frame.                        *)
(*                                                                         *)
(* Sizes are counted in blocks.  The fixed first record of a frame is one  *)
(* block; a frame whose first segment does not fit in it has more of it,   *)
(* and `rest` blocks of further segments.  The error of a read is not      *)
(* modelled as a frame: the fault it causes may come at any time.          *)
(***************************************************************************)
EXTENDS Naturals, Sequences, FiniteSetsExt

CONSTANTS
    Sessions,      \* sessions that ask for admission
    Generations,   \* per session: bound on its transports
    MaxSessions,   \* ReceiveBudget.maxSessions
    MaxBytes,      \* ReceiveBudget.maxBytes
    Frames,        \* the frames a peer sends: [control, first, rest]
    MinScratch, MaxScratch, Granule,  \* sizes that are kept for reuse, and their rounding
    Slots          \* scratchSlots

VARIABLES
    phase,      \* per session: new, down (without a transport), open, stopping, retired
    generation, \* per session: its transports so far, the last being the current one
    reader,     \* per session and transport: what its read pump is doing
    lease,      \* per session and place: the leases there are
    idle,       \* per session and transport: capacities of the idle scratch buffers
    bytes,      \* ReceiveBudget.bytes
    control,    \* ReceiveBudget.controlBytes
    admitted    \* ReceiveBudget.sessions

vars == <<phase, generation, reader, lease, idle, bytes, control, admitted>>

\* A lease is of a transport, whose number it has; one without is none.
NoLease == [of |-> 0, bytes |-> 0, control |-> 0, extra |-> 0, backing |-> 0]
NoFrame == [control |-> FALSE, first |-> 0, rest |-> 0]
Resting == [pc |-> "idle", frame |-> NoFrame, backing |-> 0]
Ended == [Resting EXCEPT !.pc = "ended"]

\* A frame is with the pump of its transport, in the channel to the owner, with the
\* owner, or with who received the message.
Transports(s) == 1..Generations[s]
Pump(g) == <<"pump", g>>
Channel == <<"channel", 0>>
Owner == <<"owner", 0>>
Held == <<"held", 0>>
Places(s) == {Pump(g) : g \in Transports(s)} \cup {Channel, Owner, Held}
Used(s, p) == lease[s][p].of # 0

\* The transport that the session has now.
Current(s, g) == phase[s] = "open" /\ g = generation[s]

Init ==
    /\ phase = [s \in Sessions |-> "new"]
    /\ generation = [s \in Sessions |-> 0]
    /\ reader = [s \in Sessions |-> [g \in Transports(s) |-> Ended]]
    /\ lease = [s \in Sessions |-> [p \in Places(s) |-> NoLease]]
    /\ idle = [s \in Sessions |-> [g \in Transports(s) |-> <<>>]]
    /\ bytes = 0 /\ control = 0 /\ admitted = 0

\* The whole of an idle list.
Capacity(list) == LET sum[i \in 0..Len(list)] == IF i = 0 THEN 0 ELSE list[i] + sum[i - 1]
                  IN sum[Len(list)]

Admit(s) ==
    /\ phase[s] = "new" /\ admitted < MaxSessions
    /\ admitted' = admitted + 1
    /\ phase' = [phase EXCEPT ![s] = "down"]
    /\ UNCHANGED <<generation, reader, lease, idle, bytes, control>>

\* startTransport, by the owner: the next transport and its read pump.
StartTransport(s) ==
    /\ phase[s] = "down" /\ generation[s] < Generations[s] /\ ~Used(s, Owner)
    /\ phase' = [phase EXCEPT ![s] = "open"]
    /\ generation' = [generation EXCEPT ![s] = @ + 1]
    /\ reader' = [reader EXCEPT ![s][generation'[s]] = Resting]
    /\ UNCHANGED <<lease, idle, bytes, control, admitted>>

(***************************************************************************)
(* A secure read.                                                          *)
(***************************************************************************)

\* reserveReceivePrelude: the first record has its own allowance.
PreludeAllowance == 3 * MaxSessions

PreludeFits == 1 <= PreludeAllowance - control

ReadPrelude(s, g) ==
    /\ Current(s, g) /\ reader[s][g].pc = "idle"
    /\ PreludeFits
    /\ control' = control + 1
    /\ lease' = [lease EXCEPT ![s][Pump(g)] = [NoLease EXCEPT !.of = g, !.control = 1]]
    /\ \E f \in Frames : reader' = [reader EXCEPT ![s][g] = [pc |-> "reserve", frame |-> f,
                                                             backing |-> 0]]
    /\ UNCHANGED <<phase, generation, idle, bytes, admitted>>

\* The allowance is used up, or the transport was closed: the pump ends.
ReadRefused(s, g) ==
    /\ reader[s][g].pc = "idle"
    /\ ~Current(s, g) \/ ~PreludeFits
    /\ reader' = [reader EXCEPT ![s][g] = Ended]
    /\ UNCHANGED <<phase, generation, lease, idle, bytes, control, admitted>>

\* What the frame needs while it is decrypted, and afterwards.
InlineControl(f) == f.control /\ f.first = 0 /\ f.rest = 0
Peak(f) == IF InlineControl(f) THEN 0 ELSE 1 + 2 * f.first + f.rest

Retained(f) == IF InlineControl(f) THEN 0
               ELSE 1 + f.first + f.rest

\* MUTANT of Fits: what the lease has already is not counted.
FitsAfresh(l, n) == n + l.extra <= l.bytes \/ n + l.extra - l.bytes <= MaxBytes

\* receiveLease.resize.
Fits(l, n) == n + l.extra <= l.bytes \/ n + l.extra - l.bytes <= MaxBytes - bytes

Resized(l, n) == [l EXCEPT !.bytes = n + l.extra]

\* reserveReceiveBytes: once more after the idle buffers of the transport are
\* dropped.
Reserve(s, g) ==
    LET l == lease[s][Pump(g)]
        need == Peak(reader[s][g].frame)
    IN
    /\ reader[s][g].pc \in {"reserve", "again"}
    /\ Fits(l, need)
    /\ bytes' = bytes - l.bytes + need
    /\ IF InlineControl(reader[s][g].frame)
       THEN /\ lease' = [lease EXCEPT ![s][Pump(g)] = Resized(l, need)]
            /\ UNCHANGED control
       ELSE /\ lease' = [lease EXCEPT ![s][Pump(g)] = [Resized(l, need) EXCEPT !.control = 0]]
            /\ control' = control - l.control
    /\ reader' = [reader EXCEPT ![s][g].pc = IF reader[s][g].frame.rest = 0 THEN "last"
                                             ELSE "backing"]
    /\ UNCHANGED <<phase, generation, idle, admitted>>

DropIdle(s, g) ==
    /\ reader[s][g].pc = "reserve" /\ ~Fits(lease[s][Pump(g)], Peak(reader[s][g].frame))
    /\ bytes' = bytes - Capacity(idle[s][g])
    /\ idle' = [idle EXCEPT ![s][g] = <<>>]
    /\ reader' = [reader EXCEPT ![s][g].pc = "again"]
    /\ UNCHANGED <<phase, generation, lease, control, admitted>>

\* receiveScratch.get: the buffer on top is taken from the idle ones and its
\* bytes are given back before the lease grows by what the buffer has in excess.
Reusable(n) == MinScratch <= n /\ n <= MaxScratch
Rounded(n) == ((n + Granule - 1) \div Granule) * Granule

TakeIdle(s, g) ==
    LET n == reader[s][g].frame.rest
        list == idle[s][g]
    IN
    /\ reader[s][g].pc = "backing"
    /\ IF ~Reusable(n)
       THEN /\ reader' = [reader EXCEPT ![s][g].pc = "last"]
            /\ UNCHANGED <<idle, bytes>>
       ELSE IF list = <<>>
       THEN /\ reader' = [reader EXCEPT ![s][g].pc = "grow", ![s][g].backing = Rounded(n)]
            /\ UNCHANGED <<idle, bytes>>
       ELSE /\ idle' = [idle EXCEPT ![s][g] = SubSeq(list, 1, Len(list) - 1)]
            /\ bytes' = bytes - list[Len(list)]
            /\ reader' = [reader EXCEPT ![s][g].pc = "grow",
                              ![s][g].backing = IF list[Len(list)] >= n THEN list[Len(list)]
                                                ELSE Rounded(n)]
    /\ UNCHANGED <<phase, generation, lease, control, admitted>>

GrowLease(s, g) ==
    LET l == lease[s][Pump(g)]
        grown == [l EXCEPT !.extra = reader[s][g].backing - reader[s][g].frame.rest]
    IN
    /\ reader[s][g].pc = "grow"
    /\ IF Fits(grown, l.bytes)
       THEN /\ bytes' = bytes + grown.extra
            /\ lease' = [lease EXCEPT ![s][Pump(g)] = [Resized(grown, l.bytes) EXCEPT
                                                     !.backing = reader[s][g].backing]]
       ELSE UNCHANGED <<bytes, lease>>
    /\ reader' = [reader EXCEPT ![s][g].pc = "last", ![s][g].backing = 0]
    /\ UNCHANGED <<phase, generation, idle, control, admitted>>

\* The frame is complete: the lease shrinks to what stays.
ReadDone(s, g) ==
    LET l == lease[s][Pump(g)]
        n == Retained(reader[s][g].frame)
    IN
    /\ reader[s][g].pc = "last"
    /\ Fits(l, n)
    /\ lease' = [lease EXCEPT ![s][Pump(g)] = Resized(l, n)]
    /\ bytes' = bytes - l.bytes + (n + l.extra)
    /\ reader' = [reader EXCEPT ![s][g] = [Resting EXCEPT !.pc = "send"]]
    /\ UNCHANGED <<phase, generation, idle, control, admitted>>

(***************************************************************************)
(* Leases come back: released, or reclaimed with their buffer.             *)
(***************************************************************************)
Release(s, p) ==
    /\ bytes' = bytes - lease[s][p].bytes
    /\ control' = control - lease[s][p].control
    /\ lease' = [lease EXCEPT ![s][p] = NoLease]
    /\ UNCHANGED idle

Kept(s, g) == Current(s, g) /\ Len(idle[s][g]) < Slots

\* receiveScratch.put: the capacity stays accounted for while the buffer idles.
Reclaim(s, p) ==
    LET l == lease[s][p] IN
    IF l.backing # 0 /\ Kept(s, l.of)
    THEN /\ bytes' = bytes - l.bytes + l.backing
         /\ control' = control - l.control
         /\ idle' = [idle EXCEPT ![s][l.of] = Append(@, l.backing)]
         /\ lease' = [lease EXCEPT ![s][p] = NoLease]
    ELSE Release(s, p)

\* A read fails: a reservation is refused, the record does not authenticate, or
\* the connection broke.
ReadFails(s, g) ==
    /\ reader[s][g].pc \in {"reserve", "again", "last"}
    /\ Reclaim(s, Pump(g))
    /\ reader' = [reader EXCEPT ![s][g] = Ended]
    /\ UNCHANGED <<phase, generation, admitted>>

(***************************************************************************)
(* readPump sends the frame to the owner, also when its transport is no    *)
(* longer the current one; the owner handles one frame at a time.          *)
(***************************************************************************)
Move(s, from, to) ==
    /\ Used(s, from) /\ ~Used(s, to)
    /\ lease' = [lease EXCEPT ![s][to] = lease[s][from], ![s][from] = NoLease]
    /\ UNCHANGED <<generation, idle, bytes, control, admitted>>

SendFrame(s, g) ==
    /\ reader[s][g].pc = "send"
    /\ Move(s, Pump(g), Channel)
    /\ reader' = [reader EXCEPT ![s][g] = Resting]
    /\ UNCHANGED phase

ReceiveFrame(s) ==
    /\ phase[s] \in {"down", "open"}
    /\ Move(s, Channel, Owner)
    /\ UNCHANGED <<phase, reader>>

\* A frame of an earlier transport, a control frame or a duplicate is released; a
\* message goes to who waits for it.
HandleFrame(s) ==
    /\ Used(s, Owner)
    /\ \/ Release(s, Owner) /\ UNCHANGED <<phase, generation, reader, admitted>>
       \/ /\ Current(s, lease[s][Owner].of) /\ lease[s][Owner].control = 0
          /\ Move(s, Owner, Held)
          /\ UNCHANGED <<phase, reader>>

\* The owner, or a caller, is done with a message: Submit releases, a borrowed
\* reply is reclaimed, also after its session has stopped.
Done(s) ==
    /\ Used(s, Held)
    /\ Release(s, Held) \/ Reclaim(s, Held)
    /\ UNCHANGED <<phase, generation, reader, admitted>>

\* connTransport.Close waits for the reader; receiveScratch.close.
CloseTransport(s) ==
    /\ phase[s] = "open"
    /\ LET g == generation[s] IN
       /\ reader[s][g].pc \in {"idle", "send", "ended"}
       /\ bytes' = bytes - Capacity(idle[s][g])
       /\ idle' = [idle EXCEPT ![s][g] = <<>>]

\* handleFault, failTerminal: the transport is closed; its pump is not waited for.
Fault(s) ==
    /\ CloseTransport(s)
    /\ phase' = [phase EXCEPT ![s] = "down"]
    /\ UNCHANGED <<generation, reader, lease, control, admitted>>

\* sessionOwner.stop: no frame is taken any more, the pumps are told to end.
Stop(s) ==
    /\ ~Used(s, Owner)
    /\ \/ CloseTransport(s)
       \/ phase[s] = "down" /\ UNCHANGED <<idle, bytes>>
    /\ phase' = [phase EXCEPT ![s] = "stopping"]
    /\ UNCHANGED <<generation, reader, lease, control, admitted>>

PumpStops(s, g) ==
    /\ phase[s] = "stopping" /\ reader[s][g].pc = "send"
    /\ Release(s, Pump(g))
    /\ reader' = [reader EXCEPT ![s][g] = Ended]
    /\ UNCHANGED <<phase, generation, admitted>>

\* The pumps have ended: a frame in the channel is released; replies stay with
\* the callers that hold them.
Retire(s) ==
    /\ phase[s] = "stopping"
    /\ \A g \in Transports(s) : reader[s][g].pc = "ended"
    /\ Release(s, Channel)
    /\ phase' = [phase EXCEPT ![s] = "retired"]
    /\ admitted' = admitted - 1
    /\ UNCHANGED <<generation, reader>>

Next ==
    \E s \in Sessions :
        \/ Admit(s) \/ StartTransport(s) \/ ReceiveFrame(s) \/ HandleFrame(s) \/ Done(s)
        \/ Fault(s) \/ Stop(s) \/ Retire(s)
        \/ \E g \in Transports(s) :
              \/ ReadPrelude(s, g) \/ ReadRefused(s, g) \/ Reserve(s, g) \/ DropIdle(s, g)
              \/ TakeIdle(s, g) \/ GrowLease(s, g) \/ ReadDone(s, g) \/ ReadFails(s, g)
              \/ SendFrame(s, g) \/ PumpStops(s, g)

Spec == Init /\ [][Next]_vars

-----------------------------------------------------------------------------
(***************************************************************************)
(* Properties.                                                             *)
(***************************************************************************)
LeaseBytes(s) == LET of(p) == lease[s][p].bytes IN MapThenSumSet(of, Places(s))
LeaseControl(s) == LET of(p) == lease[s][p].control IN MapThenSumSet(of, Places(s))
IdleBytes(s) == LET of(g) == Capacity(idle[s][g]) IN MapThenSumSet(of, Transports(s))

\* Nothing is counted twice and nothing is forgotten: the counters of the budget
\* are the leases and the idle buffers there are, and within the limits, whatever
\* reads, reuses, refusals, reconnects, closes and late releases are interleaved.
BudgetConserved ==
    /\ bytes = MapThenSumSet(LeaseBytes, Sessions) + MapThenSumSet(IdleBytes, Sessions)
    /\ bytes <= MaxBytes
    /\ control = MapThenSumSet(LeaseControl, Sessions)
    /\ admitted = Cardinality({s \in Sessions : phase[s] \notin {"new", "retired"}})

\* A buffer is never larger than what is reserved for it, so that reclaiming it
\* cannot exceed the budget unchecked.
BackingReserved ==
    \A s \in Sessions : \A p \in Places(s) : lease[s][p].backing <= lease[s][p].bytes

\* A frame whose transport was replaced, in the hands of that transport's pump.
Overtaken(s, g) == g < generation[s] /\ Used(s, Pump(g))

\* The allowance of three first records for each session, for the pump, the channel
\* and the owner, is enough as long as no session has been given a new transport
\* while the pump of an old one waits to send its frame.
AllowanceSuffices ==
    (\A s \in Sessions : \A g \in Transports(s) : ~Overtaken(s, g)) =>
        \A s \in Sessions : \A g \in Transports(s) :
            Current(s, g) /\ reader[s][g].pc = "idle" => PreludeFits

\* A closed transport keeps no buffer, also when a borrowed reply comes back late, and
\* a session that has retired holds nothing but replies.
ClosedKeepsNothing ==
    \A s \in Sessions :
        /\ \A g \in Transports(s) : ~Current(s, g) => idle[s][g] = <<>>
        /\ phase[s] = "retired" => \A p \in Places(s) \ {Held} : ~Used(s, p)
=============================================================================
