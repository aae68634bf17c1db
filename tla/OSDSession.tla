----------------------------- MODULE OSDSession -----------------------------
(***************************************************************************)
(* The session of one OSD (internal/objecter/osd_session.go): requests are *)
(* held back while the OSD has blocked a range of objects that holds their *)
(* target, sent again when the range is unblocked, and every block is      *)
(* acknowledged on the transport it came from.                             *)
(*                                                                         *)
(* Three kinds of goroutines share the state: callers of SubmitTarget,     *)
(* receive, and sendACKs.  Each step is what one of them does under its    *)
(* lock (session.mu, ackMu).  Below them is a messenger session on a lossy *)
(* connection, as OSDs give to clients, of which module Session is the     *)
(* detailed model: a fault raises its control generation, drops what it    *)
(* has not delivered or not (by its configuration), fails what was sent,   *)
(* signals a reset, reconnects.                                            *)
(* Its answers to requests do not pass through Incoming and so may         *)
(* overtake the messages that do.                                          *)
(***************************************************************************)
EXTENDS Integers, Sequences, FiniteSets

CONSTANTS
  Callers,         \* calls of SubmitTarget
  Objects,         \* targets; PG says which placement group one is in
  Ranges,          \* sets of objects of one group that the OSD may block
  BackoffIDs,      \* ids the OSD gives to its backoffs
  MaxBackoffs,     \* osdSession.maxBackoffs
  MaxAcks,         \* the constant msgr.MaxControlMessages
  MaxGeneration,   \* bound: how many transports there are
  MaxBlocks        \* bound: how often the OSD blocks a range

ASSUME BackoffAssumption ==
  /\ Objects \subseteq Nat
  /\ Ranges \subseteq SUBSET Objects
  /\ {MaxBackoffs, MaxAcks, MaxGeneration, MaxBlocks} \subseteq Nat

VARIABLES
  session,   \* the fields of osdSession
  caller,    \* the calls and their targetSubmission
  raw,       \* the messenger session
  osd        \* the OSD at the other end of the current transport

vars == <<session, caller, raw, osd>>

PG(object) == object \div 10

NoAck == [id |-> 0, generation |-> 0, transport |-> 0, canceled |-> FALSE]

\* A call that has not begun or has returned.
Away(pc) == [pc |-> pc, object |-> 0, resend |-> FALSE, canceled |-> FALSE]

Init ==
  /\ session = [backoffs |-> {}, err |-> "none", receive |-> "running", received |-> <<>>,
                ackGeneration |-> 1, ackQueue |-> <<>>, ackActive |-> NoAck, ackCount |-> 0,
                ackFailed |-> <<>>, ackResults |-> <<>>, sendACKs |-> "running",
                stopped |-> FALSE]
  /\ caller = [c \in Callers |-> Away("idle")]
  /\ raw = [state |-> "open", generation |-> 1, reset |-> FALSE, incoming |-> <<>>,
            request |-> [c \in Callers |-> "none"]]
  /\ osd = [blocks |-> {}, sent |-> 0]

-----------------------------------------------------------------------------
(***************************************************************************)
(* The methods of osdSession, from a session to the session they leave.    *)
(***************************************************************************)

Blocked(s, object) == \E b \in s.backoffs : object \in b.objects

\* wakeBackoffPG for some groups.
Woken(pgs) ==
  [c \in Callers |-> IF caller[c].pc = "blocked" /\ PG(caller[c].object) \in pgs
                     THEN [caller[c] EXCEPT !.pc = "woken"] ELSE caller[c]]

AllPGs == {PG(object) : object \in Objects}

\* The first error stays.  Errors are told apart where an acknowledgment had none of
\* its own: it was cancelled, or its transport was gone.
Fail(s, err) == [s EXCEPT !.err = IF @ = "none" THEN err ELSE @, !.receive = "stopping"]

WithID(s, id) == {b \in s.backoffs : b.id = id}

\* A message is the backoff it carries and the transport it came from.
AddBackoff(s, message) ==
  IF WithID(s, message.id) = {} /\ Cardinality(s.backoffs) >= MaxBackoffs
  THEN Fail(s, "failed")
  ELSE [s EXCEPT !.backoffs = (@ \ WithID(s, message.id)) \cup {message}]

EnqueueACK(s, message) ==
  IF s.err # "none" THEN s
  ELSE IF s.ackCount >= MaxAcks THEN Fail(s, "failed")
  ELSE [s EXCEPT !.ackCount = @ + 1,
                 !.ackQueue = Append(@, [id |-> message.id, generation |-> s.ackGeneration,
                                         transport |-> message.generation, canceled |-> FALSE])]

\* Mutant: the acknowledgment under way is counted out here and by sendACKs.
ResetAllACKs(s, generation) ==
  [s EXCEPT !.ackGeneration = generation, !.ackQueue = <<>>, !.ackCount = 0,
            !.ackActive.canceled = s.ackActive # NoAck]

ResetACKs(s, generation) ==
  [s EXCEPT !.ackGeneration = generation, !.ackQueue = <<>>,
            !.ackCount = @ - Len(s.ackQueue),
            !.ackActive.canceled = s.ackActive # NoAck]

\* What belongs to a transport that is gone is dropped.
Reconcile(s) ==
  IF raw.generation = s.ackGeneration THEN s
  ELSE [ResetACKs(s, raw.generation) EXCEPT !.backoffs = {}]

\* The groups that Reconcile wakes, and those that a failed session wakes.
Reconciled == IF raw.generation = session.ackGeneration THEN {} ELSE AllPGs

Failed(s) == IF s.err # "none" THEN AllPGs ELSE {}

-----------------------------------------------------------------------------
(***************************************************************************)
(* submitTarget.                                                           *)
(***************************************************************************)

SubmitTarget(c) ==
  /\ caller[c].pc = "idle"
  /\ \E object \in Objects :
       caller' = [caller EXCEPT ![c].pc = "checking", ![c].object = object]
  /\ UNCHANGED <<session, raw, osd>>

\* The messenger refuses a request of a call that is cancelled, when it has ended,
\* and when it holds too much.
Admissions(c) ==
  IF caller[c].canceled \/ raw.state # "open" THEN {"failed"} ELSE {"failed", "queued"}

\* The lock is held from the check until the messenger has admitted the request,
\* so that no backoff comes in between.
Submit(c) ==
  /\ caller[c].pc \in {"checking", "woken"}
  /\ IF session.err # "none"
     THEN /\ caller' = [caller EXCEPT ![c] = Away("returned")]
          /\ UNCHANGED raw
     ELSE IF Blocked(session, caller[c].object)
     THEN /\ caller' = [caller EXCEPT ![c].pc = "blocked"]
          /\ UNCHANGED raw
     ELSE /\ caller' = [caller EXCEPT ![c].pc = "submitted"]
          /\ \E outcome \in Admissions(c) : raw' = [raw EXCEPT !.request[c] = outcome]
  /\ UNCHANGED <<session, osd>>

\* Mutant: a request that was sent again is taken for one to be sent again.
FinishSubmitAgain(c) ==
  /\ caller[c].pc = "submitted"
  /\ raw.request[c] \in {"replied", "failed", "unknown"}
  /\ caller' = [caller EXCEPT ![c] = IF caller[c].resend /\ ~caller[c].canceled
                                     THEN [@ EXCEPT !.pc = "checking"]
                                     ELSE Away("returned")]
  /\ raw' = [raw EXCEPT !.request[c] = "none"]
  /\ UNCHANGED <<session, osd>>

\* The request has left the messenger.  An unblocked one goes round again, even if
\* its answer came first.
FinishSubmit(c) ==
  /\ caller[c].pc = "submitted"
  /\ raw.request[c] \in {"replied", "failed", "unknown"}
  /\ caller' = [caller EXCEPT ![c] = IF caller[c].resend /\ ~caller[c].canceled
                                     THEN [@ EXCEPT !.pc = "checking", !.resend = FALSE]
                                     ELSE Away("returned")]
  /\ raw' = [raw EXCEPT !.request[c] = "none"]
  /\ UNCHANGED <<session, osd>>

ContextDone(c) ==
  /\ ~caller[c].canceled
  /\ caller[c].pc \in {"checking", "blocked", "woken", "submitted"}
  /\ caller' = [caller EXCEPT ![c].canceled = TRUE]
  /\ UNCHANGED <<session, raw, osd>>

\* The select of waitBackoff takes the context or the end of the messenger.
EndWait(c) ==
  /\ caller[c].pc \in {"blocked", "woken"}
  /\ caller[c].canceled \/ raw.state = "done"
  /\ caller' = [caller EXCEPT ![c] = Away("returned")]
  /\ UNCHANGED <<session, raw, osd>>

\* Stop cancels the acknowledgments first, then stops the messenger: see RawEnds.
Stop ==
  /\ ~session.stopped
  /\ session' = [session EXCEPT !.stopped = TRUE]
  /\ UNCHANGED <<caller, raw, osd>>

-----------------------------------------------------------------------------
(***************************************************************************)
(* receive.                                                                *)
(***************************************************************************)

Selecting == session.receive = "running" /\ session.received = <<>>

TakeIncoming ==
  /\ Selecting
  /\ raw.incoming # <<>>
  /\ session' = [session EXCEPT !.received = <<Head(raw.incoming)>>]
  /\ raw' = [raw EXCEPT !.incoming = Tail(@)]
  /\ UNCHANGED <<caller, osd>>

\* Mutant: an unblocked range wakes those who wait and forgets what the OSD dropped.
ResendNothing(unblocked, woken) == woken

\* Requests in the unblocked range that the messenger holds are sent again.
Resend(unblocked, woken) ==
  [c \in Callers |->
     IF woken[c].pc = "submitted" /\ \E b \in unblocked : woken[c].object \in b.objects
     THEN [woken[c] EXCEPT !.resend = TRUE] ELSE woken[c]]

HandleBlock(s, message) ==
  LET blocked == EnqueueACK(AddBackoff(s, message), message)
  IN  /\ session' = blocked
      /\ caller' = Woken(Reconciled \cup Failed(blocked) \cup {PG(object) : object \in message.objects})

HandleUnblock(s, message) ==
  LET unblocked == WithID(s, message.id)
  IN  /\ session' = [s EXCEPT !.backoffs = @ \ unblocked]
      /\ caller' = Resend(unblocked, Woken(Reconciled \cup
                     UNION {{PG(object) : object \in b.objects} : b \in unblocked}))

\* The generation is read twice, without the lock and with it; a message of a
\* transport that is gone is dropped.
HandleIncoming ==
  /\ session.receive = "running"
  /\ session.received # <<>>
  /\ LET message == Head(session.received)
         taken == [session EXCEPT !.received = <<>>]
     IN  \/ /\ message.kind = "map"
            /\ session' = Fail(taken, "failed")
            /\ caller' = Woken(AllPGs)
         \/ /\ message.kind = "notify"   \* for a watch; it must decode, and find room
            /\ \/ session' = taken /\ UNCHANGED caller
               \/ session' = Fail(taken, "failed") /\ caller' = Woken(AllPGs)
         \/ /\ message.kind \in {"block", "unblock"}
            /\ message.generation # raw.generation
            /\ \/ session' = taken /\ UNCHANGED caller
               \/ session' = Reconcile(taken) /\ caller' = Woken(Reconciled)
         \/ /\ message.kind = "block"
            /\ message.generation = raw.generation
            /\ HandleBlock(Reconcile(taken), message)
         \/ /\ message.kind = "unblock"
            /\ message.generation = raw.generation
            /\ HandleUnblock(Reconcile(taken), message)
  /\ UNCHANGED <<raw, osd>>

TakeReset ==
  /\ Selecting
  /\ raw.reset
  /\ raw' = [raw EXCEPT !.reset = FALSE]
  /\ session' = Reconcile(session)
  /\ caller' = Woken(Reconciled)
  /\ UNCHANGED osd

AckIsCurrent(s, result) ==
  result.generation = s.ackGeneration /\ result.transport = raw.generation

\* A failed acknowledgment ends the session, unless its transport is gone.
TakeAckResult ==
  /\ Selecting
  /\ session.ackResults # <<>>
  /\ LET result == Head(session.ackResults)
         reset == [Reconcile(session) EXCEPT !.ackResults = <<>>]
         next == IF AckIsCurrent(reset, result) THEN Fail(reset, result.err) ELSE reset
     IN  /\ session' = next
         /\ caller' = Woken(Reconciled \cup Failed(next))
  /\ raw' = [raw EXCEPT !.reset = FALSE]
  /\ UNCHANGED osd

\* Terminal and Done
TakeTerminal ==
  /\ Selecting
  /\ raw.state # "open"
  /\ session' = Fail(session, "failed")
  /\ caller' = Woken(AllPGs)
  /\ UNCHANGED <<raw, osd>>

Settled(request) ==
  IF request = "queued" THEN "failed"
  ELSE IF request \in {"sent", "dropped"} THEN "unknown" ELSE request

\* The messenger session after failTerminal or Stop.
Ended(state, incoming) ==
  [raw EXCEPT !.state = state, !.generation = @ + 1, !.incoming = incoming,
              !.request = [c \in Callers |-> Settled(raw.request[c])]]

\* raw.Stop, and the deferred cancellation of the acknowledgments.  What is left in
\* the channels has no reader any more.
StopReceive ==
  /\ session.receive = "stopping"
  /\ raw' = IF raw.state = "done" THEN [raw EXCEPT !.incoming = <<>>, !.reset = FALSE]
            ELSE [Ended("done", <<>>) EXCEPT !.reset = FALSE]
  /\ session' = [ResetACKs(session, session.ackGeneration + 1) EXCEPT
                   !.receive = "closing", !.ackResults = <<>>]
  /\ osd' = [osd EXCEPT !.blocks = {}]
  /\ UNCHANGED caller

EndReceive ==
  /\ session.receive = "closing"
  /\ session.sendACKs = "done"
  /\ session' = [session EXCEPT !.receive = "done", !.backoffs = {}]
  /\ UNCHANGED <<caller, raw, osd>>

-----------------------------------------------------------------------------
(***************************************************************************)
(* sendACKs.                                                               *)
(***************************************************************************)

\* ackCtx is done.
AcksCanceled == session.stopped \/ session.receive \in {"closing", "done"}

TakeAck ==
  /\ session.sendACKs = "running"
  /\ session.ackActive = NoAck /\ session.ackFailed = <<>>
  /\ session.ackQueue # <<>> /\ ~AcksCanceled
  /\ session' = [session EXCEPT !.ackActive = Head(session.ackQueue), !.ackQueue = Tail(@)]
  /\ UNCHANGED <<caller, raw, osd>>

\* What SendControlGeneration may answer: see DefiniteFailures of module Session.
AckOutcomes(ack) ==
  IF ack.canceled \/ AcksCanceled THEN {"canceled"}
  ELSE IF raw.state # "open" THEN {"failed"}
  ELSE IF ack.transport # raw.generation THEN {"invalidated"}
  ELSE {"ok", "failed"}

FinishAck(outcome) ==
  /\ session.ackActive # NoAck
  /\ outcome \in AckOutcomes(session.ackActive)
  /\ LET ack == session.ackActive
     IN  session' = [session EXCEPT !.ackActive = NoAck, !.ackCount = @ - 1,
           !.ackFailed = IF outcome # "ok" /\ ack.generation = session.ackGeneration
                         THEN <<[err |-> outcome, generation |-> ack.generation,
                                 transport |-> ack.transport]>>
                         ELSE <<>>]
  /\ UNCHANGED <<caller, raw, osd>>

\* ackResults holds one result.
ReportAck ==
  /\ session.ackFailed # <<>>
  /\ session.ackResults = <<>>
  /\ session' = [session EXCEPT !.ackResults = session.ackFailed, !.ackFailed = <<>>]
  /\ UNCHANGED <<caller, raw, osd>>

StopAcks ==
  /\ session.sendACKs = "running"
  /\ session.ackActive = NoAck
  /\ AcksCanceled \/ raw.state = "done"
  /\ session' = [session EXCEPT !.sendACKs = "done", !.ackFailed = <<>>]
  /\ UNCHANGED <<caller, raw, osd>>

-----------------------------------------------------------------------------
(***************************************************************************)
(* The messenger session and the OSD.                                      *)
(***************************************************************************)

RawSend(c) ==
  /\ raw.request[c] = "queued"
  /\ raw' = [raw EXCEPT !.request[c] = "sent"]
  /\ UNCHANGED <<session, caller, osd>>

\* The context of the attempt is done, or the submission is to be sent again.
RawCancel(c) ==
  /\ caller[c].canceled \/ caller[c].resend
  /\ raw.request[c] \in {"queued", "sent", "dropped"}
  /\ raw' = [raw EXCEPT !.request[c] = Settled(@)]
  /\ UNCHANGED <<session, caller, osd>>

\* The connection breaks and what was sent fails.  What was not fails too when the OSD
\* had called the connection lossy (resetForNewIdentity), and is kept before it could.
TransportFault ==
  /\ raw.state = "open"
  /\ raw.generation < MaxGeneration
  /\ \E incoming \in {raw.incoming, <<>>}, unsent \in {"queued", Settled("queued")} :
       raw' = [raw EXCEPT !.generation = @ + 1, !.reset = TRUE, !.incoming = incoming,
                 !.request = [c \in Callers |-> IF raw.request[c] = "queued" THEN unsent
                                                ELSE Settled(raw.request[c])]]
  /\ osd' = [osd EXCEPT !.blocks = {}]
  /\ UNCHANGED <<session, caller>>

\* The messenger gives up (failTerminal), or has been stopped by Stop.
RawEnds(state) ==
  /\ raw.state \notin {state, "done"}
  /\ state = "done" => session.stopped
  /\ \E incoming \in {raw.incoming, <<>>} : raw' = Ended(state, incoming)
  /\ osd' = [osd EXCEPT !.blocks = {}]
  /\ UNCHANGED <<session, caller>>

\* The OSD drops what falls into a range it has blocked, and expects to get it again
\* when it unblocks the range.
OSDReceive(c) ==
  /\ raw.request[c] = "sent"
  /\ raw' = [raw EXCEPT !.request[c] =
               IF \E b \in osd.blocks : caller[c].object \in b.objects THEN "dropped" ELSE "replied"]
  /\ UNCHANGED <<session, caller, osd>>

OSDBlock(id, objects) ==
  /\ raw.state = "open"
  /\ osd.sent < MaxBlocks
  /\ id \notin {b.id : b \in osd.blocks}
  /\ LET block == [kind |-> "block", id |-> id, objects |-> objects, generation |-> raw.generation]
     IN  /\ osd' = [osd EXCEPT !.blocks = @ \cup {block}, !.sent = @ + 1]
         /\ raw' = [raw EXCEPT !.incoming = Append(@, block)]
  /\ UNCHANGED <<session, caller>>

OSDUnblock(b) ==
  /\ b \in osd.blocks
  /\ raw.state = "open"
  /\ osd' = [osd EXCEPT !.blocks = @ \ {b}]
  /\ raw' = [raw EXCEPT !.incoming = Append(@, [b EXCEPT !.kind = "unblock"])]
  /\ UNCHANGED <<session, caller>>

\* The OSD shares a newer map, which ends the session, or notifies a watch.
OSDSends(kind) ==
  /\ raw.state = "open"
  /\ raw.incoming = <<>>
  /\ raw' = [raw EXCEPT !.incoming =
               <<[kind |-> kind, id |-> 0, objects |-> {}, generation |-> raw.generation]>>]
  /\ UNCHANGED <<session, caller, osd>>

-----------------------------------------------------------------------------
Caller(c) == SubmitTarget(c) \/ Submit(c) \/ FinishSubmit(c) \/ EndWait(c)

Receive ==
  \/ TakeIncoming \/ HandleIncoming \/ TakeReset \/ TakeAckResult \/ TakeTerminal
  \/ StopReceive \/ EndReceive

SendACKs ==
  \/ TakeAck \/ ReportAck \/ StopAcks
  \/ \E outcome \in {"ok", "failed", "canceled", "invalidated"} : FinishAck(outcome)

Next ==
  \/ \E c \in Callers : Caller(c) \/ ContextDone(c) \/ RawSend(c) \/ RawCancel(c) \/ OSDReceive(c)
  \/ Receive \/ SendACKs
  \/ TransportFault \/ Stop
  \/ \E kind \in {"map", "notify"} : OSDSends(kind)
  \/ \E state \in {"terminal", "done"} : RawEnds(state)
  \/ \E id \in BackoffIDs, objects \in Ranges : OSDBlock(id, objects)
  \/ \E b \in osd.blocks : OSDUnblock(b)

Spec == Init /\ [][Next]_vars

\* Callers and receive run when they can; the select of receive chooses at random, so
\* a reset or the end is not passed over for ever; the messenger writes and cancels, and
\* the OSD answers what it gets and unblocks what it has blocked.
Fairness ==
  /\ \A c \in Callers :
       /\ WF_vars(Submit(c) \/ FinishSubmit(c) \/ EndWait(c))
       /\ WF_vars(RawSend(c) \/ RawCancel(c) \/ OSDReceive(c))
  /\ WF_vars(Receive) /\ SF_vars(TakeReset) /\ SF_vars(TakeTerminal)
  /\ WF_vars(\E b \in osd.blocks : OSDUnblock(b))

LiveSpec == Spec /\ Fairness

-----------------------------------------------------------------------------
(***************************************************************************)
(* Properties.                                                             *)
(***************************************************************************)

Generations == 0..(MaxGeneration + 4)

Messages ==
  [kind : {"block", "unblock", "map", "notify"}, id : BackoffIDs \cup {0}, objects : Ranges \cup {{}},
   generation : Generations]

Acks == [id : BackoffIDs \cup {0}, generation : Generations, transport : Generations,
         canceled : BOOLEAN]

\* The fields hold what their Go types allow; a channel holds no more than it has room.
TypeOK ==
  /\ session.backoffs \subseteq Messages
  /\ session.receive \in {"running", "stopping", "closing", "done"}
  /\ session.received \in Seq(Messages) /\ Len(session.received) <= 1
  /\ session.ackQueue \in Seq(Acks) /\ session.ackActive \in Acks
  /\ Len(session.ackFailed) <= 1 /\ Len(session.ackResults) <= 1
  /\ raw.state \in {"open", "terminal", "done"} /\ raw.generation \in Generations
  /\ raw.incoming \in Seq(Messages)
  /\ raw.request \in
       [Callers -> {"none", "queued", "sent", "dropped", "replied", "failed", "unknown"}]
  /\ \A c \in Callers :
       caller[c].pc \in {"idle", "checking", "blocked", "woken", "submitted", "returned"}

\* The messages on their way to the handlers of receive, the next one first.
Arriving == session.received \o raw.incoming

\* A request the OSD has dropped is never forgotten: the block that dropped it is on
\* its way to receive or known to it, so that the end of the block sends it again.
DroppedIsCovered ==
  \A c \in Callers :
    raw.request[c] = "dropped" /\ ~caller[c].resend /\ session.receive = "running" =>
      \E b \in session.backoffs \cup {Arriving[i] : i \in 1..Len(Arriving)} :
        b.kind = "block" /\ caller[c].object \in b.objects /\ b.generation = raw.generation

\* A caller sleeps only while a backoff holds its object back, in a session that
\* has not failed.
NoLostWakeup ==
  \A c \in Callers :
    caller[c].pc = "blocked" =>
      Blocked(session, caller[c].object) /\ session.err = "none"

\* No backoff outlives its transport for good: its reset is signalled, or the end of
\* the messenger is.
BackoffIsCurrent ==
  \A b \in session.backoffs :
    b.generation = raw.generation \/ raw.reset \/ raw.state # "open" \/ session.err # "none"

\* The reserve for acknowledgments is what waits or is under way, within its limit,
\* and what waits answers the present transport generation of the session.
AckAccounting ==
  /\ session.ackCount = Len(session.ackQueue) + IF session.ackActive = NoAck THEN 0 ELSE 1
  /\ session.ackCount <= MaxAcks
  /\ \A i \in 1..Len(session.ackQueue) : session.ackQueue[i].generation = session.ackGeneration

\* An acknowledgment that could not be written because its transport was lost does
\* not end the session, however late its failure arrives; only Stop may.
AckFailureIsCurrent == session.err \in {"invalidated", "canceled"} => session.stopped

\* No request is forgotten: one the OSD has dropped is covered by the block that dropped
\* it, and one that waits sleeps through no end of a block.
NothingForgotten == DroppedIsCovered /\ NoLostWakeup

\* Backoffs are of the present transport, acknowledgments stay within their reserve and
\* on the transport they answer, and one that failed with it does not end the session.
AckSafe == TypeOK /\ BackoffIsCurrent /\ AckAccounting /\ AckFailureIsCurrent

AllReturned == \A c \in Callers : caller[c].pc \in {"idle", "returned"}

\* Every call returns if the OSD ends its backoffs, also when transports are lost.
EveryCallReturns == []<>AllReturned

=============================================================================
