---------------------------- MODULE SessionOwner ----------------------------
(***************************************************************************)
(* The sequential core of a messenger v2.1 session: the state that one     *)
(* goroutine, sessionOwner.run, owns, and the functions it calls on that   *)
(* state (internal/msgr/session.go, session_control.go).                   *)
(*                                                                         *)
(* The owner is one record, and every method of sessionOwner is an         *)
(* operator from an owner to the owner the method leaves behind.  The      *)
(* goroutines around it are in module Session.                             *)
(*                                                                         *)
(* A request is the number of its admission, so the linked list            *)
(* owner.pending is the set `pending' in numeric order.  Events,           *)
(* diagnostics, addresses, features and credentials are left out: the      *)
(* owner never reads them back.  Every message weighs one byte.            *)
(***************************************************************************)
EXTENDS Integers, Sequences, FiniteSets

CONSTANTS
  MaxRequests,              \* bound: how many calls of Submit, Send, SendControl
  MaxUint64,                \* the largest uint64
  MaxQueuedMessages,        \* SessionConfig.MaxQueuedMessages
  MaxRetainedBytes,         \* SessionConfig.MaxRetainedBytes
  MaxInFlightTransactions,  \* SessionConfig.MaxInFlightTransactions
  MaxControlMessages,       \* the constant MaxControlMessages
  MaxReconnectAttempts,     \* SessionConfig.MaxReconnectAttempts, 0 is no limit
  MaxHandshakeTransitions,  \* SessionConfig.MaxHandshakeTransitions
  ReconnectPolicy,          \* SessionConfig.ReconnectPolicy
  Renewable                 \* whether a transport is a RenewalTransport

ASSUME RequestsAssumption == MaxRequests \in Nat /\ MaxUint64 \in Nat \ {0}

\* What NewSession insists on before it starts the owner.
ASSUME ConfigAssumption ==
  /\ MaxQueuedMessages \in Nat \ {0}
  /\ MaxRetainedBytes \in Nat \ {0}
  /\ MaxInFlightTransactions \in Nat \ {0}
  /\ MaxControlMessages \in Nat \ {0}
  /\ MaxReconnectAttempts \in Nat
  /\ MaxHandshakeTransitions \in Nat \ {0}
  /\ ReconnectPolicy \in {"FailPending", "ReplayPending"}
  /\ Renewable \in BOOLEAN

Requests == 1..MaxRequests
Uint64 == 0..MaxUint64

-----------------------------------------------------------------------------
(***************************************************************************)
(* Frames and results.                                                     *)
(***************************************************************************)

\* A frame on the wire.  `payload' is the request a message is, or answers.
NoFrame ==
  [tag |-> "None", sequence |-> 0, transaction |-> 0, ack |-> 0,
   cookie |-> 0, connect |-> 0, payload |-> 0]

AckFrame(sequence) == [NoFrame EXCEPT !.tag = "Ack", !.sequence = sequence]

\* submitResult: a reply, the completion of a one-way write, or an error that
\* may be joined with ErrOutcomeUnknown.
Success(reply) == [err |-> "none", unknown |-> FALSE, reply |-> reply]
Failure(err) == [err |-> err, unknown |-> FALSE, reply |-> 0]
OutcomeUnknown(err) == [err |-> err, unknown |-> TRUE, reply |-> 0]

-----------------------------------------------------------------------------
(***************************************************************************)
(* The owner as NewSession makes it, before run.                           *)
(***************************************************************************)
NewOwner ==
  [state |-> "Disconnected",
   transport |-> FALSE,              \* owner.transport and owner.writeTasks
   generation |-> 0,
   writeBusy |-> FALSE,
   controlQueue |-> <<>>,
   pendingAck |-> 0,                 \* the ack timer runs while it is not 0
   \* pendingRequest and submitCommand, by request
   pending |-> {},
   sent |-> {},
   mayHaveExecuted |-> {},
   replay |-> <<>>,                  \* the list from replayHead to replayTail
   kind |-> [r \in Requests |-> "request"],
   scope |-> [r \in Requests |-> 0], \* submitCommand.controlGeneration
   tid |-> [r \in Requests |-> 0],
   seq |-> [r \in Requests |-> 0],
   result |-> [r \in Requests |-> <<>>],
   \* counters the owner keeps beside the lists
   retainedBytes |-> 0,
   controlCount |-> 0,
   inFlight |-> 0,
   nextOutbound |-> 1,
   sequenceExhausted |-> FALSE,
   lastInbound |-> 0,
   nextTID |-> 1,
   tidExhausted |-> FALSE,
   clientCookie |-> 0,
   serverCookie |-> 0,
   lossy |-> FALSE,                  \* owner.serverFlags & ConnectionFlagLossy
   globalSeq |-> 1,
   connectSeq |-> 0,
   connectedOnce |-> FALSE,
   reconnectAttempts |-> 0,
   transitions |-> 0,
   connectPending |-> FALSE,
   terminal |-> FALSE,               \* owner.terminalErr # nil
   renewalPending |-> FALSE,
   renewalArmed |-> FALSE,           \* the transport's renewalPump has not fired
   controlGeneration |-> 1,
   receiveQueue |-> <<>>,            \* the TransportGeneration of each message
   \* the goroutines the owner hands work to
   connecting |-> 0,                 \* generation the connectorPump works on
   writing |-> {},                   \* tasks in the hands of the write pumps
   \* history: what no code reads
   stuck |-> FALSE,                  \* a hand-over found nobody to receive it
   handed |-> {},                    \* requests ever handed to a write pump
   wire |-> <<>>]                    \* [request, sequence] on this transport

IsControl(o, r) == o.kind[r] = "control"
OneWay(o, r) == o.kind[r] \in {"oneway", "control"}
InReplay(o, r) == \E i \in 1..Len(o.replay) : o.replay[i] = r

-----------------------------------------------------------------------------
(***************************************************************************)
(* The lists of requests.                                                  *)
(***************************************************************************)

\* The replay list without the requests in `gone'.
Without(list, gone) == SelectSeq(list, LAMBDA q : q \notin gone)

AddReplay(o, r) == IF InReplay(o, r) THEN o ELSE [o EXCEPT !.replay = Append(@, r)]

\* Mutant: a control leaves the list and stays in the count.
RemovePendingKeepsControl(o, r) ==
  [o EXCEPT
    !.inFlight = IF r \in o.sent /\ ~IsControl(o, r) THEN @ - 1 ELSE @,
    !.retainedBytes = IF IsControl(o, r) THEN @ ELSE @ - 1,
    !.pending = @ \ {r},
    !.sent = @ \ {r},
    !.mayHaveExecuted = @ \ {r},
    !.replay = Without(@, {r}),
    !.tid[r] = 0,
    !.seq[r] = 0]

RemovePending(o, r) ==
  [o EXCEPT
    !.inFlight = IF r \in o.sent /\ ~IsControl(o, r) THEN @ - 1 ELSE @,
    !.controlCount = IF IsControl(o, r) THEN @ - 1 ELSE @,
    !.retainedBytes = IF IsControl(o, r) THEN @ ELSE @ - 1,
    !.pending = @ \ {r},
    !.sent = @ \ {r},
    !.mayHaveExecuted = @ \ {r},
    !.replay = Without(@, {r}),
    !.tid[r] = 0,
    !.seq[r] = 0]

\* removePending, then the one send on the request's result channel.
Settle(o, r, result) == [RemovePending(o, r) EXCEPT !.result[r] = Append(@, result)]

\* Every pending request in `failed' removed and answered with result.
SettleAll(o, failed, result) ==
  LET controls == {r \in failed : IsControl(o, r)}
  IN  [o EXCEPT
        !.inFlight = @ - Cardinality((failed \ controls) \cap o.sent),
        !.controlCount = @ - Cardinality(controls),
        !.retainedBytes = @ - Cardinality(failed \ controls),
        !.pending = @ \ failed,
        !.sent = @ \ failed,
        !.mayHaveExecuted = @ \ failed,
        !.replay = Without(@, failed),
        !.tid = [r \in Requests |-> IF r \in failed THEN 0 ELSE @[r]],
        !.seq = [r \in Requests |-> IF r \in failed THEN 0 ELSE @[r]],
        !.result = [r \in Requests |-> IF r \in failed THEN Append(@[r], result) ELSE @[r]]]

\* Mutants of FailAll: requests that may have executed fail like the others, or
\* the list of what is pending is not cleared.
FailAllDefinite(o, err) ==
  [o EXCEPT
    !.result = [r \in Requests |-> IF r \in o.pending THEN Append(@[r], Failure(err)) ELSE @[r]],
    !.pending = {}, !.sent = {}, !.mayHaveExecuted = {}, !.replay = <<>>,
    !.tid = [r \in Requests |-> 0], !.seq = [r \in Requests |-> 0],
    !.retainedBytes = 0, !.controlCount = 0, !.inFlight = 0]

FailAllKeepsPending(o, err) == [FailAllDefinite(o, err) EXCEPT !.pending = o.pending]

\* failAll clears the lists and sets the counters to zero, whatever they held.
FailAll(o, err) ==
  [o EXCEPT
    !.result = [r \in Requests |->
                 IF r \notin o.pending THEN @[r]
                 ELSE Append(@[r], IF r \in o.mayHaveExecuted THEN OutcomeUnknown(err)
                                                              ELSE Failure(err))],
    !.pending = {}, !.sent = {}, !.mayHaveExecuted = {}, !.replay = <<>>,
    !.tid = [r \in Requests |-> 0], !.seq = [r \in Requests |-> 0],
    !.retainedBytes = 0, !.controlCount = 0, !.inFlight = 0]

\* Mutant: the requests that were sent fail with a definite error.
FailSentDefinite(o, err) ==
  [SettleAll(o, o.pending \cap o.sent, Failure(err)) EXCEPT !.replay = <<>>]

FailSentUnknown(o, err) ==
  [SettleAll(o, o.pending \cap o.sent, OutcomeUnknown(err)) EXCEPT !.replay = <<>>]

\* Mutants of PrepareReplay: a replayed message gets a new sequence; nothing is
\* replayed.
PrepareReplayRenumbers(o) ==
  LET again == {r \in o.pending \cap o.sent : InReplay(o, r)}
  IN  [o EXCEPT !.inFlight = @ - Cardinality({r \in again : ~IsControl(o, r)}),
                !.sent = @ \ again,
                !.seq = [r \in Requests |-> IF r \in again THEN 0 ELSE @[r]]]

PrepareReplayNothing(o) == o

\* What the write pump has may have reached the peer: it is written again.
PrepareReplay(o) ==
  LET again == {r \in o.pending \cap o.sent : InReplay(o, r)}
  IN  [o EXCEPT !.inFlight = @ - Cardinality({r \in again : ~IsControl(o, r)}),
                !.sent = @ \ again]

\* Drops from the head of the list, up to the first sequence that is larger.
TrimReplay(o, sequence) ==
  LET acked == {n \in 0..Len(o.replay) : \A i \in 1..n : o.seq[o.replay[i]] <= sequence}
      trimmed == CHOOSE n \in acked : \A m \in acked : m <= n
  IN  [o EXCEPT !.replay = SubSeq(@, trimmed + 1, Len(@))]

\* Mutant of InvalidateControls: the messages of the old transport stay.
InvalidateKeepsReceiveQueue(o) ==
  LET scoped == {r \in o.pending : o.scope[r] # 0}
  IN  [SettleAll(o, scoped, Failure("invalidated")) EXCEPT !.controlGeneration = @ + 1]

\* Scoped controls die with the transport they answer, and so do the messages
\* the application has not taken yet.
InvalidateControls(o) ==
  LET scoped == {r \in o.pending : o.scope[r] # 0}
  IN  [SettleAll(o, scoped, Failure("invalidated")) EXCEPT
        !.receiveQueue = <<>>,
        !.controlGeneration = @ + 1]

-----------------------------------------------------------------------------
(***************************************************************************)
(* Sequence numbers and transaction ids at the end of their range.         *)
(***************************************************************************)

NextSequence(o) == IF o.nextOutbound = 0 THEN 1 ELSE o.nextOutbound

\* allocateSequence, when the sequences are not exhausted.
AllocateSequence(o) ==
  IF NextSequence(o) = MaxUint64
  THEN [o EXCEPT !.sequenceExhausted = TRUE, !.nextOutbound = 0]
  ELSE [o EXCEPT !.nextOutbound = NextSequence(o) + 1]

\* Mutant: ids that callers brought are not looked up.
FreeTIDsUnchecked(o) ==
  IF o.tidExhausted THEN {} ELSE (IF o.nextTID = 0 THEN 1 ELSE o.nextTID)..MaxUint64

FreeTIDs(o) ==
  IF o.tidExhausted THEN {}
  ELSE {t \in (IF o.nextTID = 0 THEN 1 ELSE o.nextTID)..MaxUint64 :
          \A r \in o.pending : o.tid[r] # t}

\* takeTID: the first free id and the owner that has taken it, when there is one.
TakenTID(o) == CHOOSE t \in FreeTIDs(o) : \A u \in FreeTIDs(o) : t <= u

TakeTID(o) ==
  IF TakenTID(o) = MaxUint64
  THEN [o EXCEPT !.tidExhausted = TRUE, !.nextTID = 0]
  ELSE [o EXCEPT !.nextTID = TakenTID(o) + 1]

-----------------------------------------------------------------------------
(***************************************************************************)
(* Losing the transport.                                                   *)
(***************************************************************************)

ClearPendingAcknowledgment(o) == [o EXCEPT !.pendingAck = 0]

\* Mutant: the new transport inherits a write that is never completed.
CloseTransportBusy(o) ==
  [o EXCEPT !.transport = FALSE, !.renewalArmed = FALSE, !.controlQueue = <<>>]

\* Close the transport, its write pump and its renewal pump.
CloseTransport(o) ==
  [o EXCEPT !.transport = FALSE, !.renewalArmed = FALSE, !.writeBusy = FALSE,
            !.controlQueue = <<>>]

\* Nothing restarts the session after this: the connector is cancelled.
FailTerminal(o) ==
  LET closed == CloseTransport(InvalidateControls(ClearPendingAcknowledgment(o)))
  IN  [FailAll(closed, "terminal") EXCEPT
        !.generation = @ + 1,
        !.terminal = TRUE,
        !.connectPending = FALSE,
        !.state = "Disconnected"]

\* Mutant: the last attempt fails and nothing is said.
BeginReconnectSilent(o) ==
  IF MaxReconnectAttempts > 0 /\ o.reconnectAttempts >= MaxReconnectAttempts
  THEN o
  ELSE [o EXCEPT
         !.reconnectAttempts = @ + 1,
         !.connectPending = TRUE,
         !.generation = @ + 1,
         !.connecting = o.generation + 1,
         !.stuck = @ \/ o.connecting # 0 \/ o.terminal]

\* The send on connectorRequests has no buffer: it needs a connectorPump that
\* waits for a request and was not cancelled by FailTerminal.
BeginReconnect(o) ==
  IF MaxReconnectAttempts > 0 /\ o.reconnectAttempts >= MaxReconnectAttempts
  THEN FailTerminal(o)
  ELSE [o EXCEPT
         !.reconnectAttempts = @ + 1,
         !.connectPending = TRUE,
         !.generation = @ + 1,
         !.connecting = o.generation + 1,
         !.stuck = @ \/ o.connecting # 0 \/ o.terminal]

ResetForNewIdentity(o) ==
  [FailAll(ClearPendingAcknowledgment(o), "disconnected") EXCEPT
    !.serverCookie = 0, !.lossy = FALSE, !.connectSeq = 0, !.lastInbound = 0,
    !.nextOutbound = 1, !.sequenceExhausted = FALSE,
    !.nextTID = 1, !.tidExhausted = FALSE]

HandleFault(o) ==
  IF o.terminal \/ o.state = "Stopped" \/ (o.state = "Disconnected" /\ o.connectPending)
  THEN o
  ELSE LET closed == CloseTransport(InvalidateControls(ClearPendingAcknowledgment(o)))
           settled == IF closed.lossy
                      THEN ResetForNewIdentity(FailSentUnknown(closed, "disconnected"))
                      ELSE IF ReconnectPolicy = "FailPending"
                      THEN FailAll(closed, "disconnected")
                      ELSE IF closed.serverCookie = 0
                      THEN FailSentUnknown(closed, "disconnected")
                      ELSE PrepareReplay(closed)
       IN  BeginReconnect([settled EXCEPT !.state = "Disconnected"])

-----------------------------------------------------------------------------
(***************************************************************************)
(* Control frames and acknowledgments on their way out.                    *)
(***************************************************************************)

\* Mutant: a delayed acknowledgment holds no place in the queue.
QueueControlUnreserved(o, frame) ==
  IF Len(o.controlQueue) >= MaxQueuedMessages
  THEN HandleFault(o)
  ELSE [o EXCEPT !.controlQueue = Append(@, frame)]

\* A delayed acknowledgment holds a place in the queue.
QueueControl(o, frame) ==
  IF Len(o.controlQueue) + (IF o.pendingAck # 0 THEN 1 ELSE 0) >= MaxQueuedMessages
  THEN HandleFault(o)
  ELSE [o EXCEPT !.controlQueue = Append(@, frame)]

FlushPendingAcknowledgment(o) ==
  IF o.pendingAck = 0 THEN o
  ELSE QueueControl(ClearPendingAcknowledgment(o), AckFrame(o.pendingAck))

\* Only called in state Ready.
QueueAcknowledgment(o, sequence) ==
  IF o.pendingAck = 0 /\ Len(o.controlQueue) >= MaxQueuedMessages
  THEN HandleFault(o)
  ELSE [o EXCEPT !.pendingAck = sequence]

QueueClientIdent(o) ==
  QueueControl(o, [NoFrame EXCEPT !.tag = "ClientIdent", !.cookie = o.clientCookie])

SendReconnect(o) ==
  QueueControl([o EXCEPT !.controlQueue = <<>>],
               [NoFrame EXCEPT !.tag = "SessionReconnect", !.cookie = o.serverCookie,
                               !.connect = o.connectSeq, !.sequence = o.lastInbound])

\* Cookies are random and not 0; a fresh number stands for one.
RefreshClientCookie(o) == [o EXCEPT !.clientCookie = @ + 1]

-----------------------------------------------------------------------------
(***************************************************************************)
(* A transport from the connector.                                         *)
(***************************************************************************)

StartTransport(o, state) ==
  [o EXCEPT !.transport = TRUE, !.generation = @ + 1, !.renewalArmed = Renewable,
            !.state = state, !.wire = <<>>]

\* outcome: "failed", "connected", "newIdentity" (authenticated under another
\* global id) or "badIdentity" (a global id above MaxInt64).
HandleConnected(o, outcome) ==
  LET idle == [o EXCEPT !.connecting = 0]
      taken == [idle EXCEPT !.connectPending = FALSE]
      opened == [taken EXCEPT !.transitions = 0]
      fresh == [opened EXCEPT !.connectedOnce = TRUE,
                              !.globalSeq = IF o.connectedOnce THEN @ + 1 ELSE @]
      known == IF outcome = "newIdentity" /\ o.connectedOnce
               THEN ResetForNewIdentity(fresh) ELSE fresh
  IN  IF o.connecting # o.generation \/ ~o.connectPending THEN idle
      ELSE IF outcome = "failed" THEN BeginReconnect(taken)
      ELSE IF o.connectedOnce /\ o.globalSeq = MaxUint64 THEN FailTerminal(opened)
      ELSE IF outcome = "badIdentity" THEN FailTerminal(fresh)
      ELSE IF known.serverCookie = 0
      THEN QueueClientIdent(StartTransport(
             [RefreshClientCookie(known) EXCEPT !.connectSeq = 0], "Connecting"))
      ELSE IF known.connectSeq = MaxUint64 THEN FailTerminal(known)
      ELSE SendReconnect(StartTransport([known EXCEPT !.connectSeq = @ + 1], "Reconnecting"))

-----------------------------------------------------------------------------
(***************************************************************************)
(* Frames from the peer.                                                   *)
(***************************************************************************)

\* acceptAcknowledgment: the peer acknowledges nothing that was not sent.
AcceptsAcknowledgment(o, sequence) ==
  o.sequenceExhausted \/ sequence < o.nextOutbound \/ sequence = 0

\* The pending request a message of the peer answers, if there is one.
Answered(o, transaction) ==
  {r \in o.pending : o.tid[r] = transaction /\ ~IsControl(o, r)}

HandleMessage(o, frame) ==
  LET trimmed == TrimReplay([o EXCEPT !.lastInbound = frame.sequence], frame.ack)
      settled == LET r == CHOOSE r \in Answered(o, frame.transaction) : TRUE
                 IN  Settle(trimmed, r, Success(frame.payload))
      acked == QueueAcknowledgment(trimmed, frame.sequence)
  IN  IF ~AcceptsAcknowledgment(o, frame.ack) THEN HandleFault(o)
      ELSE IF frame.sequence <= o.lastInbound THEN o
      ELSE IF Answered(o, frame.transaction) # {}
      THEN QueueAcknowledgment(settled, frame.sequence)
      ELSE IF acked.controlGeneration # o.controlGeneration THEN acked
      ELSE IF Len(acked.receiveQueue) >= MaxQueuedMessages THEN FailTerminal(acked)
      ELSE [acked EXCEPT !.receiveQueue = Append(@, o.controlGeneration)]

HandleReset(o, full) ==
  LET cleared == [InvalidateControls(ClearPendingAcknowledgment(o)) EXCEPT
                   !.serverCookie = 0, !.lossy = FALSE, !.connectSeq = 0, !.lastInbound = 0]
      fresh == [RefreshClientCookie(cleared) EXCEPT
                 !.nextOutbound = 1, !.sequenceExhausted = FALSE,
                 !.nextTID = 1, !.tidExhausted = FALSE]
      settled == IF full THEN FailAll(fresh, "disconnected") ELSE PrepareReplay(cleared)
  IN  QueueClientIdent([settled EXCEPT !.state = "Connecting"])

\* Frames that only state Ready expects.
HandleReadyControl(o, frame) ==
  IF o.state # "Ready" THEN HandleFault(o)
  ELSE CASE frame.tag = "Message" -> HandleMessage(o, frame)
         [] frame.tag = "Ack" -> IF AcceptsAcknowledgment(o, frame.sequence)
                                 THEN TrimReplay(o, frame.sequence) ELSE HandleFault(o)
         [] frame.tag = "Keepalive2" ->
              QueueControl(o, [NoFrame EXCEPT !.tag = "Keepalive2Ack"])
         [] frame.tag = "Keepalive2Ack" -> o

\* Frames that only state Reconnecting expects; transitionAllowed counts them.
HandleReconnectControl(o, frame) ==
  LET counted == [o EXCEPT !.transitions = @ + 1]
      latest == IF frame.sequence > o.globalSeq THEN frame.sequence ELSE o.globalSeq
  IN  IF o.state # "Reconnecting" THEN HandleFault(o)
      ELSE IF counted.transitions > MaxHandshakeTransitions THEN HandleFault(counted)
      ELSE CASE frame.tag = "SessionReset" -> HandleReset(counted, FALSE)
             [] frame.tag = "SessionResetFull" -> HandleReset(counted, TRUE)
             [] frame.tag = "SessionRetry" ->
                  IF frame.connect = MaxUint64 THEN FailTerminal(counted)
                  ELSE SendReconnect([counted EXCEPT !.connectSeq = frame.connect + 1])
             [] frame.tag = "SessionRetryGlobal" ->
                  IF latest = MaxUint64 THEN FailTerminal(counted)
                  ELSE SendReconnect([counted EXCEPT !.globalSeq = latest + 1])
             [] frame.tag = "SessionReconnectOK" ->
                  IF ~AcceptsAcknowledgment(o, frame.sequence) THEN HandleFault(counted)
                  ELSE [PrepareReplay(TrimReplay(counted, frame.sequence)) EXCEPT
                         !.reconnectAttempts = 0, !.state = "Ready"]

\* frame.tag: "ServerIdent", "ServerIdentLossy", or an ident whose features or
\* address the client rejects.
HandleServerIdent(o, frame) ==
  LET counted == [o EXCEPT !.transitions = @ + 1]
      identified == [counted EXCEPT !.serverCookie = frame.cookie,
                                    !.lossy = frame.tag = "ServerIdentLossy",
                                    !.reconnectAttempts = 0]
  IN  IF o.state # "Connecting" THEN HandleFault(o)
      ELSE IF counted.transitions > MaxHandshakeTransitions THEN HandleFault(counted)
      ELSE CASE frame.tag = "ServerIdentFeatures" -> FailTerminal(counted)
             [] frame.tag = "ServerIdentAddress" -> HandleFault(counted)
             [] OTHER -> [FailSentUnknown(identified, "disconnected") EXCEPT !.state = "Ready"]

ReadyTags == {"Message", "Ack", "Keepalive2", "Keepalive2Ack"}
ReconnectTags == {"SessionReset", "SessionResetFull", "SessionRetry",
                  "SessionRetryGlobal", "SessionReconnectOK"}
IdentTags == {"ServerIdent", "ServerIdentLossy", "ServerIdentFeatures", "ServerIdentAddress"}

\* Every frame a transport can yield.
Tags ==
  ReadyTags \cup ReconnectTags \cup IdentTags
    \cup {"Wait", "Malformed", "Error", "OverBudget", "IdentMissingFeatures"}

\* "Malformed" is a frame that does not decode or has no place in a session,
\* "Error" a failed read, and "OverBudget" a read that the receive budget
\* refuses.  A Wait ends in HandleFault whatever state it meets.
HandleFrame(o, frame) ==
  CASE frame.tag \in ReadyTags -> HandleReadyControl(o, frame)
    [] frame.tag \in ReconnectTags -> HandleReconnectControl(o, frame)
    [] frame.tag \in IdentTags -> HandleServerIdent(o, frame)
    [] frame.tag = "Wait" -> HandleFault(IF o.state \in {"Connecting", "Reconnecting"}
                                         THEN [o EXCEPT !.transitions = @ + 1] ELSE o)
    [] frame.tag \in {"Malformed", "Error"} -> HandleFault(o)
    [] frame.tag \in {"OverBudget", "IdentMissingFeatures"} -> FailTerminal(o)

-----------------------------------------------------------------------------
(***************************************************************************)
(* Commands of the callers.                                                *)
(***************************************************************************)

\* kind "invalid" is a message that validateControlMessage or
\* admissionMessageBytes rejects; tid 0 asks the session for a transaction id.
Submit(o, r, kind, scope, tid, canceled) ==
  LET Refused(err) == [o EXCEPT !.result[r] = Append(@, Failure(err))]
      full == IF kind = "control" THEN o.controlCount >= MaxControlMessages
              ELSE \/ Cardinality(o.pending) - o.controlCount >= MaxQueuedMessages
                   \/ o.retainedBytes >= MaxRetainedBytes
      Admitted(p, t) == [p EXCEPT
        !.pending = @ \cup {r},
        !.kind[r] = kind,
        !.scope[r] = scope,
        !.tid[r] = t,
        !.controlCount = IF kind = "control" THEN @ + 1 ELSE @,
        !.retainedBytes = IF kind = "control" THEN @ ELSE @ + 1]
  IN  IF scope # 0 /\ scope # o.controlGeneration THEN Refused("invalidated")
      ELSE IF canceled THEN Refused("canceled")
      ELSE IF o.terminal THEN Refused("terminal")
      ELSE IF kind = "invalid" THEN Refused("malformed")
      ELSE IF full THEN Refused("saturated")
      ELSE IF tid # 0
      THEN IF \E q \in o.pending : o.tid[q] = tid THEN Refused("malformed") ELSE Admitted(o, tid)
      ELSE IF FreeTIDs(o) # {} THEN Admitted(TakeTID(o), TakenTID(o))
      ELSE [FailTerminal([o EXCEPT !.tidExhausted = TRUE, !.nextTID = 0]) EXCEPT
             !.result[r] = Append(@, Failure("terminal"))]

\* Mutant of Cancel: a message that was written fails with the plain error of its
\* context.
CancelDefinite(o, r) ==
  IF r \notin o.pending THEN o ELSE Settle(o, r, Failure("canceled"))

Cancel(o, r) ==
  IF r \notin o.pending THEN o
  ELSE Settle(o, r, IF r \in o.mayHaveExecuted THEN OutcomeUnknown("canceled")
                                               ELSE Failure("canceled"))

Stop(o) ==
  [FailAll([InvalidateControls(o) EXCEPT !.state = "Stopped"], "closed") EXCEPT
    !.transport = FALSE, !.renewalArmed = FALSE, !.connecting = 0, !.writing = {},
    !.pendingAck = 0]

-----------------------------------------------------------------------------
(***************************************************************************)
(* What the owner writes next.                                             *)
(***************************************************************************)

\* The send on writeTasks has no buffer: it needs the write pump of this
\* transport to wait for a task.
SendWrite(o, request, frame) ==
  [o EXCEPT
    !.stuck = @ \/ \E task \in o.writing : task.generation = o.generation,
    !.writeBusy = TRUE,
    !.writing = @ \cup {[generation |-> o.generation, request |-> request, frame |-> frame]}]

\* Mutant: controls overtake what is replayed.
NextPendingWriteControlsFirst(o) ==
  LET unsent == o.pending \ o.sent
      controls == {r \in unsent : IsControl(o, r)}
      Oldest(S) == {r \in S : \A q \in S : r <= q}
  IN  IF controls # {} THEN Oldest(controls) ELSE Oldest(unsent)

\* The request nextPendingWrite returns is in this set, which has at most one
\* element: without controls the oldest that is not sent, with controls the
\* lowest sequence to replay, then the oldest control, then the oldest of all.
NextPendingWrite(o) ==
  LET unsent == o.pending \ o.sent
      replays == {r \in unsent : o.seq[r] # 0}
      controls == {r \in unsent : IsControl(o, r)}
      Oldest(S) == {r \in S : \A q \in S : r <= q}
  IN  IF o.controlCount = 0 THEN Oldest(unsent)
      ELSE IF replays # {} THEN {r \in replays : \A q \in replays : o.seq[r] <= o.seq[q]}
      ELSE IF controls # {} THEN Oldest(controls)
      ELSE Oldest(unsent)

\* A renewal waits for the requests in flight, and only controls are written.
RenewalHolds(o) ==
  o.renewalPending /\ \A r \in NextPendingWrite(o) : ~IsControl(o, r)

\* Hand request r to the write pump.
WriteRequest(o, r) ==
  LET numbered == IF o.seq[r] # 0 THEN o
                  ELSE [AllocateSequence(o) EXCEPT !.seq[r] = NextSequence(o)]
      marked == AddReplay(
                  [ClearPendingAcknowledgment(numbered) EXCEPT
                    !.inFlight = IF IsControl(o, r) THEN @ ELSE @ + 1,
                    !.sent = @ \cup {r},
                    !.mayHaveExecuted = @ \cup {r},
                    !.handed = @ \cup {r},
                    !.wire = Append(@, [request |-> r, sequence |-> numbered.seq[r]])], r)
  IN  SendWrite(marked, r,
        [NoFrame EXCEPT !.tag = "Message", !.sequence = marked.seq[r],
                        !.transaction = o.tid[r], !.ack = o.lastInbound, !.payload = r])

\* The tail of dispatch, in state Ready with no control frame queued; canceled
\* is the set of requests whose context is done.
DispatchRequest(o, canceled) ==
  LET next == NextPendingWrite(o)
      r == CHOOSE r \in next : TRUE
  IN  IF RenewalHolds(o)
      THEN IF o.inFlight = 0 THEN HandleFault([o EXCEPT !.renewalPending = FALSE]) ELSE o
      ELSE IF next = {} THEN o
      ELSE IF o.scope[r] # 0 /\ o.scope[r] # o.controlGeneration
      THEN Settle(o, r, Failure("invalidated"))
      ELSE IF ~IsControl(o, r) /\ o.inFlight >= MaxInFlightTransactions THEN o
      ELSE IF r \in canceled
      THEN IF IsControl(o, r) THEN Cancel(o, r) ELSE Settle(o, r, Failure("canceled"))
      ELSE IF o.seq[r] = 0 /\ o.sequenceExhausted THEN FailTerminal(o)
      ELSE WriteRequest(o, r)

\* run calls dispatch once before each select, and dispatch does one thing.
Dispatch(o, canceled) ==
  LET flushed == IF o.renewalPending /\ o.inFlight = 0
                 THEN FlushPendingAcknowledgment(o) ELSE o
  IN  IF o.writeBusy \/ ~o.transport \/ o.state \in {"Disconnected", "Stopped"} THEN o
      ELSE IF flushed.controlQueue # <<>>
      THEN SendWrite([flushed EXCEPT !.controlQueue = Tail(@)], 0, Head(flushed.controlQueue))
      ELSE IF flushed.state # "Ready" THEN flushed
      ELSE DispatchRequest(flushed, canceled)

\* Mutant: the result of a transport that is gone counts.
HandleWrittenLate(o, written) ==
  LET idle == [o EXCEPT !.writeBusy = FALSE]
  IN  IF ~written.ok THEN HandleFault(idle)
      ELSE IF written.request \in o.pending /\ OneWay(o, written.request)
      THEN Settle(idle, written.request, Success(0))
      ELSE idle

\* The result of a write pump of the current generation.
HandleWritten(o, written) ==
  LET idle == [o EXCEPT !.writeBusy = FALSE]
  IN  IF written.generation # o.generation THEN o
      ELSE IF ~written.ok THEN HandleFault(idle)
      ELSE IF written.request \in o.pending /\ OneWay(o, written.request)
      THEN Settle(idle, written.request, Success(0))
      ELSE idle

=============================================================================
