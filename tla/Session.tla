------------------------------ MODULE Session -------------------------------
(***************************************************************************)
(* A messenger session with everything that runs beside its owner: the     *)
(* goroutines that call Submit, Send and SendControl, the read, write,     *)
(* connector and renewal pumps, and timers (internal/msgr/session.go).     *)
(* Every owner step is one iteration of sessionOwner.run: one case of its  *)
(* select, followed by the dispatch that precedes the next select.         *)
(*                                                                         *)
(* The peer is not constrained here: any frame may arrive at any time.     *)
(* Module SessionPeer puts a Ceph daemon at the other end.                 *)
(***************************************************************************)
EXTENDS SessionOwner

CONSTANTS
  Kinds,          \* kinds of calls: "request", "oneway", "control", "invalid"
  CallerTIDs,     \* transaction ids callers bring, 0 to be given one
  Cancelable,     \* the requests whose context may be done
  PeerTags,       \* what the read pump may read
  ConnectOutcomes,\* how the connector may answer
  MaxGeneration   \* bound: the connector gives no answer beyond it

ASSUME EnvironmentAssumption ==
  /\ Kinds \subseteq {"request", "oneway", "control", "invalid"}
  /\ CallerTIDs \subseteq Uint64
  /\ Cancelable \subseteq Requests
  /\ PeerTags \subseteq Tags
  /\ ConnectOutcomes \subseteq {"failed", "connected", "newIdentity", "badIdentity"}
  /\ MaxGeneration \in Nat

VARIABLES
  owner,     \* the state of sessionOwner
  caller,    \* where the call of each request is
  canceled,  \* the requests whose context is done
  frames,    \* the channel owner.frames, of capacity 1
  writes     \* the channel owner.writes, of capacity 1

vars == <<owner, caller, canceled, frames, writes>>

Init ==
  /\ owner = BeginReconnect(NewOwner)
  /\ caller = [r \in Requests |-> "idle"]
  /\ canceled = {}
  /\ frames = <<>>
  /\ writes = <<>>

\* One iteration of run: a case of its select, then dispatch.
Iterate(o) ==
  /\ owner.state # "Stopped"
  /\ owner' = Dispatch(o, canceled)

-----------------------------------------------------------------------------
(***************************************************************************)
(* Callers.                                                                *)
(***************************************************************************)

\* Requests are numbered in the order of their calls.
IsNext(r) == caller[r] = "idle" /\ \A q \in 1..(r - 1) : caller[q] # "idle"

\* A scoped control carries a generation the caller has read some time ago.
Scopes(kind) == IF kind = "control" THEN 0..owner.controlGeneration ELSE {0}

CallSubmit(r) ==
  /\ IsNext(r)
  /\ \E kind \in Kinds, tid \in CallerTIDs :
       \E scope \in Scopes(kind) :
         Iterate(Submit(owner, r, kind, scope, tid, r \in canceled))
  /\ caller' = [caller EXCEPT ![r] = "waiting"]
  /\ UNCHANGED <<canceled, frames, writes>>

\* The command never reaches the owner: the context or the session is done.
CallRefused(r) ==
  /\ IsNext(r)
  /\ r \in canceled \/ owner.state = "Stopped"
  /\ caller' = [caller EXCEPT ![r] = "refused"]
  /\ UNCHANGED <<owner, canceled, frames, writes>>

ContextDone(r) ==
  /\ r \in Cancelable \ canceled
  /\ IsNext(r) \/ caller[r] = "waiting"
  /\ canceled' = canceled \cup {r}
  /\ UNCHANGED <<owner, caller, frames, writes>>

\* The select of the caller may take ctx.Done although its result is there.
CallCancel(r) ==
  /\ caller[r] = "waiting"
  /\ r \in canceled
  /\ Iterate(Cancel(owner, r))
  /\ caller' = [caller EXCEPT ![r] = "canceling"]
  /\ UNCHANGED <<canceled, frames, writes>>

CallReturn(r) ==
  /\ caller[r] \in {"waiting", "canceling"}
  /\ owner.result[r] # <<>>
  /\ caller' = [caller EXCEPT ![r] = "returned"]
  /\ UNCHANGED <<owner, canceled, frames, writes>>

\* A Snapshot changes nothing, but run dispatches again after it.
CallSnapshot ==
  /\ Iterate(owner)
  /\ UNCHANGED <<caller, canceled, frames, writes>>

\* The application receives from Incoming.
Deliver ==
  /\ owner.receiveQueue # <<>>
  /\ Iterate([owner EXCEPT !.receiveQueue = Tail(@)])
  /\ UNCHANGED <<caller, canceled, frames, writes>>

\* stop waits for the pumps and drains their channels.
CallStop ==
  /\ Iterate(Stop(owner))
  /\ frames' = <<>>
  /\ writes' = <<>>
  /\ UNCHANGED <<caller, canceled>>

-----------------------------------------------------------------------------
(***************************************************************************)
(* Pumps.                                                                  *)
(***************************************************************************)

\* The read pump of the current transport has read a frame, or failed to.
ReadPump(frame) ==
  /\ owner.transport
  /\ frames = <<>>
  /\ frames' = <<[generation |-> owner.generation, frame |-> frame]>>
  /\ UNCHANGED <<owner, caller, canceled, writes>>

\* Frames of a transport that is gone, or after a terminal error, are dropped.
TakeFrame(frame) ==
  /\ frames # <<>>
  /\ Iterate(IF Head(frames).generation = owner.generation /\ ~owner.terminal
             THEN HandleFrame(owner, frame) ELSE owner)
  /\ frames' = <<>>
  /\ UNCHANGED <<caller, canceled, writes>>

\* A write pump, perhaps of a transport that is gone, finishes WriteFrame.
WritePump(task, ok) ==
  /\ task \in owner.writing
  /\ writes = <<>>
  /\ owner' = [owner EXCEPT !.writing = @ \ {task}]
  /\ writes' = <<[generation |-> task.generation, request |-> task.request, ok |-> ok]>>
  /\ UNCHANGED <<caller, canceled, frames>>

TakeWritten ==
  /\ writes # <<>>
  /\ Iterate(HandleWritten(owner, Head(writes)))
  /\ writes' = <<>>
  /\ UNCHANGED <<caller, canceled, frames>>

\* The renewal pump fires at most once for a transport.
RenewalDue ==
  /\ owner.renewalArmed
  /\ Iterate([owner EXCEPT !.renewalArmed = FALSE, !.renewalPending = TRUE])
  /\ UNCHANGED <<caller, canceled, frames, writes>>

\* The connector answers.  After a terminal error nobody has to hear it.
Connected(outcome) ==
  /\ owner.connecting # 0
  /\ owner.generation < MaxGeneration
  /\ Iterate(HandleConnected(owner, outcome))
  /\ UNCHANGED <<caller, canceled, frames, writes>>

AckTimer ==
  /\ owner.pendingAck # 0
  /\ Iterate(FlushPendingAcknowledgment(owner))
  /\ UNCHANGED <<caller, canceled, frames, writes>>

-----------------------------------------------------------------------------
\* What can be read from a peer about which nothing is known.  A message
\* answers a pending request or none.
PeerFrame(tag) ==
  [tag : {tag},
   sequence : IF tag \in {"Message", "Ack", "SessionReconnectOK", "SessionRetryGlobal"}
              THEN Uint64 ELSE {0},
   transaction : IF tag = "Message" THEN {0} \cup {owner.tid[r] : r \in owner.pending} ELSE {0},
   ack : IF tag = "Message" THEN Uint64 ELSE {0},
   cookie : IF tag \in {"ServerIdent", "ServerIdentLossy"} THEN {0, 1} ELSE {0},
   connect : IF tag = "SessionRetry" THEN Uint64 ELSE {0},
   payload : {0}]

\* What does not depend on the peer.
ClientNext ==
  \/ \E r \in Requests : CallSubmit(r) \/ CallRefused(r) \/ ContextDone(r)
                         \/ CallCancel(r) \/ CallReturn(r)
  \/ CallSnapshot \/ Deliver \/ CallStop
  \/ TakeWritten \/ RenewalDue \/ AckTimer
  \/ \E outcome \in ConnectOutcomes : Connected(outcome)

\* The frame that was read is chosen when the owner takes it.
Next ==
  \/ ClientNext
  \/ ReadPump(NoFrame)
  \/ \E tag \in PeerTags : \E frame \in PeerFrame(tag) : TakeFrame(frame)
  \/ \E task \in owner.writing, ok \in BOOLEAN : WritePump(task, ok)

Spec == Init /\ [][Next]_vars

-----------------------------------------------------------------------------
(***************************************************************************)
(* Properties.                                                             *)
(***************************************************************************)

FrameType ==
  [tag : STRING, sequence : Nat, transaction : Nat, ack : Nat,
   cookie : Nat, connect : Nat, payload : Nat]

ResultType == [err : STRING, unknown : BOOLEAN, reply : Nat]

\* The owner's fields hold what their Go types and the sequence range allow.
TypeOK ==
  /\ owner.state \in {"Disconnected", "Connecting", "Reconnecting", "Ready", "Stopped"}
  /\ \A flag \in {owner.transport, owner.writeBusy, owner.sequenceExhausted,
                  owner.tidExhausted, owner.lossy, owner.connectedOnce,
                  owner.connectPending, owner.terminal, owner.renewalPending,
                  owner.renewalArmed, owner.stuck} : flag \in BOOLEAN
  /\ owner.pending \subseteq Requests
  /\ owner.sent \subseteq owner.pending
  /\ owner.mayHaveExecuted \subseteq owner.pending
  /\ owner.handed \subseteq Requests
  /\ owner.replay \in Seq(owner.mayHaveExecuted)
  /\ owner.kind \in [Requests -> {"request", "oneway", "control"}]
  /\ owner.scope \in [Requests -> Nat]
  /\ owner.tid \in [Requests -> Uint64]
  /\ owner.seq \in [Requests -> Uint64]
  /\ owner.result \in [Requests -> Seq(ResultType)]
  /\ {owner.nextOutbound, owner.lastInbound, owner.nextTID, owner.pendingAck,
      owner.globalSeq, owner.connectSeq} \subseteq Uint64
  /\ {owner.retainedBytes, owner.controlCount, owner.inFlight, owner.generation,
      owner.clientCookie, owner.serverCookie, owner.reconnectAttempts,
      owner.transitions, owner.controlGeneration, owner.connecting} \subseteq Nat
  /\ owner.controlQueue \in Seq(FrameType)
  /\ owner.receiveQueue \in Seq(Nat)
  /\ owner.wire \in Seq([request : Requests, sequence : Uint64])
  /\ \A task \in owner.writing :
       task \in [generation : Nat, request : Requests \cup {0}, frame : FrameType]
  /\ caller \in [Requests -> {"idle", "waiting", "canceling", "returned", "refused"}]
  /\ canceled \subseteq Requests
  /\ frames \in Seq([generation : Nat, frame : FrameType]) /\ Len(frames) <= 1
  /\ writes \in Seq([generation : Nat, request : Requests \cup {0}, ok : BOOLEAN])
  /\ Len(writes) <= 1

\* A call that reached the owner is either still pending or has exactly one
\* result: the channel submitCommand.result holds one, so a second would block
\* the owner, and a request dropped without one would block its caller.
OneResult ==
  \A r \in Requests :
    Len(owner.result[r]) =
      IF caller[r] \in {"idle", "refused"} \/ r \in owner.pending THEN 0 ELSE 1

\* The owner never blocks on the unbuffered channels connectorRequests and
\* writeTasks: whoever receives from them is waiting each time it sends.
NeverStuck == ~owner.stuck

\* The counters the owner keeps agree with its lists and stay within the limits
\* of the configuration, through every fault, replay, reset and cancellation.
Accounting ==
  LET controls == {r \in owner.pending : IsControl(owner, r)}
      messages == owner.pending \ controls
  IN  /\ owner.inFlight = Cardinality(messages \cap owner.sent)
      /\ owner.controlCount = Cardinality(controls)
      /\ owner.retainedBytes = Cardinality(messages)
      /\ owner.inFlight <= MaxInFlightTransactions
      /\ owner.controlCount <= MaxControlMessages
      /\ owner.retainedBytes <= MaxQueuedMessages
      /\ owner.retainedBytes <= MaxRetainedBytes

\* A request that was ever handed to a write pump may have executed.
Definite(r) ==
  \E i \in 1..Len(owner.result[r]) :
    owner.result[r][i].err # "none" /\ ~owner.result[r][i].unknown

Reports(r, err) == \E i \in 1..Len(owner.result[r]) : owner.result[r][i].err = err

\* An error without ErrOutcomeUnknown says that the message never reached a write
\* pump.  Scoped controls, which answer a transport that is gone, are told so;
\* cancellation of other requests is OutcomeUnknownReported.
DefiniteFailures ==
  \A r \in owner.handed :
    Definite(r) => \/ Reports(r, "invalidated") /\ owner.scope[r] # 0
                   \/ Reports(r, "canceled") /\ ~IsControl(owner, r)

\* When execution may have occurred but there is no reply, the error matches
\* ErrOutcomeUnknown, also if the context of the request is done.
OutcomeUnknownReported ==
  \A r \in owner.handed : owner.scope[r] = 0 => ~Definite(r)

\* The messages of one transport carry increasing sequences, replays included:
\* the peer drops what does not exceed the last sequence it has seen.
AscendingWire ==
  \A i, j \in 1..Len(owner.wire) :
    i < j => owner.wire[i].sequence < owner.wire[j].sequence

\* A delayed acknowledgment is for the last message accepted on this transport,
\* and the place it needs in the control queue is free when its timer fires.
AckReserve ==
  owner.pendingAck # 0 =>
    /\ owner.state = "Ready"
    /\ owner.pendingAck = owner.lastInbound
    /\ Len(owner.controlQueue) < MaxQueuedMessages

\* Nothing outlives the transport it belongs to: a scoped control is pending, and
\* a message waits for the application, only under the current generation.
CurrentGeneration ==
  /\ \A r \in owner.pending : owner.scope[r] \in {0, owner.controlGeneration}
  /\ \A i \in 1..Len(owner.receiveQueue) :
       owner.receiveQueue[i] = owner.controlGeneration

\* Pending transaction ids differ, so a reply has one request to complete.
DistinctTIDs ==
  \A r, q \in owner.pending : r # q => owner.tid[r] # owner.tid[q]

\* No wakeup is lost while no context is done: when run blocks in its select with
\* an idle write pump on a ready transport, there is nothing it could write.
NoIdleWriter ==
  canceled = {} /\ owner.state = "Ready" /\ ~owner.writeBusy =>
    /\ owner.controlQueue = <<>>
    /\ \A r \in NextPendingWrite(owner) :
         /\ ~IsControl(owner, r)
         /\ owner.renewalPending \/ owner.inFlight = MaxInFlightTransactions

\* The owner's bookkeeping holds together: fields hold what they can, what it could write
\* is written, and pending transaction ids differ.
OwnerConsistent == TypeOK /\ NoIdleWriter /\ DistinctTIDs

\* A session that has no transport and has not given up has asked its connector
\* for one, and one that has given up or is stopped holds no request.
Reconnecting ==
  /\ owner.state = "Disconnected" /\ ~owner.terminal =>
       owner.connectPending /\ owner.connecting = owner.generation
  /\ owner.terminal \/ owner.state = "Stopped" => owner.pending = {}

=============================================================================
