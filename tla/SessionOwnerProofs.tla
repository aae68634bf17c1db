------------------------- MODULE SessionOwnerProofs -------------------------
(***************************************************************************)
(* The inductive invariant of the session owner, and a lemma for each of   *)
(* the steps its handlers are made of: settling requests, losing a         *)
(* transport, queueing control frames, opening a transport.                *)
(*                                                                         *)
(* The owner is a record that many small operators update.  A lemma per    *)
(* operator says which part of the invariant it keeps; what it leaves      *)
(* alone is said once, by Link (the fields about transports and pumps) and *)
(* Quiet (the fields about calls as well).                                 *)
(***************************************************************************)
EXTENDS SessionOwner, TLAPS

Fields ==
  {"state", "transport", "generation", "writeBusy", "controlQueue", "pendingAck",
   "pending", "sent", "mayHaveExecuted", "replay", "kind", "scope", "tid", "seq",
   "result", "retainedBytes", "controlCount", "inFlight", "nextOutbound",
   "sequenceExhausted", "lastInbound", "nextTID", "tidExhausted", "clientCookie",
   "serverCookie", "lossy", "globalSeq", "connectSeq", "connectedOnce",
   "reconnectAttempts", "transitions", "connectPending", "terminal",
   "renewalPending", "renewalArmed", "controlGeneration", "receiveQueue",
   "connecting", "writing", "stuck", "handed", "wire"}

IsOwner(o) == DOMAIN o = Fields

Link(o) ==
  <<o.state, o.transport, o.generation, o.writeBusy, o.connectPending, o.terminal,
    o.connecting, o.writing, o.stuck>>

\* p differs from o in nothing this module is about.
Quiet(o, p) ==
  /\ IsOwner(p)
  /\ Link(p) = Link(o)
  /\ <<p.pending, p.result, p.scope, p.controlGeneration, p.receiveQueue>>
       = <<o.pending, o.result, o.scope, o.controlGeneration, o.receiveQueue>>

-----------------------------------------------------------------------------
(***************************************************************************)
(* The invariant.  `called' are the requests whose command has reached the *)
(* owner, and `done' is the generation of the write result that waits in   *)
(* the channel, or -1.                                                     *)
(***************************************************************************)

Answers(o, called) ==
  /\ called \subseteq Requests
  /\ o.pending \subseteq called
  /\ DOMAIN o.result = Requests
  /\ \A r \in Requests : r \in o.pending \/ r \notin called => o.result[r] = <<>>
  /\ \A r \in called \ o.pending : \E x : o.result[r] = <<x>>

Scoped(o) ==
  /\ o.controlGeneration \in Nat
  /\ DOMAIN o.scope = Requests
  /\ \A r \in o.pending : o.scope[r] \in {0, o.controlGeneration}
  /\ o.receiveQueue \in Seq({o.controlGeneration})

Calls(o, called) == IsOwner(o) /\ Answers(o, called) /\ Scoped(o)

\* One task for a write pump, and none for one whose result is not taken yet.
Tasks(o, done) ==
  /\ o.generation \in Nat
  /\ o.stuck = FALSE
  /\ \A t \in o.writing : t.generation \in Nat /\ t.generation <= o.generation
  /\ \A t, u \in o.writing : t.generation = u.generation => t = u
  /\ done \in Int /\ done <= o.generation
  /\ \A t \in o.writing : t.generation # done

OpenStates == {"Connecting", "Reconnecting", "Ready"}

\* The owner agrees with its pumps: it is busy while the write pump of its
\* transport is, and the connector works for it while it is disconnected.
Linked(o, done) ==
  /\ o.state \in OpenStates \cup {"Disconnected", "Stopped"}
  /\ o.transport \in BOOLEAN /\ o.writeBusy \in BOOLEAN
  /\ o.terminal \in BOOLEAN /\ o.connectPending \in BOOLEAN
  /\ o.connecting \in Nat
  /\ o.transport = TRUE <=> o.state \in OpenStates
  /\ o.writeBusy = FALSE =>
       done # o.generation /\ \A t \in o.writing : t.generation # o.generation
  /\ o.state = "Disconnected" /\ o.terminal = FALSE =>
       o.connectPending = TRUE /\ o.connecting = o.generation
  /\ o.connecting # 0 => o.terminal = TRUE \/ o.state = "Disconnected"
  /\ o.terminal = TRUE => o.state \notin OpenStates /\ o.connectPending = FALSE
  /\ o.terminal = TRUE \/ o.state = "Stopped" => o.pending = {}

Base(o, called, done) == Calls(o, called) /\ Tasks(o, done)

Inv(o, called, done) == Base(o, called, done) /\ Linked(o, done)

-----------------------------------------------------------------------------
\* A queue of one element, as submit and queueControl build it.
LEMMA AppendEmpty == ASSUME NEW x PROVE Append(<<>>, x) = <<x>>
  OBVIOUS

\* A step of the owner that touches no request keeps the account of calls (snapshot, timers, handshake state).
LEMMA QuietCalls ==
  ASSUME NEW o, NEW p, NEW called, Calls(o, called), Quiet(o, p)
  PROVE  Calls(p, called) /\ Link(p) = Link(o)
  BY DEF Calls, Quiet, Answers, Scoped

\* The write pump's task and writeBusy keep agreeing when the owner changes neither (dispatch's early returns).
LEMMA LinkTasks ==
  ASSUME NEW o, NEW p, NEW done, Tasks(o, done), Link(p) = Link(o)
  PROVE  Tasks(p, done)
  BY DEF Tasks, Link

\* Steps that touch calls but not the link keep the invariant.
LEMMA LinkInv ==
  ASSUME NEW o, NEW p, NEW called, NEW done, Inv(o, called, done),
         Calls(p, called), Link(p) = Link(o), p.pending \subseteq o.pending
  PROVE  Inv(p, called, done)
<1>1. Tasks(p, done)
  BY LinkTasks DEF Inv, Base
<1>2. Linked(p, done)
  BY DEF Inv, Linked, Link
<1> QED BY <1>1, <1>2 DEF Inv, Base

\* A step that changes neither requests nor tasks nor the connector keeps the invariant.
LEMMA QuietInv ==
  ASSUME NEW o, NEW p, NEW called, NEW done, Inv(o, called, done), Quiet(o, p)
  PROVE  Inv(p, called, done)
<1>1. Calls(p, called) /\ Link(p) = Link(o)
  BY QuietCalls DEF Inv, Base
<1>2. p.pending \subseteq o.pending
  BY DEF Quiet
<1> QED BY <1>1, <1>2, LinkInv

\* removePending followed by the send of one result: the request leaves the queue and gets its only result.
LEMMA SettleCalls ==
  ASSUME NEW o, NEW called, Calls(o, called), NEW r \in o.pending, NEW x
  PROVE  /\ Calls(Settle(o, r, x), called)
         /\ Link(Settle(o, r, x)) = Link(o)
         /\ Settle(o, r, x).pending \subseteq o.pending
<1> DEFINE p == Settle(o, r, x)
           q == RemovePending(o, r)
<1>1. /\ IsOwner(q)
      /\ Link(q) = Link(o)
      /\ q.pending = o.pending \ {r}
      /\ q.result = o.result
      /\ q.scope = o.scope
      /\ q.controlGeneration = o.controlGeneration
      /\ q.receiveQueue = o.receiveQueue
  <2>1. IsOwner(q)
    BY DEF Calls, IsOwner, RemovePending
  <2>2. Link(q) = Link(o)
    BY DEF Calls, IsOwner, RemovePending, Link, Fields
  <2>3. q.pending = o.pending \ {r}
    BY DEF Calls, IsOwner, RemovePending, Fields
  <2>4. /\ q.result = o.result /\ q.scope = o.scope
        /\ q.controlGeneration = o.controlGeneration /\ q.receiveQueue = o.receiveQueue
    BY DEF Calls, IsOwner, RemovePending, Fields
  <2> QED BY <2>1, <2>2, <2>3, <2>4
<1>2. p = [q EXCEPT !.result[r] = Append(@, x)]
  BY DEF Settle
<1> HIDE DEF q, p
<1>3. /\ IsOwner(p)
      /\ Link(p) = Link(o)
      /\ p.pending = o.pending \ {r}
      /\ p.result = [o.result EXCEPT ![r] = Append(@, x)]
      /\ p.scope = o.scope
      /\ p.controlGeneration = o.controlGeneration
      /\ p.receiveQueue = o.receiveQueue
  BY <1>1, <1>2 DEF Calls, IsOwner, Link, Fields
<1>4. Answers(p, called)
  BY <1>3, AppendEmpty DEF Calls, Answers
<1>5. Scoped(p)
  BY <1>3 DEF Calls, Scoped
<1> QED BY <1>3, <1>4, <1>5 DEF Calls, p

\* Settling a set of requests in one loop, as failAll and failSentUnknown do, keeps the account of calls.
LEMMA SettleAllCalls ==
  ASSUME NEW o, NEW called, Calls(o, called), NEW failed \in SUBSET o.pending, NEW x
  PROVE  /\ Calls(SettleAll(o, failed, x), called)
         /\ Link(SettleAll(o, failed, x)) = Link(o)
         /\ SettleAll(o, failed, x).pending = o.pending \ failed
         /\ SettleAll(o, failed, x).scope = o.scope
         /\ SettleAll(o, failed, x).controlGeneration = o.controlGeneration
<1> DEFINE p == SettleAll(o, failed, x)
<1>1. IsOwner(p)
  BY DEF Calls, IsOwner, SettleAll
<1>2. Link(p) = Link(o)
  BY DEF Calls, IsOwner, SettleAll, Link, Fields
<1>3. p.pending = o.pending \ failed
  BY DEF Calls, IsOwner, SettleAll, Fields
<1>4. p.result = [r \in Requests |-> IF r \in failed THEN Append(o.result[r], x)
                                                     ELSE o.result[r]]
  BY DEF Calls, IsOwner, SettleAll, Fields
<1>5. /\ p.scope = o.scope
      /\ p.controlGeneration = o.controlGeneration
      /\ p.receiveQueue = o.receiveQueue
  BY DEF Calls, IsOwner, SettleAll, Fields
<1> HIDE DEF p
<1>6. Answers(p, called)
  <2>1. ASSUME NEW r \in Requests, r \in p.pending \/ r \notin called
        PROVE  p.result[r] = <<>>
    BY <2>1, <1>3, <1>4 DEF Calls, Answers
  <2>2. ASSUME NEW r \in called \ p.pending
        PROVE  \E y : p.result[r] = <<y>>
    <3>1. CASE r \in failed
      <4>1. p.result[r] = <<x>>
        BY <3>1, <1>4, AppendEmpty DEF Calls, Answers
      <4> QED BY <4>1
    <3>2. CASE r \notin failed
      BY <3>2, <1>3, <1>4 DEF Calls, Answers
    <3> QED BY <3>1, <3>2
  <2> QED BY <2>1, <2>2, <1>3, <1>4 DEF Calls, Answers
<1>7. Scoped(p)
  BY <1>3, <1>5 DEF Calls, Scoped
<1> QED BY <1>1, <1>2, <1>3, <1>5, <1>6, <1>7 DEF Calls, p

\* failAll: every request has its result, and none is left in a queue.
LEMMA FailAllCalls ==
  ASSUME NEW o, NEW called, Calls(o, called), NEW err
  PROVE  /\ Calls(FailAll(o, err), called)
         /\ Link(FailAll(o, err)) = Link(o)
         /\ FailAll(o, err).pending = {}
<1> DEFINE p == FailAll(o, err)
           X(r) == IF r \in o.mayHaveExecuted THEN OutcomeUnknown(err) ELSE Failure(err)
<1>1. /\ IsOwner(p)
      /\ Link(p) = Link(o)
      /\ p.pending = {}
      /\ p.result = [r \in Requests |-> IF r \notin o.pending THEN o.result[r]
                                        ELSE Append(o.result[r], X(r))]
      /\ p.scope = o.scope
      /\ p.controlGeneration = o.controlGeneration
      /\ p.receiveQueue = o.receiveQueue
  BY DEF Calls, IsOwner, FailAll, Link, Fields
<1> HIDE DEF p, X
<1>2. Answers(p, called)
  BY <1>1, AppendEmpty DEF Calls, Answers
<1>3. Scoped(p)
  BY <1>1 DEF Calls, Scoped
<1> QED BY <1>1, <1>2, <1>3 DEF Calls, p

\* failSentUnknown settles exactly the requests that may have executed.
LEMMA FailSentUnknownCalls ==
  ASSUME NEW o, NEW called, Calls(o, called), NEW err
  PROVE  /\ Calls(FailSentUnknown(o, err), called)
         /\ Link(FailSentUnknown(o, err)) = Link(o)
         /\ FailSentUnknown(o, err).pending \subseteq o.pending
<1> DEFINE p == SettleAll(o, o.pending \cap o.sent, OutcomeUnknown(err))
           q == [p EXCEPT !.replay = <<>>]
<1>1. Calls(p, called) /\ Link(p) = Link(o) /\ p.pending \subseteq o.pending
  BY SettleAllCalls
<1> HIDE DEF p
<1>2. Quiet(p, q)
  BY <1>1 DEF Calls, Quiet, IsOwner, Link, Fields
<1>3. Calls(q, called) /\ Link(q) = Link(o) /\ q.pending \subseteq o.pending
  BY <1>1, <1>2, QuietCalls DEF Quiet
<1> QED BY <1>3 DEF FailSentUnknown, p

\* invalidateControls settles the controls of the transport that is gone.
LEMMA InvalidateControlsCalls ==
  ASSUME NEW o, NEW called, Calls(o, called)
  PROVE  /\ Calls(InvalidateControls(o), called)
         /\ Link(InvalidateControls(o)) = Link(o)
         /\ InvalidateControls(o).pending \subseteq o.pending
<1> DEFINE scoped == {r \in o.pending : o.scope[r] # 0}
           p == SettleAll(o, scoped, Failure("invalidated"))
           q == [p EXCEPT !.receiveQueue = <<>>, !.controlGeneration = @ + 1]
<1>1. /\ Calls(p, called)
      /\ Link(p) = Link(o)
      /\ p.pending = o.pending \ scoped
      /\ p.scope = o.scope
  BY SettleAllCalls
<1> HIDE DEF p
<1>2. /\ IsOwner(q)
      /\ Link(q) = Link(o)
      /\ q.pending = p.pending
      /\ q.result = p.result
      /\ q.scope = p.scope
      /\ q.receiveQueue = <<>>
      /\ q.controlGeneration = p.controlGeneration + 1
  BY <1>1 DEF Calls, IsOwner, Link, Fields
<1>3. InvalidateControls(o) = q
  BY DEF InvalidateControls, p
<1> HIDE DEF q
<1>4. Answers(q, called)
  BY <1>1, <1>2 DEF Calls, Answers
<1>5. Scoped(q)
  BY <1>1, <1>2 DEF Calls, Scoped
<1> QED BY <1>1, <1>2, <1>3, <1>4, <1>5 DEF Calls

\* clearPendingAcknowledgment touches no request.
LEMMA ClearQuiet ==
  ASSUME NEW o, IsOwner(o) PROVE Quiet(o, ClearPendingAcknowledgment(o))
  BY DEF Quiet, IsOwner, Link, Fields, ClearPendingAcknowledgment

\* prepareReplay settles no request: it only marks them unsent.
LEMMA PrepareReplayQuiet ==
  ASSUME NEW o, IsOwner(o) PROVE Quiet(o, PrepareReplay(o))
  BY DEF Quiet, IsOwner, Link, Fields, PrepareReplay

\* trimReplay settles no request: it only shortens the replay list.
LEMMA TrimReplayQuiet ==
  ASSUME NEW o, NEW s, IsOwner(o) PROVE Quiet(o, TrimReplay(o, s))
  BY DEF Quiet, IsOwner, Link, Fields, TrimReplay

\* Closing the transport is quiet but for the transport and the write pump.
LEMMA CloseTransportCalls ==
  ASSUME NEW o, NEW called, Calls(o, called)
  PROVE  LET p == CloseTransport(o)
         IN  /\ Calls(p, called)
             /\ p.transport = FALSE /\ p.writeBusy = FALSE
             /\ <<p.state, p.generation, p.connectPending, p.terminal, p.connecting,
                  p.writing, p.stuck, p.pending>>
                  = <<o.state, o.generation, o.connectPending, o.terminal, o.connecting,
                      o.writing, o.stuck, o.pending>>
<1> DEFINE p == CloseTransport(o)
<1>1. /\ IsOwner(p)
      /\ p.transport = FALSE /\ p.writeBusy = FALSE
      /\ <<p.state, p.generation, p.connectPending, p.terminal, p.connecting,
           p.writing, p.stuck, p.pending>>
           = <<o.state, o.generation, o.connectPending, o.terminal, o.connecting,
               o.writing, o.stuck, o.pending>>
      /\ <<p.result, p.scope, p.controlGeneration, p.receiveQueue>>
           = <<o.result, o.scope, o.controlGeneration, o.receiveQueue>>
  BY DEF Calls, IsOwner, Fields, CloseTransport
<1> HIDE DEF p
<1>2. Calls(p, called)
  BY <1>1 DEF Calls, Answers, Scoped
<1> QED BY <1>1, <1>2 DEF p

-----------------------------------------------------------------------------
\* The transport is closed, and what was settled is settled.
LEMMA ClosedCalls ==
  ASSUME NEW o, NEW called, Calls(o, called)
  PROVE  LET p == CloseTransport(InvalidateControls(ClearPendingAcknowledgment(o)))
         IN  /\ Calls(p, called)
             /\ p.transport = FALSE /\ p.writeBusy = FALSE
             /\ <<p.state, p.generation, p.connectPending, p.terminal, p.connecting,
                  p.writing, p.stuck>>
                  = <<o.state, o.generation, o.connectPending, o.terminal, o.connecting,
                      o.writing, o.stuck>>
             /\ p.pending \subseteq o.pending
<1> DEFINE a == ClearPendingAcknowledgment(o)
           b == InvalidateControls(a)
<1>1. Calls(a, called) /\ Link(a) = Link(o) /\ a.pending = o.pending
  BY ClearQuiet, QuietCalls DEF Calls, Quiet
<1> HIDE DEF a
<1>2. Calls(b, called) /\ Link(b) = Link(o) /\ b.pending \subseteq o.pending
  BY <1>1, InvalidateControlsCalls
<1> HIDE DEF b
<1> QED BY <1>2, CloseTransportCalls DEF Link, a, b

\* FailTerminal can be called anywhere: it leaves no request behind.
LEMMA FailTerminalInv ==
  ASSUME NEW o, NEW called, NEW done, Base(o, called, done), o.connecting \in Nat
  PROVE  Inv(FailTerminal(o), called, done) /\ FailTerminal(o).writeBusy = FALSE
<1> DEFINE a == CloseTransport(InvalidateControls(ClearPendingAcknowledgment(o)))
           b == FailAll(a, "terminal")
           p == [b EXCEPT !.generation = @ + 1, !.terminal = TRUE,
                          !.connectPending = FALSE, !.state = "Disconnected"]
<1>1. /\ Calls(a, called)
      /\ a.transport = FALSE /\ a.writeBusy = FALSE
      /\ <<a.generation, a.connecting, a.writing, a.stuck>>
           = <<o.generation, o.connecting, o.writing, o.stuck>>
  BY ClosedCalls DEF Base
<1> HIDE DEF a
<1>2. Calls(b, called) /\ Link(b) = Link(a) /\ b.pending = {}
  BY <1>1, FailAllCalls
<1>3. FailTerminal(o) = p
  BY DEF FailTerminal, a
<1> HIDE DEF b
<1>4. /\ IsOwner(p)
      /\ p.generation = o.generation + 1
      /\ p.terminal = TRUE /\ p.connectPending = FALSE /\ p.state = "Disconnected"
      /\ p.transport = FALSE /\ p.writeBusy = FALSE
      /\ <<p.connecting, p.writing, p.stuck>> = <<o.connecting, o.writing, o.stuck>>
      /\ p.pending = {}
      /\ <<p.result, p.scope, p.controlGeneration, p.receiveQueue>>
           = <<b.result, b.scope, b.controlGeneration, b.receiveQueue>>
  BY <1>1, <1>2 DEF Calls, IsOwner, Link, Fields
<1> HIDE DEF p
<1>5. Calls(p, called)
  BY <1>2, <1>4 DEF Calls, Answers, Scoped
<1>6. Tasks(p, done)
  BY <1>4 DEF Base, Tasks
<1>7. done # p.generation /\ \A t \in p.writing : t.generation # p.generation
  BY <1>4 DEF Base, Tasks
<1>8. Linked(p, done)
  BY <1>4, <1>7 DEF Linked, OpenStates
<1> QED BY <1>3, <1>4, <1>5, <1>6, <1>8 DEF Inv, Base

\* failTerminal leaves a session that has ended and holds no request, whatever state it is called in.
LEMMA FailTerminalAlways ==
  ASSUME NEW o, NEW called, NEW done, Inv(o, called, done)
  PROVE  Inv(FailTerminal(o), called, done)
<1>1. Base(o, called, done) /\ o.connecting \in Nat
  BY DEF Inv, Linked
<1> QED BY <1>1, FailTerminalInv

\* BeginReconnect finds the connector idle when its caller does.
LEMMA BeginReconnectInv ==
  ASSUME NEW o, NEW called, NEW done, Base(o, called, done),
         o.state = "Disconnected", o.connecting = 0, o.terminal = FALSE,
         o.transport = FALSE, o.writeBusy \in BOOLEAN
  PROVE  /\ Inv(BeginReconnect(o), called, done)
         /\ o.writeBusy = FALSE => BeginReconnect(o).writeBusy = FALSE
<1>1. CASE MaxReconnectAttempts > 0 /\ o.reconnectAttempts >= MaxReconnectAttempts
  <2>1. BeginReconnect(o) = FailTerminal(o)
    BY <1>1 DEF BeginReconnect
  <2>2. o.connecting \in Nat
    OBVIOUS
  <2> QED BY <2>1, <2>2, FailTerminalInv
<1>2. CASE ~(MaxReconnectAttempts > 0 /\ o.reconnectAttempts >= MaxReconnectAttempts)
  <2> DEFINE p == BeginReconnect(o)
  <2>1. /\ IsOwner(p)
        /\ p.connectPending = TRUE
        /\ p.generation = o.generation + 1
        /\ p.connecting = o.generation + 1
        /\ p.state = o.state /\ p.transport = o.transport /\ p.writeBusy = o.writeBusy
        /\ p.terminal = o.terminal /\ p.writing = o.writing /\ p.pending = o.pending
        /\ <<p.result, p.scope, p.controlGeneration, p.receiveQueue>>
             = <<o.result, o.scope, o.controlGeneration, o.receiveQueue>>
    BY <1>2 DEF Base, Calls, IsOwner, Fields, BeginReconnect
  <2>2. p.stuck = FALSE
    BY <1>2 DEF Base, Calls, Tasks, IsOwner, Fields, BeginReconnect
  <2> HIDE DEF p
  <2>3. Calls(p, called)
    BY <2>1 DEF Base, Calls, Answers, Scoped
  <2>4. Tasks(p, done)
    BY <2>1, <2>2 DEF Base, Tasks
  <2>5. done # p.generation /\ \A t \in p.writing : t.generation # p.generation
    BY <2>1 DEF Base, Tasks
  <2>6. p.connecting \in Nat
    BY <2>1 DEF Base, Tasks
  <2>7. "Disconnected" \notin OpenStates /\ "Disconnected" # "Stopped"
    BY DEF OpenStates
  <2>8. p.connecting = p.generation
    BY <2>1
  <2>9. Linked(p, done)
    BY <2>1, <2>5, <2>6, <2>7, <2>8, ZenonT(30) DEF Linked
  <2> QED BY <2>1, <2>3, <2>4, <2>9 DEF Inv, Base, p
<1> QED BY <1>1, <1>2

\* resetForNewIdentity renumbers the requests and settles none.
LEMMA ResetForNewIdentityCalls ==
  ASSUME NEW o, NEW called, Calls(o, called)
  PROVE  /\ Calls(ResetForNewIdentity(o), called)
         /\ Link(ResetForNewIdentity(o)) = Link(o)
         /\ ResetForNewIdentity(o).pending = {}
<1> DEFINE a == ClearPendingAcknowledgment(o)
           b == FailAll(a, "disconnected")
           p == ResetForNewIdentity(o)
<1>1. Calls(a, called) /\ Link(a) = Link(o)
  BY ClearQuiet, QuietCalls DEF Calls
<1> HIDE DEF a
<1>2. Calls(b, called) /\ Link(b) = Link(o) /\ b.pending = {}
  BY <1>1, FailAllCalls
<1>3. p = [b EXCEPT !.serverCookie = 0, !.lossy = FALSE, !.connectSeq = 0, !.lastInbound = 0,
                    !.nextOutbound = 1, !.sequenceExhausted = FALSE,
                    !.nextTID = 1, !.tidExhausted = FALSE]
  BY DEF ResetForNewIdentity, a
<1> HIDE DEF b, p
<1>4. Quiet(b, p)
  BY <1>2, <1>3 DEF Calls, Quiet, IsOwner, Link, Fields
<1> QED BY <1>2, <1>4, QuietCalls DEF Quiet, p

\* handleFault: the transport goes, and either the connector has a request or the session has ended.
LEMMA HandleFaultInv ==
  ASSUME NEW o, NEW called, NEW done, Inv(o, called, done)
  PROVE  /\ Inv(HandleFault(o), called, done)
         /\ o.writeBusy = FALSE => HandleFault(o).writeBusy = FALSE
<1> DEFINE ignored == \/ o.terminal \/ o.state = "Stopped"
                      \/ o.state = "Disconnected" /\ o.connectPending
<1>1. CASE ignored
  BY <1>1 DEF HandleFault
<1>2. CASE ~ignored
  <2> DEFINE a == CloseTransport(InvalidateControls(ClearPendingAcknowledgment(o)))
             f == FailSentUnknown(a, "disconnected")
             b == IF a.lossy THEN ResetForNewIdentity(f)
                  ELSE IF ReconnectPolicy = "FailPending" THEN FailAll(a, "disconnected")
                  ELSE IF a.serverCookie = 0 THEN f
                  ELSE PrepareReplay(a)
             c == [b EXCEPT !.state = "Disconnected"]
  <2>1. /\ Calls(a, called)
        /\ a.transport = FALSE /\ a.writeBusy = FALSE
        /\ <<a.generation, a.connecting, a.terminal, a.writing, a.stuck>>
             = <<o.generation, o.connecting, o.terminal, o.writing, o.stuck>>
    BY ClosedCalls DEF Inv, Base
  <2> HIDE DEF a
  <2>2. Calls(f, called) /\ Link(f) = Link(a)
    BY <2>1, FailSentUnknownCalls
  <2> HIDE DEF f
  <2>3. Calls(ResetForNewIdentity(f), called) /\ Link(ResetForNewIdentity(f)) = Link(a)
    BY <2>2, ResetForNewIdentityCalls
  <2>4. Calls(FailAll(a, "disconnected"), called) /\ Link(FailAll(a, "disconnected")) = Link(a)
    BY <2>1, FailAllCalls
  <2>5. Calls(PrepareReplay(a), called) /\ Link(PrepareReplay(a)) = Link(a)
    BY <2>1, PrepareReplayQuiet, QuietCalls DEF Calls
  <2>6. Calls(b, called) /\ Link(b) = Link(a)
    BY <2>2, <2>3, <2>4, <2>5
  <2>7. HandleFault(o) = BeginReconnect(c)
    BY <1>2 DEF HandleFault, a, f
  <2> HIDE DEF b
  <2>8. /\ IsOwner(c)
        /\ c.state = "Disconnected"
        /\ c.transport = FALSE /\ c.writeBusy = FALSE
        /\ <<c.generation, c.connecting, c.terminal, c.writing, c.stuck>>
             = <<o.generation, o.connecting, o.terminal, o.writing, o.stuck>>
        /\ <<c.pending, c.result, c.scope, c.controlGeneration, c.receiveQueue>>
             = <<b.pending, b.result, b.scope, b.controlGeneration, b.receiveQueue>>
    BY <2>1, <2>6 DEF Calls, IsOwner, Link, Fields
  <2> HIDE DEF c
  <2>9. Base(c, called, done)
    <3>1. Calls(c, called)
      BY <2>6, <2>8 DEF Calls, Answers, Scoped
    <3>2. Tasks(c, done)
      BY <2>8 DEF Inv, Base, Tasks
    <3> QED BY <3>1, <3>2 DEF Base
  <2>10. c.connecting = 0 /\ c.terminal = FALSE
    BY <1>2, <2>8 DEF Inv, Linked, OpenStates
  <2> QED BY <2>7, <2>8, <2>9, <2>10, BeginReconnectInv
<1> QED BY <1>1, <1>2

\* queueControl appends a frame or fails the session when its queue is full.
LEMMA QueueControlInv ==
  ASSUME NEW o, NEW called, NEW done, NEW frame, Inv(o, called, done)
  PROVE  Inv(QueueControl(o, frame), called, done)
<1> DEFINE p == [o EXCEPT !.controlQueue = Append(@, frame)]
<1>1. Quiet(o, p)
  BY DEF Inv, Base, Calls, Quiet, IsOwner, Link, Fields
<1>2. Inv(p, called, done)
  BY <1>1, QuietInv
<1> QED BY <1>2, HandleFaultInv DEF QueueControl

\* clearPendingAcknowledgment keeps the invariant.
LEMMA ClearInv ==
  ASSUME NEW o, NEW called, NEW done, Inv(o, called, done)
  PROVE  Inv(ClearPendingAcknowledgment(o), called, done)
  BY ClearQuiet, QuietInv DEF Inv, Base, Calls

\* flushPendingAcknowledgment keeps the invariant.
LEMMA FlushInv ==
  ASSUME NEW o, NEW called, NEW done, Inv(o, called, done)
  PROVE  Inv(FlushPendingAcknowledgment(o), called, done)
  BY ClearInv, QueueControlInv DEF FlushPendingAcknowledgment

\* queueAcknowledgment keeps the invariant, in the delayed and in the immediate case.
LEMMA QueueAcknowledgmentInv ==
  ASSUME NEW o, NEW called, NEW done, NEW s, Inv(o, called, done)
  PROVE  Inv(QueueAcknowledgment(o, s), called, done)
<1> DEFINE p == [o EXCEPT !.pendingAck = s]
<1>1. Quiet(o, p)
  BY DEF Inv, Base, Calls, Quiet, IsOwner, Link, Fields
<1>2. Inv(p, called, done)
  BY <1>1, QuietInv
<1> QED BY <1>2, HandleFaultInv DEF QueueAcknowledgment

\* sendReconnect queues its frame and keeps the invariant.
LEMMA SendReconnectInv ==
  ASSUME NEW o, NEW called, NEW done, Inv(o, called, done)
  PROVE  Inv(SendReconnect(o), called, done)
<1> DEFINE p == [o EXCEPT !.controlQueue = <<>>]
<1>1. Quiet(o, p)
  BY DEF Inv, Base, Calls, Quiet, IsOwner, Link, Fields
<1>2. Inv(p, called, done)
  BY <1>1, QuietInv
<1> QED BY <1>2, QueueControlInv DEF SendReconnect

\* A new transport has a new generation and an idle write pump.
LEMMA StartTransportInv ==
  ASSUME NEW o, NEW called, NEW done, Base(o, called, done), NEW state \in OpenStates,
         o.connecting = 0, o.terminal = FALSE, o.connectPending = FALSE,
         o.writeBusy \in BOOLEAN
  PROVE  Inv(StartTransport(o, state), called, done)
<1> DEFINE p == StartTransport(o, state)
<1>1. /\ IsOwner(p)
      /\ p.state = state /\ p.transport = TRUE
      /\ p.generation = o.generation + 1
      /\ <<p.writeBusy, p.connectPending, p.terminal, p.connecting, p.writing, p.stuck>>
           = <<o.writeBusy, o.connectPending, o.terminal, o.connecting, o.writing, o.stuck>>
      /\ <<p.pending, p.result, p.scope, p.controlGeneration, p.receiveQueue>>
           = <<o.pending, o.result, o.scope, o.controlGeneration, o.receiveQueue>>
  BY DEF Base, Calls, IsOwner, Fields, StartTransport
<1> HIDE DEF p
<1>2. Calls(p, called)
  BY <1>1 DEF Base, Calls, Answers, Scoped
<1>3. Tasks(p, done)
  BY <1>1 DEF Base, Tasks
<1>4. done # p.generation /\ \A t \in p.writing : t.generation # p.generation
  BY <1>1 DEF Base, Tasks
<1>5. state # "Disconnected" /\ state # "Stopped"
  BY DEF OpenStates
<1>6. /\ p.writeBusy \in BOOLEAN /\ p.connectPending = FALSE
      /\ p.terminal = FALSE /\ p.connecting = 0
      /\ p.state = state /\ p.transport = TRUE
  BY <1>1
<1>7. 0 \in Nat
  OBVIOUS
<1>8. Linked(p, done)
  BY <1>4, <1>5, <1>6, <1>7, ZenonT(30) DEF Linked
<1> QED BY <1>2, <1>3, <1>8 DEF Inv, Base, p

\* From one state of an open transport to another.
LEMMA ReopenInv ==
  ASSUME NEW o, NEW called, NEW done, Inv(o, called, done), o.state \in OpenStates,
         NEW state \in OpenStates
  PROVE  Inv([o EXCEPT !.state = state], called, done)
<1> DEFINE p == [o EXCEPT !.state = state]
<1>1. /\ IsOwner(p)
      /\ p.state = state
      /\ p.transport = o.transport /\ p.generation = o.generation
      /\ p.writeBusy = o.writeBusy /\ p.connectPending = o.connectPending
      /\ p.terminal = o.terminal /\ p.connecting = o.connecting
      /\ p.writing = o.writing /\ p.stuck = o.stuck
      /\ <<p.pending, p.result, p.scope, p.controlGeneration, p.receiveQueue>>
           = <<o.pending, o.result, o.scope, o.controlGeneration, o.receiveQueue>>
  BY DEF Inv, Base, Calls, IsOwner, Fields
<1> HIDE DEF p
<1>2. Calls(p, called)
  BY <1>1 DEF Inv, Base, Calls, Answers, Scoped
<1>3. Tasks(p, done)
  BY <1>1 DEF Inv, Base, Tasks
<1>4. /\ state # "Disconnected" /\ state # "Stopped"
      /\ o.state # "Disconnected" /\ o.state # "Stopped"
  BY DEF OpenStates
<1>5. Linked(p, done)
  BY <1>1, <1>4, ZenonT(30) DEF Inv, Linked
<1> QED BY <1>2, <1>3, <1>5 DEF Inv, Base, p

=============================================================================
