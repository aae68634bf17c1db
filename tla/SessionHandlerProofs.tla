------------------------ MODULE SessionHandlerProofs ------------------------
(***************************************************************************)
(* The inductive invariant of module SessionOwnerProofs under the handlers *)
(* of the owner: connector answers, frames, commands, writes and dispatch. *)
(***************************************************************************)
EXTENDS SessionOwnerProofs

\* The owner between taking the answer of the connector and acting on it.
Waiting(o, called, done) ==
  /\ Base(o, called, done)
  /\ o.state = "Disconnected" /\ o.transport = FALSE /\ o.writeBusy \in BOOLEAN
  /\ o.connecting = 0 /\ o.connectPending = FALSE /\ o.terminal = FALSE

\* A connector that has answered leaves the account of calls alone.
LEMMA WaitingCalls ==
  ASSUME NEW o, NEW p, NEW called, NEW done, Waiting(o, called, done),
         Calls(p, called), Link(p) = Link(o)
  PROVE  Waiting(p, called, done)
<1>1. Tasks(p, done)
  BY LinkTasks DEF Waiting, Base
<1> QED BY <1>1 DEF Waiting, Base, Link

\* Noting that the connector has answered touches no request.
LEMMA WaitingQuiet ==
  ASSUME NEW o, NEW p, NEW called, NEW done, Waiting(o, called, done), Quiet(o, p)
  PROVE  Waiting(p, called, done)
  BY WaitingCalls, QuietCalls DEF Waiting, Base

\* handleConnected: a new transport starts with an idle write pump, a failed attempt asks the connector again or ends the session.
LEMMA HandleConnectedInv ==
  ASSUME NEW o, NEW called, NEW done, NEW outcome, Inv(o, called, done),
         o.connecting # 0
  PROVE  Inv(HandleConnected(o, outcome), called, done)
<1> DEFINE idle == [o EXCEPT !.connecting = 0]
           taken == [idle EXCEPT !.connectPending = FALSE]
           opened == [taken EXCEPT !.transitions = 0]
           fresh == [opened EXCEPT !.connectedOnce = TRUE,
                                   !.globalSeq = IF o.connectedOnce THEN @ + 1 ELSE @]
           known == IF outcome = "newIdentity" /\ o.connectedOnce
                    THEN ResetForNewIdentity(fresh) ELSE fresh
           renamed == [RefreshClientCookie(known) EXCEPT !.connectSeq = 0]
           counted == [known EXCEPT !.connectSeq = @ + 1]
<1>1. CASE o.connecting # o.generation \/ ~o.connectPending
  \* The answer comes too late: only a terminal owner does not wait for it.
  <2>1. o.terminal = TRUE
    BY <1>1 DEF Inv, Linked
  <2>2. /\ IsOwner(idle) /\ idle.connecting = 0
        /\ idle.state = o.state /\ idle.transport = o.transport
        /\ idle.generation = o.generation
        /\ idle.writeBusy = o.writeBusy /\ idle.connectPending = o.connectPending
        /\ idle.terminal = o.terminal
        /\ idle.writing = o.writing /\ idle.stuck = o.stuck
        /\ <<idle.pending, idle.result, idle.scope, idle.controlGeneration, idle.receiveQueue>>
             = <<o.pending, o.result, o.scope, o.controlGeneration, o.receiveQueue>>
    BY DEF Inv, Base, Calls, IsOwner, Fields
  <2>3. HandleConnected(o, outcome) = idle
    BY <1>1 DEF HandleConnected
  <2> HIDE DEF idle
  <2>4. Calls(idle, called)
    BY <2>2 DEF Inv, Base, Calls, Answers, Scoped
  <2>5. Tasks(idle, done)
    BY <2>2 DEF Inv, Base, Tasks
  <2>6. 0 \in Nat
    OBVIOUS
  <2>7. idle.pending = o.pending
    BY <2>2
  <2>8. Linked(idle, done)
    BY <2>1, <2>2, <2>6, <2>7, ZenonT(30) DEF Inv, Linked
  <2> QED BY <2>3, <2>4, <2>5, <2>8 DEF Inv, Base
<1>2. CASE ~(o.connecting # o.generation \/ ~o.connectPending)
  <2>1. o.state = "Disconnected" /\ o.terminal = FALSE /\ o.transport = FALSE
    BY <1>2 DEF Inv, Linked, OpenStates
  <2>2. Waiting(taken, called, done)
    <3>1. /\ IsOwner(taken) /\ taken.connecting = 0 /\ taken.connectPending = FALSE
          /\ taken.state = o.state /\ taken.transport = o.transport
          /\ taken.generation = o.generation
          /\ taken.writeBusy = o.writeBusy /\ taken.terminal = o.terminal
          /\ taken.writing = o.writing /\ taken.stuck = o.stuck
          /\ <<taken.pending, taken.result, taken.scope, taken.controlGeneration,
               taken.receiveQueue>>
               = <<o.pending, o.result, o.scope, o.controlGeneration, o.receiveQueue>>
      BY DEF Inv, Base, Calls, IsOwner, Fields
    <3> HIDE DEF taken
    <3>2. Calls(taken, called)
      BY <3>1 DEF Inv, Base, Calls, Answers, Scoped
    <3>3. Tasks(taken, done)
      BY <3>1 DEF Inv, Base, Tasks
    <3>4. o.writeBusy \in BOOLEAN
      BY DEF Inv, Linked
    <3> QED BY <2>1, <3>1, <3>2, <3>3, <3>4 DEF Waiting, Base
  <2>3. HandleConnected(o, outcome) =
          IF outcome = "failed" THEN BeginReconnect(taken)
          ELSE IF o.connectedOnce /\ o.globalSeq = MaxUint64 THEN FailTerminal(opened)
          ELSE IF outcome = "badIdentity" THEN FailTerminal(fresh)
          ELSE IF known.serverCookie = 0
          THEN QueueClientIdent(StartTransport(renamed, "Connecting"))
          ELSE IF known.connectSeq = MaxUint64 THEN FailTerminal(known)
          ELSE SendReconnect(StartTransport(counted, "Reconnecting"))
    BY <1>2 DEF HandleConnected
  <2> HIDE DEF taken
  <2>4. Waiting(opened, called, done)
    <3>1. Quiet(taken, opened)
      BY <2>2 DEF Waiting, Base, Calls, Quiet, IsOwner, Link, Fields
    <3> QED BY <2>2, <3>1, WaitingQuiet
  <2> HIDE DEF opened
  <2>5. Waiting(fresh, called, done)
    <3>1. Quiet(opened, fresh)
      BY <2>4 DEF Waiting, Base, Calls, Quiet, IsOwner, Link, Fields
    <3> QED BY <2>4, <3>1, WaitingQuiet
  <2> HIDE DEF fresh
  <2>6. Waiting(known, called, done)
    <3>1. Waiting(ResetForNewIdentity(fresh), called, done)
      BY <2>5, ResetForNewIdentityCalls, WaitingCalls DEF Waiting, Base
    <3> QED BY <2>5, <3>1
  <2> HIDE DEF known
  <2>7. Waiting(renamed, called, done)
    <3>1. Quiet(known, renamed)
      BY <2>6 DEF Waiting, Base, Calls, Quiet, IsOwner, Link, Fields, RefreshClientCookie
    <3> QED BY <2>6, <3>1, WaitingQuiet
  <2>8. Waiting(counted, called, done)
    <3>1. Quiet(known, counted)
      BY <2>6 DEF Waiting, Base, Calls, Quiet, IsOwner, Link, Fields
    <3> QED BY <2>6, <3>1, WaitingQuiet
  <2> HIDE DEF renamed, counted
  <2>9. Inv(BeginReconnect(taken), called, done)
    BY <2>2, BeginReconnectInv DEF Waiting
  <2>10. ASSUME NEW x, Waiting(x, called, done) PROVE Inv(FailTerminal(x), called, done)
    <3>1. x.connecting \in Nat
      BY <2>10 DEF Waiting
    <3> QED BY <2>10, <3>1, FailTerminalInv DEF Waiting
  <2>11. ASSUME NEW x, Waiting(x, called, done), NEW state \in OpenStates
         PROVE  Inv(StartTransport(x, state), called, done)
    BY <2>11, StartTransportInv DEF Waiting
  <2>12. "Connecting" \in OpenStates /\ "Reconnecting" \in OpenStates
    BY DEF OpenStates
  <2>13. Inv(QueueClientIdent(StartTransport(renamed, "Connecting")), called, done)
    BY <2>7, <2>11, <2>12, QueueControlInv DEF QueueClientIdent
  <2>14. Inv(SendReconnect(StartTransport(counted, "Reconnecting")), called, done)
    BY <2>8, <2>11, <2>12, SendReconnectInv
  <2> QED BY <2>3, <2>4, <2>5, <2>6, <2>9, <2>10, <2>13, <2>14
<1> QED BY <1>1, <1>2

\* A message completes at most the request it answers, and what nobody asked for
\* waits under the generation of its transport.
LEMMA HandleMessageInv ==
  ASSUME NEW o, NEW called, NEW done, NEW frame, Inv(o, called, done)
  PROVE  Inv(HandleMessage(o, frame), called, done)
<1> DEFINE seen == [o EXCEPT !.lastInbound = frame.sequence]
           trimmed == TrimReplay(seen, frame.ack)
           r == CHOOSE r \in Answered(o, frame.transaction) : TRUE
           settled == Settle(trimmed, r, Success(frame.payload))
           acked == QueueAcknowledgment(trimmed, frame.sequence)
           queued == [acked EXCEPT !.receiveQueue = Append(@, o.controlGeneration)]
<1>1. HandleMessage(o, frame) =
        IF ~AcceptsAcknowledgment(o, frame.ack) THEN HandleFault(o)
        ELSE IF frame.sequence <= o.lastInbound THEN o
        ELSE IF Answered(o, frame.transaction) # {}
        THEN QueueAcknowledgment(settled, frame.sequence)
        ELSE IF acked.controlGeneration # o.controlGeneration THEN acked
        ELSE IF Len(acked.receiveQueue) >= MaxQueuedMessages THEN FailTerminal(acked)
        ELSE queued
  BY DEF HandleMessage
<1>2. Quiet(o, seen)
  BY DEF Inv, Base, Calls, Quiet, IsOwner, Link, Fields
<1> HIDE DEF seen
<1>3. Quiet(seen, trimmed)
  BY <1>2, TrimReplayQuiet DEF Quiet
<1> HIDE DEF trimmed
<1>4. Inv(trimmed, called, done) /\ trimmed.pending = o.pending
  BY <1>2, <1>3, QuietInv DEF Quiet
<1>5. ASSUME Answered(o, frame.transaction) # {}
      PROVE  Inv(QueueAcknowledgment(settled, frame.sequence), called, done)
  <2>1. r \in trimmed.pending
    BY <1>4, <1>5 DEF Answered
  <2> HIDE DEF r
  <2>2. Inv(settled, called, done)
    BY <1>4, <2>1, SettleCalls, LinkInv DEF Inv, Base
  <2> QED BY <2>2, QueueAcknowledgmentInv
<1> HIDE DEF settled
<1>6. Inv(acked, called, done)
  BY <1>4, QueueAcknowledgmentInv
<1> HIDE DEF acked
<1>7. Inv(FailTerminal(acked), called, done)
  BY <1>6, FailTerminalAlways
<1>8. ASSUME acked.controlGeneration = o.controlGeneration
      PROVE  Inv(queued, called, done)
  <2>1. /\ IsOwner(queued) /\ Link(queued) = Link(acked)
        /\ queued.receiveQueue = Append(acked.receiveQueue, o.controlGeneration)
        /\ <<queued.pending, queued.result, queued.scope, queued.controlGeneration>>
             = <<acked.pending, acked.result, acked.scope, acked.controlGeneration>>
    BY <1>6 DEF Inv, Base, Calls, IsOwner, Link, Fields
  <2> HIDE DEF queued
  <2>2. Calls(queued, called)
    BY <1>6, <1>8, <2>1 DEF Inv, Base, Calls, Answers, Scoped
  <2> QED BY <1>6, <2>1, <2>2, LinkInv
<1> QED BY <1>1, <1>5, <1>6, <1>7, <1>8, HandleFaultInv

\* handleReset: replay or failure of the requests, and the new identity on the same transport.
LEMMA HandleResetInv ==
  ASSUME NEW o, NEW called, NEW done, NEW full, Inv(o, called, done), o.state \in OpenStates
  PROVE  Inv(HandleReset(o, full), called, done)
<1> DEFINE a == InvalidateControls(ClearPendingAcknowledgment(o))
           cleared == [a EXCEPT !.serverCookie = 0, !.lossy = FALSE,
                                !.connectSeq = 0, !.lastInbound = 0]
           named == RefreshClientCookie(cleared)
           fresh == [named EXCEPT !.nextOutbound = 1, !.sequenceExhausted = FALSE,
                                  !.nextTID = 1, !.tidExhausted = FALSE]
           settled == IF full THEN FailAll(fresh, "disconnected") ELSE PrepareReplay(cleared)
           p == [settled EXCEPT !.state = "Connecting"]
<1>1. HandleReset(o, full) = QueueClientIdent(p)
  BY DEF HandleReset
<1>2. Inv(a, called, done) /\ Link(a) = Link(o)
  <2>1. Inv(ClearPendingAcknowledgment(o), called, done)
        /\ Link(ClearPendingAcknowledgment(o)) = Link(o)
    BY ClearInv, ClearQuiet DEF Inv, Base, Calls, Quiet
  <2> QED BY <2>1, InvalidateControlsCalls, LinkInv DEF Inv, Base
<1> HIDE DEF a
<1>3. Quiet(a, cleared)
  BY <1>2 DEF Inv, Base, Calls, Quiet, IsOwner, Link, Fields
<1>4. Inv(cleared, called, done) /\ Link(cleared) = Link(o)
  BY <1>2, <1>3, QuietInv DEF Quiet
<1> HIDE DEF cleared
<1>5. Quiet(cleared, named)
  BY <1>4 DEF Inv, Base, Calls, Quiet, IsOwner, Link, Fields, RefreshClientCookie
<1>6. Inv(named, called, done) /\ Link(named) = Link(o)
  BY <1>4, <1>5, QuietInv DEF Quiet
<1> HIDE DEF named
<1>7. Quiet(named, fresh)
  BY <1>6 DEF Inv, Base, Calls, Quiet, IsOwner, Link, Fields
<1>8. Inv(fresh, called, done) /\ Link(fresh) = Link(o)
  BY <1>6, <1>7, QuietInv DEF Quiet
<1> HIDE DEF fresh
<1>9. Inv(settled, called, done) /\ Link(settled) = Link(o)
  <2>1. /\ Inv(FailAll(fresh, "disconnected"), called, done)
        /\ Link(FailAll(fresh, "disconnected")) = Link(o)
    <3>1. /\ Calls(FailAll(fresh, "disconnected"), called)
          /\ Link(FailAll(fresh, "disconnected")) = Link(fresh)
          /\ FailAll(fresh, "disconnected").pending \subseteq fresh.pending
      BY <1>8, FailAllCalls DEF Inv, Base
    <3> QED BY <1>8, <3>1, LinkInv
  <2>2. Quiet(cleared, PrepareReplay(cleared))
    BY <1>4, PrepareReplayQuiet DEF Inv, Base, Calls
  <2>3. Inv(PrepareReplay(cleared), called, done) /\ Link(PrepareReplay(cleared)) = Link(o)
    BY <1>4, <2>2, QuietInv DEF Quiet
  <2> QED BY <2>1, <2>3
<1> HIDE DEF settled
<1>10. settled.state \in OpenStates /\ "Connecting" \in OpenStates
  BY <1>9 DEF Link, OpenStates
<1>11. Inv(p, called, done)
  BY <1>9, <1>10, ReopenInv
<1> QED BY <1>1, <1>11, QueueControlInv DEF QueueClientIdent

\* The control frames that handleControl accepts in state Ready.
LEMMA HandleReadyControlInv ==
  ASSUME NEW o, NEW called, NEW done, NEW frame, Inv(o, called, done),
         frame.tag \in ReadyTags
  PROVE  Inv(HandleReadyControl(o, frame), called, done)
<1>1. Inv(HandleFault(o), called, done)
  BY HandleFaultInv
<1>2. Inv(HandleMessage(o, frame), called, done)
  BY HandleMessageInv
<1>3. Inv(TrimReplay(o, frame.sequence), called, done)
  BY TrimReplayQuiet, QuietInv DEF Inv, Base, Calls
<1>4. Inv(QueueControl(o, [NoFrame EXCEPT !.tag = "Keepalive2Ack"]), called, done)
  BY QueueControlInv
<1> QED BY <1>1, <1>2, <1>3, <1>4 DEF HandleReadyControl, ReadyTags

\* The answers to SessionReconnect in handleControl: ok, retry, retry global, reset and wait.
LEMMA HandleReconnectControlInv ==
  ASSUME NEW o, NEW called, NEW done, NEW frame, Inv(o, called, done),
         frame.tag \in ReconnectTags
  PROVE  Inv(HandleReconnectControl(o, frame), called, done)
<1> DEFINE counted == [o EXCEPT !.transitions = @ + 1]
           latest == IF frame.sequence > o.globalSeq THEN frame.sequence ELSE o.globalSeq
           retry == [counted EXCEPT !.connectSeq = frame.connect + 1]
           global == [counted EXCEPT !.globalSeq = latest + 1]
           ready == PrepareReplay(TrimReplay(counted, frame.sequence))
           reset == [ready EXCEPT !.reconnectAttempts = 0]
           joined == [ready EXCEPT !.reconnectAttempts = 0, !.state = "Ready"]
<1>1. CASE o.state # "Reconnecting"
  BY <1>1, HandleFaultInv DEF HandleReconnectControl
<1>2. CASE o.state = "Reconnecting"
  <2>1. HandleReconnectControl(o, frame) =
          IF counted.transitions > MaxHandshakeTransitions THEN HandleFault(counted)
          ELSE CASE frame.tag = "SessionReset" -> HandleReset(counted, FALSE)
                 [] frame.tag = "SessionResetFull" -> HandleReset(counted, TRUE)
                 [] frame.tag = "SessionRetry" ->
                      IF frame.connect = MaxUint64 THEN FailTerminal(counted)
                      ELSE SendReconnect(retry)
                 [] frame.tag = "SessionRetryGlobal" ->
                      IF latest = MaxUint64 THEN FailTerminal(counted)
                      ELSE SendReconnect(global)
                 [] frame.tag = "SessionReconnectOK" ->
                      IF ~AcceptsAcknowledgment(o, frame.sequence) THEN HandleFault(counted)
                      ELSE joined
    BY <1>2 DEF HandleReconnectControl
  <2>2. Quiet(o, counted)
    BY DEF Inv, Base, Calls, Quiet, IsOwner, Link, Fields
  <2>3. Inv(counted, called, done) /\ counted.state \in OpenStates /\ Link(counted) = Link(o)
    BY <1>2, <2>2, QuietInv DEF Quiet, Link, OpenStates
  <2> HIDE DEF counted, latest
  <2>4. Inv(HandleFault(counted), called, done) /\ Inv(FailTerminal(counted), called, done)
    BY <2>3, HandleFaultInv, FailTerminalAlways
  <2>5. /\ Inv(HandleReset(counted, FALSE), called, done)
        /\ Inv(HandleReset(counted, TRUE), called, done)
    BY <2>3, HandleResetInv
  <2>6. Inv(SendReconnect(retry), called, done)
    <3>1. Quiet(counted, retry)
      BY <2>3 DEF Inv, Base, Calls, Quiet, IsOwner, Link, Fields
    <3> HIDE DEF retry
    <3> QED BY <2>3, <3>1, QuietInv, SendReconnectInv
  <2>7. Inv(SendReconnect(global), called, done)
    <3>1. Quiet(counted, global)
      BY <2>3 DEF Inv, Base, Calls, Quiet, IsOwner, Link, Fields
    <3> HIDE DEF global
    <3> QED BY <2>3, <3>1, QuietInv, SendReconnectInv
  <2>8. Inv(joined, called, done)
    <3>1. Quiet(counted, TrimReplay(counted, frame.sequence))
      BY <2>3, TrimReplayQuiet DEF Inv, Base, Calls
    <3>2. Quiet(TrimReplay(counted, frame.sequence), ready)
      BY <3>1, PrepareReplayQuiet DEF Quiet
    <3>3. Inv(ready, called, done) /\ Link(ready) = Link(o)
      BY <2>3, <3>1, <3>2, QuietInv DEF Quiet
    <3> HIDE DEF ready
    <3>4. Quiet(ready, reset)
      BY <3>3 DEF Inv, Base, Calls, Quiet, IsOwner, Link, Fields
    <3>5. Inv(reset, called, done) /\ reset.state \in OpenStates /\ "Ready" \in OpenStates
      BY <1>2, <3>3, <3>4, QuietInv DEF Quiet, Link, OpenStates
    <3>6. joined = [reset EXCEPT !.state = "Ready"]
      BY <3>3 DEF Inv, Base, Calls, IsOwner
    <3> HIDE DEF reset, joined
    <3> QED BY <3>5, <3>6, ReopenInv
  <2> HIDE DEF retry, global, joined
  <2> QED BY <2>1, <2>4, <2>5, <2>6, <2>7, <2>8 DEF ReconnectTags
<1> QED BY <1>1, <1>2

\* The ServerIdent case of handleControl: the session becomes ready or ends.
LEMMA HandleServerIdentInv ==
  ASSUME NEW o, NEW called, NEW done, NEW frame, Inv(o, called, done)
  PROVE  Inv(HandleServerIdent(o, frame), called, done)
<1> DEFINE counted == [o EXCEPT !.transitions = @ + 1]
           identified == [counted EXCEPT !.serverCookie = frame.cookie,
                                         !.lossy = frame.tag = "ServerIdentLossy",
                                         !.reconnectAttempts = 0]
           settled == FailSentUnknown(identified, "disconnected")
           joined == [settled EXCEPT !.state = "Ready"]
<1>1. CASE o.state # "Connecting"
  BY <1>1, HandleFaultInv DEF HandleServerIdent
<1>2. CASE o.state = "Connecting"
  <2>1. HandleServerIdent(o, frame) =
          IF counted.transitions > MaxHandshakeTransitions THEN HandleFault(counted)
          ELSE CASE frame.tag = "ServerIdentFeatures" -> FailTerminal(counted)
                 [] frame.tag = "ServerIdentAddress" -> HandleFault(counted)
                 [] OTHER -> joined
    BY <1>2 DEF HandleServerIdent
  <2>2. Quiet(o, counted)
    BY DEF Inv, Base, Calls, Quiet, IsOwner, Link, Fields
  <2>3. Inv(counted, called, done) /\ Link(counted) = Link(o)
    BY <2>2, QuietInv DEF Quiet
  <2> HIDE DEF counted
  <2>4. Inv(HandleFault(counted), called, done) /\ Inv(FailTerminal(counted), called, done)
    BY <2>3, HandleFaultInv, FailTerminalAlways
  <2>5. Quiet(counted, identified)
    BY <2>3 DEF Inv, Base, Calls, Quiet, IsOwner, Link, Fields
  <2>6. Inv(identified, called, done) /\ Link(identified) = Link(o)
    BY <2>3, <2>5, QuietInv DEF Quiet
  <2> HIDE DEF identified
  <2>7. /\ Calls(settled, called) /\ Link(settled) = Link(o)
        /\ settled.pending \subseteq identified.pending
    BY <2>6, FailSentUnknownCalls DEF Inv, Base
  <2>8. Inv(settled, called, done)
    BY <2>6, <2>7, LinkInv
  <2> HIDE DEF settled
  <2>9. settled.state \in OpenStates /\ "Ready" \in OpenStates
    BY <1>2, <2>7 DEF Link, OpenStates
  <2>10. Inv(joined, called, done)
    BY <2>8, <2>9, ReopenInv
  <2> HIDE DEF joined
  <2> QED BY <2>1, <2>4, <2>10
<1> QED BY <1>1, <1>2

\* handleFrame keeps the invariant for every frame a peer can send.
LEMMA HandleFrameInv ==
  ASSUME NEW o, NEW called, NEW done, NEW frame, Inv(o, called, done), frame.tag \in Tags
  PROVE  Inv(HandleFrame(o, frame), called, done)
<1> DEFINE counted == [o EXCEPT !.transitions = @ + 1]
<1>1. CASE frame.tag \in ReadyTags
  BY <1>1, HandleReadyControlInv DEF HandleFrame, ReadyTags, ReconnectTags, IdentTags
<1>2. CASE frame.tag \in ReconnectTags
  BY <1>2, HandleReconnectControlInv DEF HandleFrame, ReadyTags, ReconnectTags, IdentTags
<1>3. CASE frame.tag \in IdentTags
  BY <1>3, HandleServerIdentInv DEF HandleFrame, ReadyTags, ReconnectTags, IdentTags
<1>4. CASE frame.tag = "Wait"
  <2>1. Inv(counted, called, done)
    <3>1. Quiet(o, counted)
      BY DEF Inv, Base, Calls, Quiet, IsOwner, Link, Fields
    <3> QED BY <3>1, QuietInv
  <2>2. HandleFrame(o, frame) =
          HandleFault(IF o.state \in {"Connecting", "Reconnecting"} THEN counted ELSE o)
    BY <1>4 DEF HandleFrame, ReadyTags, ReconnectTags, IdentTags
  <2> HIDE DEF counted
  <2> QED BY <2>1, <2>2, HandleFaultInv
<1>5. CASE frame.tag \in {"Malformed", "Error"}
  <2>1. HandleFrame(o, frame) = HandleFault(o)
    BY <1>5 DEF HandleFrame, ReadyTags, ReconnectTags, IdentTags
  <2> QED BY <2>1, HandleFaultInv
<1>6. CASE frame.tag \in {"OverBudget", "IdentMissingFeatures"}
  <2>1. HandleFrame(o, frame) = FailTerminal(o)
    BY <1>6 DEF HandleFrame, ReadyTags, ReconnectTags, IdentTags
  <2> QED BY <2>1, FailTerminalAlways
<1> HIDE DEF counted
<1>7. \/ frame.tag \in ReadyTags \/ frame.tag \in ReconnectTags \/ frame.tag \in IdentTags
      \/ frame.tag = "Wait" \/ frame.tag \in {"Malformed", "Error"}
      \/ frame.tag \in {"OverBudget", "IdentMissingFeatures"}
  BY DEF Tags
<1> QED BY <1>1, <1>2, <1>3, <1>4, <1>5, <1>6, <1>7

-----------------------------------------------------------------------------
\* The owner answers the one command it refuses, and admits a control only under
\* the current generation.
LEMMA SubmitInv ==
  ASSUME NEW o, NEW called, NEW done, NEW kind, NEW scope, NEW tid, NEW gone,
         NEW r \in Requests \ called, Inv(o, called, done), o.state # "Stopped"
  PROVE  Inv(Submit(o, r, kind, scope, tid, gone), called \cup {r}, done)
<1> DEFINE Refused(err) == [o EXCEPT !.result[r] = Append(@, Failure(err))]
           Admitted(p, t) == [p EXCEPT
             !.pending = @ \cup {r},
             !.kind[r] = kind,
             !.scope[r] = scope,
             !.tid[r] = t,
             !.controlCount = IF kind = "control" THEN @ + 1 ELSE @,
             !.retainedBytes = IF kind = "control" THEN @ ELSE @ + 1]
           failed == FailTerminal([o EXCEPT !.tidExhausted = TRUE, !.nextTID = 0])
           last == [failed EXCEPT !.result[r] = Append(@, Failure("terminal"))]
           open == ~(scope # 0 /\ scope # o.controlGeneration) /\ ~o.terminal
<1>1. \/ \E err : Submit(o, r, kind, scope, tid, gone) = Refused(err)
      \/ open /\ Submit(o, r, kind, scope, tid, gone) = Admitted(o, tid)
      \/ open /\ Submit(o, r, kind, scope, tid, gone) = Admitted(TakeTID(o), TakenTID(o))
      \/ Submit(o, r, kind, scope, tid, gone) = last
  BY DEF Submit
<1>2. ASSUME NEW p, Inv(p, called, done), NEW x,
             NEW q, q = [p EXCEPT !.result[r] = Append(@, x)]
      PROVE  Inv(q, called \cup {r}, done)
  <2>1. /\ IsOwner(q) /\ Link(q) = Link(p)
        /\ q.result = [p.result EXCEPT ![r] = Append(@, x)]
        /\ <<q.pending, q.scope, q.controlGeneration, q.receiveQueue>>
             = <<p.pending, p.scope, p.controlGeneration, p.receiveQueue>>
    BY <1>2 DEF Inv, Base, Calls, IsOwner, Link, Fields
  <2>2. Answers(q, called \cup {r})
    BY <1>2, <2>1, AppendEmpty DEF Inv, Base, Calls, Answers
  <2>3. Scoped(q)
    BY <1>2, <2>1 DEF Inv, Base, Calls, Scoped
  <2>4. Tasks(q, done)
    BY <1>2, <2>1, LinkTasks DEF Inv, Base
  <2>5. Linked(q, done)
    BY <1>2, <2>1 DEF Inv, Linked, Link
  <2> QED BY <2>1, <2>2, <2>3, <2>4, <2>5 DEF Inv, Base, Calls
<1>3. ASSUME NEW p, Inv(p, called, done), NEW t, ~p.terminal, p.state # "Stopped",
             scope \in {0, p.controlGeneration},
             NEW q, q = Admitted(p, t)
      PROVE  Inv(q, called \cup {r}, done)
  <2>1. /\ IsOwner(q)
        /\ Link(q) = Link(p)
        /\ q.pending = p.pending \cup {r}
        /\ q.scope = [p.scope EXCEPT ![r] = scope]
        /\ <<q.result, q.controlGeneration, q.receiveQueue>>
             = <<p.result, p.controlGeneration, p.receiveQueue>>
    BY <1>3 DEF Inv, Base, Calls, IsOwner, Link, Fields
  <2>2. Answers(q, called \cup {r})
    BY <1>3, <2>1 DEF Inv, Base, Calls, Answers
  <2>3. Scoped(q)
    BY <1>3, <2>1 DEF Inv, Base, Calls, Answers, Scoped
  <2>4. Tasks(q, done)
    BY <1>3, <2>1, LinkTasks DEF Inv, Base
  <2>5. Linked(q, done)
    BY <1>3, <2>1 DEF Inv, Linked, Link
  <2> QED BY <2>1, <2>2, <2>3, <2>4, <2>5 DEF Inv, Base, Calls
<1> HIDE DEF Refused, Admitted
<1>4. CASE \E err : Submit(o, r, kind, scope, tid, gone) = Refused(err)
  <2>1. PICK err : Submit(o, r, kind, scope, tid, gone) = Refused(err)
    BY <1>4
  <2>2. Inv(Refused(err), called \cup {r}, done)
    BY <1>2 DEF Refused
  <2> QED BY <2>1, <2>2
<1>5. ASSUME open PROVE ~o.terminal /\ scope \in {0, o.controlGeneration}
  BY <1>5
<1>6. CASE open /\ Submit(o, r, kind, scope, tid, gone) = Admitted(o, tid)
  BY <1>3, <1>5, <1>6
<1>7. CASE open /\ Submit(o, r, kind, scope, tid, gone) = Admitted(TakeTID(o), TakenTID(o))
  <2>1. Quiet(o, TakeTID(o))
    BY DEF Inv, Base, Calls, Quiet, IsOwner, Link, Fields, TakeTID
  <2>2. /\ Inv(TakeTID(o), called, done)
        /\ ~TakeTID(o).terminal /\ TakeTID(o).state # "Stopped"
        /\ scope \in {0, TakeTID(o).controlGeneration}
    BY <1>5, <1>7, <2>1, QuietInv DEF Quiet, Link
  <2> QED BY <1>3, <1>7, <2>2
<1>8. CASE Submit(o, r, kind, scope, tid, gone) = last
  <2> DEFINE p == [o EXCEPT !.tidExhausted = TRUE, !.nextTID = 0]
  <2>1. Quiet(o, p)
    BY DEF Inv, Base, Calls, Quiet, IsOwner, Link, Fields
  <2>2. Inv(failed, called, done)
    BY <2>1, QuietInv, FailTerminalAlways
  <2> HIDE DEF failed
  <2> QED BY <1>2, <1>8, <2>2
<1> QED BY <1>1, <1>4, <1>6, <1>7, <1>8

\* cancel settles the request once, whether or not it was sent.
LEMMA CancelInv ==
  ASSUME NEW o, NEW called, NEW done, NEW r, Inv(o, called, done)
  PROVE  Inv(Cancel(o, r), called, done)
<1>1. ASSUME r \in o.pending, NEW x PROVE Inv(Settle(o, r, x), called, done)
  BY <1>1, SettleCalls, LinkInv DEF Inv, Base
<1> QED BY <1>1 DEF Cancel

\* Stop leaves no transport, no request and no work with the pumps.
LEMMA StopInv ==
  ASSUME NEW o, NEW called, NEW done, Inv(o, called, done)
  PROVE  Inv(Stop(o), called, -1)
<1> DEFINE a == InvalidateControls(o)
           b == [a EXCEPT !.state = "Stopped"]
           c == FailAll(b, "closed")
           p == [c EXCEPT !.transport = FALSE, !.renewalArmed = FALSE, !.connecting = 0,
                          !.writing = {}, !.pendingAck = 0]
<1>1. Calls(a, called) /\ Link(a) = Link(o)
  BY InvalidateControlsCalls DEF Inv, Base
<1>2. Stop(o) = p
  BY DEF Stop
<1> HIDE DEF a
<1>3. /\ IsOwner(b) /\ b.state = "Stopped"
      /\ b.writeBusy = o.writeBusy /\ b.connectPending = o.connectPending
      /\ b.terminal = o.terminal /\ b.generation = o.generation /\ b.stuck = o.stuck
      /\ <<b.pending, b.result, b.scope, b.controlGeneration, b.receiveQueue>>
           = <<a.pending, a.result, a.scope, a.controlGeneration, a.receiveQueue>>
  BY <1>1 DEF Calls, IsOwner, Link, Fields
<1>4. Calls(b, called)
  BY <1>1, <1>3 DEF Calls, Answers, Scoped
<1> HIDE DEF b
<1>5. Calls(c, called) /\ Link(c) = Link(b) /\ c.pending = {}
  BY <1>4, FailAllCalls
<1> HIDE DEF c
<1>6. /\ IsOwner(p) /\ p.state = c.state /\ p.transport = FALSE
      /\ p.connecting = 0 /\ p.writing = {}
      /\ p.writeBusy = c.writeBusy /\ p.connectPending = c.connectPending
      /\ p.terminal = c.terminal /\ p.generation = c.generation /\ p.stuck = c.stuck
      /\ <<p.pending, p.result, p.scope, p.controlGeneration, p.receiveQueue>>
           = <<c.pending, c.result, c.scope, c.controlGeneration, c.receiveQueue>>
  BY <1>5 DEF Calls, IsOwner, Fields
<1> HIDE DEF p
<1>7. Calls(p, called)
  BY <1>5, <1>6 DEF Calls, Answers, Scoped
<1>8. /\ p.writeBusy = o.writeBusy /\ p.connectPending = o.connectPending
      /\ p.terminal = o.terminal /\ p.generation = o.generation /\ p.stuck = o.stuck
      /\ p.state = "Stopped" /\ p.pending = {}
  BY <1>3, <1>5, <1>6 DEF Link
<1>9. Tasks(p, -1)
  BY <1>6, <1>8 DEF Inv, Base, Tasks
<1>10. -1 # p.generation /\ 0 \in Nat
  BY <1>9 DEF Tasks
<1>11. "Stopped" \notin OpenStates /\ "Stopped" # "Disconnected"
  BY DEF OpenStates
<1>12. /\ o.writeBusy \in BOOLEAN /\ o.terminal \in BOOLEAN /\ o.connectPending \in BOOLEAN
       /\ o.terminal = TRUE => o.connectPending = FALSE
  BY DEF Inv, Linked
<1>13. Linked(p, -1)
  BY <1>6, <1>8, <1>10, <1>11, <1>12, ZenonT(30) DEF Linked
<1> QED BY <1>2, <1>7, <1>9, <1>13 DEF Inv, Base

-----------------------------------------------------------------------------
\* The write pump of the transport waits for a task while the owner is not busy.
LEMMA SendWriteInv ==
  ASSUME NEW o, NEW called, NEW done, NEW request, NEW frame, Inv(o, called, done),
         o.writeBusy = FALSE
  PROVE  Inv(SendWrite(o, request, frame), called, done)
<1> DEFINE p == SendWrite(o, request, frame)
           task == [generation |-> o.generation, request |-> request, frame |-> frame]
<1>1. /\ done # o.generation /\ \A t \in o.writing : t.generation # o.generation
      /\ o.stuck = FALSE
  BY DEF Inv, Base, Tasks, Linked
<1>2. /\ IsOwner(p) /\ p.writeBusy = TRUE
      /\ p.writing = o.writing \cup {task}
      /\ p.state = o.state /\ p.transport = o.transport /\ p.generation = o.generation
      /\ p.connectPending = o.connectPending /\ p.terminal = o.terminal
      /\ p.connecting = o.connecting /\ p.pending = o.pending
      /\ <<p.result, p.scope, p.controlGeneration, p.receiveQueue>>
           = <<o.result, o.scope, o.controlGeneration, o.receiveQueue>>
  BY DEF Inv, Base, Calls, IsOwner, Fields, SendWrite
<1>3. p.stuck = FALSE
  BY <1>1 DEF Inv, Base, Calls, IsOwner, Fields, SendWrite
<1>4. task.generation = o.generation
  OBVIOUS
<1> HIDE DEF p, task
<1>5. Calls(p, called)
  BY <1>2 DEF Inv, Base, Calls, Answers, Scoped
<1>6. Tasks(p, done)
  BY <1>1, <1>2, <1>3, <1>4 DEF Inv, Base, Tasks
<1>7. Linked(p, done)
  BY <1>2, ZenonT(30) DEF Inv, Linked
<1> QED BY <1>5, <1>6, <1>7 DEF Inv, Base, p

\* The end of dispatch: the request gets its sequence and goes to the idle write pump.
LEMMA WriteRequestInv ==
  ASSUME NEW o, NEW called, NEW done, NEW r, Inv(o, called, done), o.writeBusy = FALSE
  PROVE  Inv(WriteRequest(o, r), called, done)
<1> DEFINE allocated == AllocateSequence(o)
           numbered == IF o.seq[r] # 0 THEN o
                       ELSE [allocated EXCEPT !.seq[r] = NextSequence(o)]
           cleared == ClearPendingAcknowledgment(numbered)
           counted == [cleared EXCEPT
                        !.inFlight = IF IsControl(o, r) THEN @ ELSE @ + 1,
                        !.sent = @ \cup {r},
                        !.mayHaveExecuted = @ \cup {r},
                        !.handed = @ \cup {r},
                        !.wire = Append(@, [request |-> r, sequence |-> numbered.seq[r]])]
           marked == AddReplay(counted, r)
           frame == [NoFrame EXCEPT !.tag = "Message", !.sequence = marked.seq[r],
                        !.transaction = o.tid[r], !.ack = o.lastInbound, !.payload = r]
<1>1. WriteRequest(o, r) = SendWrite(marked, r, frame)
  BY DEF WriteRequest
<1> HIDE DEF frame
<1>2. Quiet(o, allocated)
  BY DEF Inv, Base, Calls, Quiet, IsOwner, Link, Fields, AllocateSequence
<1> HIDE DEF allocated
<1>3. Quiet(o, numbered)
  BY <1>2 DEF Inv, Base, Calls, Quiet, IsOwner, Link, Fields
<1> HIDE DEF numbered
<1>4. Quiet(o, cleared)
  BY <1>3, ClearQuiet DEF Quiet
<1> HIDE DEF cleared
<1>5. Quiet(cleared, counted)
  BY <1>4 DEF Quiet, IsOwner, Link, Fields
<1> HIDE DEF counted
<1>6. Quiet(counted, marked)
  BY <1>5 DEF Quiet, IsOwner, Link, Fields, AddReplay
<1> HIDE DEF marked
<1>7. Quiet(o, marked)
  BY <1>4, <1>5, <1>6 DEF Quiet
<1>8. Inv(marked, called, done) /\ marked.writeBusy = FALSE
  BY <1>7, QuietInv DEF Quiet, Link
<1> QED BY <1>1, <1>8, SendWriteInv

\* dispatch of a request: a done context or an exhausted sequence settles it, else it is written.
LEMMA DispatchRequestInv ==
  ASSUME NEW o, NEW called, NEW done, NEW gone, Inv(o, called, done), o.writeBusy = FALSE
  PROVE  Inv(DispatchRequest(o, gone), called, done)
<1> DEFINE next == NextPendingWrite(o)
           r == CHOOSE r \in next : TRUE
           renewed == [o EXCEPT !.renewalPending = FALSE]
<1>1. next \subseteq o.pending
  BY DEF NextPendingWrite
<1>2. Inv(HandleFault(renewed), called, done)
  <2>1. Quiet(o, renewed)
    BY DEF Inv, Base, Calls, Quiet, IsOwner, Link, Fields
  <2> HIDE DEF renewed
  <2> QED BY <2>1, QuietInv, HandleFaultInv
<1>3. ASSUME next # {}, NEW x PROVE Inv(Settle(o, r, x), called, done)
  <2>1. r \in o.pending
    BY <1>1, <1>3
  <2> HIDE DEF r
  <2> QED BY <2>1, SettleCalls, LinkInv DEF Inv, Base
<1>4. /\ Inv(Cancel(o, r), called, done)
      /\ Inv(FailTerminal(o), called, done)
      /\ Inv(WriteRequest(o, r), called, done)
  BY CancelInv, FailTerminalAlways, WriteRequestInv
<1>5. DispatchRequest(o, gone) =
        IF RenewalHolds(o)
        THEN IF o.inFlight = 0 THEN HandleFault(renewed) ELSE o
        ELSE IF next = {} THEN o
        ELSE IF o.scope[r] # 0 /\ o.scope[r] # o.controlGeneration
        THEN Settle(o, r, Failure("invalidated"))
        ELSE IF ~IsControl(o, r) /\ o.inFlight >= MaxInFlightTransactions THEN o
        ELSE IF r \in gone
        THEN IF IsControl(o, r) THEN Cancel(o, r) ELSE Settle(o, r, Failure("canceled"))
        ELSE IF o.seq[r] = 0 /\ o.sequenceExhausted THEN FailTerminal(o)
        ELSE WriteRequest(o, r)
  BY DEF DispatchRequest
<1> HIDE DEF next, r, renewed
<1> QED BY <1>2, <1>3, <1>4, <1>5

\* dispatch keeps the invariant whatever it chooses: nothing, a control frame, a request or a renewal.
LEMMA DispatchInv ==
  ASSUME NEW o, NEW called, NEW done, NEW gone, Inv(o, called, done)
  PROVE  Inv(Dispatch(o, gone), called, done)
<1> DEFINE flushed == IF o.renewalPending /\ o.inFlight = 0
                      THEN FlushPendingAcknowledgment(o) ELSE o
           taken == [flushed EXCEPT !.controlQueue = Tail(@)]
<1>1. CASE o.writeBusy \/ ~o.transport \/ o.state \in {"Disconnected", "Stopped"}
  BY <1>1 DEF Dispatch
<1>2. CASE ~(o.writeBusy \/ ~o.transport \/ o.state \in {"Disconnected", "Stopped"})
  <2>1. Inv(flushed, called, done)
    BY FlushInv
  <2>2. flushed.writeBusy = FALSE
    <3> DEFINE cleared == ClearPendingAcknowledgment(o)
               frame == AckFrame(o.pendingAck)
    <3>1. o.writeBusy = FALSE
      BY <1>2 DEF Inv, Linked
    <3>2. Quiet(o, cleared)
      BY ClearQuiet DEF Inv, Base, Calls
    <3>3. Inv(cleared, called, done) /\ cleared.writeBusy = FALSE
      BY <3>1, <3>2, QuietInv DEF Quiet, Link
    <3> HIDE DEF cleared, frame
    <3>4. QueueControl(cleared, frame).writeBusy = FALSE
      <4>1. [cleared EXCEPT !.controlQueue = Append(@, frame)].writeBusy = FALSE
        BY <3>3 DEF Inv, Base, Calls, IsOwner, Fields
      <4> QED BY <3>3, <4>1, HandleFaultInv DEF QueueControl
    <3> QED BY <3>1, <3>4 DEF FlushPendingAcknowledgment, cleared, frame
  <2>3. Dispatch(o, gone) =
          IF flushed.controlQueue # <<>> THEN SendWrite(taken, 0, Head(flushed.controlQueue))
          ELSE IF flushed.state # "Ready" THEN flushed
          ELSE DispatchRequest(flushed, gone)
    BY <1>2 DEF Dispatch
  <2> HIDE DEF flushed
  <2>4. Quiet(flushed, taken)
    BY <2>1 DEF Inv, Base, Calls, Quiet, IsOwner, Link, Fields
  <2>5. Inv(taken, called, done) /\ taken.writeBusy = FALSE
    BY <2>1, <2>2, <2>4, QuietInv DEF Quiet, Link
  <2> HIDE DEF taken
  <2> QED BY <2>1, <2>2, <2>3, <2>5, SendWriteInv, DispatchRequestInv
<1> QED BY <1>1, <1>2

\* Taking the result of a write leaves the channel empty; a result of an older
\* transport changes nothing else.
LEMMA HandleWrittenInv ==
  ASSUME NEW o, NEW called, NEW w, Inv(o, called, w.generation)
  PROVE  Inv(HandleWritten(o, w), called, -1)
<1> DEFINE idle == [o EXCEPT !.writeBusy = FALSE]
<1>1. CASE w.generation # o.generation
  <2>1. HandleWritten(o, w) = o
    BY <1>1 DEF HandleWritten
  <2>2. Tasks(o, -1)
    BY DEF Inv, Base, Tasks
  <2>3. -1 # o.generation
    BY <2>2 DEF Tasks
  <2>4. Linked(o, -1)
    BY <2>3 DEF Inv, Linked
  <2> QED BY <2>1, <2>2, <2>4 DEF Inv, Base
<1>2. CASE w.generation = o.generation
  <2>1. HandleWritten(o, w) =
          IF ~w.ok THEN HandleFault(idle)
          ELSE IF w.request \in o.pending /\ OneWay(o, w.request)
          THEN Settle(idle, w.request, Success(0)) ELSE idle
    BY <1>2 DEF HandleWritten
  <2>2. /\ IsOwner(idle) /\ idle.writeBusy = FALSE
        /\ idle.state = o.state /\ idle.transport = o.transport
        /\ idle.generation = o.generation /\ idle.writing = o.writing
        /\ idle.stuck = o.stuck
        /\ idle.connectPending = o.connectPending /\ idle.terminal = o.terminal
        /\ idle.connecting = o.connecting /\ idle.pending = o.pending
        /\ <<idle.result, idle.scope, idle.controlGeneration, idle.receiveQueue>>
             = <<o.result, o.scope, o.controlGeneration, o.receiveQueue>>
    BY DEF Inv, Base, Calls, IsOwner, Fields
  <2> HIDE DEF idle
  <2>3. Calls(idle, called)
    BY <2>2 DEF Inv, Base, Calls, Answers, Scoped
  <2>4. /\ Tasks(idle, -1)
        /\ -1 # idle.generation
        /\ \A t \in idle.writing : t.generation # idle.generation
    BY <1>2, <2>2 DEF Inv, Base, Tasks
  <2>5. Linked(idle, -1)
    BY <2>2, <2>4, ZenonT(30) DEF Inv, Linked
  <2>6. Inv(idle, called, -1)
    BY <2>3, <2>4, <2>5 DEF Inv, Base
  <2>7. ASSUME w.request \in o.pending
        PROVE  Inv(Settle(idle, w.request, Success(0)), called, -1)
    BY <2>2, <2>6, <2>7, SettleCalls, LinkInv DEF Inv, Base
  <2> QED BY <2>1, <2>6, <2>7, HandleFaultInv
<1> QED BY <1>1, <1>2

\* What NewSession makes, and its first request to the connector.
LEMMA NewOwnerInv == Inv(BeginReconnect(NewOwner), {}, -1)
<1> DEFINE o == NewOwner
<1>1. IsOwner(o)
  BY DEF NewOwner, IsOwner, Fields
<1>2. /\ o.state = "Disconnected" /\ o.connecting = 0 /\ o.terminal = FALSE
      /\ o.transport = FALSE /\ o.writeBusy = FALSE
      /\ o.generation = 0 /\ o.stuck = FALSE /\ o.writing = {}
      /\ o.pending = {} /\ o.result = [r \in Requests |-> <<>>]
      /\ o.scope = [r \in Requests |-> 0]
      /\ o.controlGeneration = 1 /\ o.receiveQueue = <<>>
  BY DEF NewOwner
<1> HIDE DEF o
<1>3. Answers(o, {}) /\ Scoped(o)
  BY <1>2 DEF Answers, Scoped
<1>4. Tasks(o, -1)
  BY <1>2 DEF Tasks
<1>5. Inv(BeginReconnect(o), {}, -1)
  BY <1>1, <1>2, <1>3, <1>4, BeginReconnectInv DEF Base, Calls
<1> QED BY <1>5 DEF o

=============================================================================
