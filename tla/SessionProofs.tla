--------------------------- MODULE SessionProofs ----------------------------
(***************************************************************************)
(* Theorems about module Session, for every number of calls, every limit   *)
(* and every peer: no hand-over of the owner blocks, every call has        *)
(* exactly one result, a session without a transport has asked for one,    *)
(* and nothing outlives the transport it belongs to.                       *)
(*                                                                         *)
(* SInv ties the invariant of the owner (module SessionOwnerProofs) to its *)
(* callers and to the channel in which a write pump reports.               *)
(***************************************************************************)
EXTENDS Session, SessionHandlerProofs

\* The requests whose command has reached the owner.
Called == {r \in Requests : caller[r] \notin {"idle", "refused"}}

\* The generation of the write result that waits in owner.writes, or -1.
Reported == IF writes = <<>> THEN -1 ELSE Head(writes).generation

SInv ==
  /\ DOMAIN caller = Requests
  /\ Inv(owner, Called, Reported)

-----------------------------------------------------------------------------
\* One iteration of run keeps the invariant if the case of its select does.
LEMMA IterateInv ==
  ASSUME NEW o, Inv(o, Called', Reported'), Iterate(o), DOMAIN caller' = Requests
  PROVE  SInv'
  BY DispatchInv DEF Iterate, SInv

\* Every step of a caller, a pump or a timer keeps the invariant.
LEMMA StepInv == ASSUME SInv, [Next]_vars PROVE SInv'
<1> USE DEF SInv
<1>1. ASSUME UNCHANGED <<caller, writes>>
      PROVE  Called' = Called /\ Reported' = Reported /\ DOMAIN caller' = Requests
  BY <1>1 DEF Called, Reported
<1>2. ASSUME NEW r \in Requests, CallSubmit(r) PROVE SInv'
  <2>1. PICK kind, tid, scope :
          Iterate(Submit(owner, r, kind, scope, tid, r \in canceled))
    BY <1>2 DEF CallSubmit
  <2>2. /\ Called' = Called \cup {r} /\ r \notin Called
        /\ DOMAIN caller' = Requests /\ Reported' = Reported
    BY <1>2 DEF CallSubmit, IsNext, Called, Reported
  <2>3. owner.state # "Stopped"
    BY <2>1 DEF Iterate
  <2>4. Inv(Submit(owner, r, kind, scope, tid, r \in canceled), Called', Reported')
    BY <2>2, <2>3, SubmitInv
  <2> QED BY <2>1, <2>2, <2>4, IterateInv
<1>3. ASSUME NEW r \in Requests, CallRefused(r) PROVE SInv'
  BY <1>3 DEF CallRefused, IsNext, Called, Reported
<1>4. ASSUME NEW r \in Requests, ContextDone(r) PROVE SInv'
  BY <1>1, <1>4 DEF ContextDone
<1>5. ASSUME NEW r \in Requests, CallCancel(r) PROVE SInv'
  <2>1. Called' = Called /\ DOMAIN caller' = Requests /\ Reported' = Reported
    BY <1>5 DEF CallCancel, Called, Reported
  <2>2. Inv(Cancel(owner, r), Called', Reported')
    BY <2>1, CancelInv
  <2> QED BY <1>5, <2>1, <2>2, IterateInv DEF CallCancel
<1>6. ASSUME NEW r \in Requests, CallReturn(r) PROVE SInv'
  BY <1>6 DEF CallReturn, Called, Reported
<1>7. ASSUME CallSnapshot PROVE SInv'
  BY <1>1, <1>7, IterateInv DEF CallSnapshot
<1>8. ASSUME Deliver PROVE SInv'
  <2> DEFINE p == [owner EXCEPT !.receiveQueue = Tail(@)]
  <2>1. /\ IsOwner(p) /\ Link(p) = Link(owner)
        /\ p.receiveQueue = Tail(owner.receiveQueue)
        /\ <<p.pending, p.result, p.scope, p.controlGeneration>>
             = <<owner.pending, owner.result, owner.scope, owner.controlGeneration>>
    BY DEF Inv, Base, Calls, IsOwner, Link, Fields
  <2>2. Iterate(p)
    BY <1>8 DEF Deliver
  <2> HIDE DEF p
  <2>3. Calls(p, Called)
    BY <1>8, <2>1 DEF Deliver, Inv, Base, Calls, Answers, Scoped
  <2>4. Inv(p, Called, Reported)
    BY <2>1, <2>3, LinkInv
  <2> QED BY <1>1, <1>8, <2>2, <2>4, IterateInv DEF Deliver
<1>9. ASSUME CallStop PROVE SInv'
  <2>1. Called' = Called /\ DOMAIN caller' = Requests /\ Reported' = -1
    BY <1>9 DEF CallStop, Called, Reported
  <2>2. Inv(Stop(owner), Called', Reported')
    BY <2>1, StopInv
  <2> QED BY <1>9, <2>1, <2>2, IterateInv DEF CallStop
<1>10. ASSUME NEW tag \in PeerTags, NEW frame \in PeerFrame(tag), TakeFrame(frame)
       PROVE  SInv'
  <2>1. frame.tag \in Tags
    BY EnvironmentAssumption DEF PeerFrame
  <2>2. Inv(HandleFrame(owner, frame), Called, Reported)
    BY <2>1, HandleFrameInv
  <2> QED BY <1>1, <1>10, <2>2, IterateInv DEF TakeFrame
<1>11. ASSUME ReadPump(NoFrame) PROVE SInv'
  BY <1>1, <1>11 DEF ReadPump
<1>12. ASSUME NEW task \in owner.writing, NEW ok \in BOOLEAN, WritePump(task, ok)
       PROVE  SInv'
  <2> DEFINE p == [owner EXCEPT !.writing = @ \ {task}]
  <2>1. owner' = p /\ Called' = Called /\ DOMAIN caller' = Requests
    BY <1>12 DEF WritePump, Called
  <2>2. Reported = -1 /\ Reported' = task.generation
    <3>1. writes = <<>> /\ writes' = <<[generation |-> task.generation,
                                        request |-> task.request, ok |-> ok]>>
      BY <1>12 DEF WritePump
    <3>2. Head(writes').generation = task.generation /\ writes' # <<>>
      BY <3>1
    <3> QED BY <3>1, <3>2 DEF Reported
  <2>3. /\ IsOwner(p) /\ p.writing = owner.writing \ {task}
        /\ p.state = owner.state /\ p.transport = owner.transport
        /\ p.generation = owner.generation /\ p.writeBusy = owner.writeBusy
        /\ p.connectPending = owner.connectPending /\ p.terminal = owner.terminal
        /\ p.connecting = owner.connecting /\ p.stuck = owner.stuck
        /\ p.pending = owner.pending
        /\ <<p.result, p.scope, p.controlGeneration, p.receiveQueue>>
             = <<owner.result, owner.scope, owner.controlGeneration, owner.receiveQueue>>
    BY DEF Inv, Base, Calls, IsOwner, Fields
  <2> HIDE DEF p
  <2>4. Calls(p, Called)
    BY <2>3 DEF Inv, Base, Calls, Answers, Scoped
  <2>5. Tasks(p, task.generation)
    BY <2>3 DEF Inv, Base, Tasks
  <2>6. p.writeBusy = FALSE =>
          /\ task.generation # p.generation
          /\ \A t \in p.writing : t.generation # p.generation
    BY <2>3 DEF Inv, Linked
  <2>7. Linked(p, task.generation)
    BY <2>3, <2>6, ZenonT(30) DEF Inv, Linked
  <2> QED BY <2>1, <2>2, <2>4, <2>5, <2>7 DEF Inv, Base
<1>13. ASSUME TakeWritten PROVE SInv'
  <2>1. Called' = Called /\ DOMAIN caller' = Requests /\ Reported' = -1
    BY <1>13 DEF TakeWritten, Called, Reported
  <2>2. Inv(owner, Called, Head(writes).generation)
    BY <1>13 DEF TakeWritten, Reported
  <2>3. Inv(HandleWritten(owner, Head(writes)), Called', Reported')
    BY <2>1, <2>2, HandleWrittenInv
  <2> QED BY <1>13, <2>1, <2>3, IterateInv DEF TakeWritten
<1>14. ASSUME RenewalDue PROVE SInv'
  <2> DEFINE p == [owner EXCEPT !.renewalArmed = FALSE, !.renewalPending = TRUE]
  <2>1. Quiet(owner, p)
    BY DEF Inv, Base, Calls, Quiet, IsOwner, Link, Fields
  <2>2. Iterate(p)
    BY <1>14 DEF RenewalDue
  <2> HIDE DEF p
  <2>3. Inv(p, Called, Reported)
    BY <2>1, QuietInv
  <2> QED BY <1>1, <1>14, <2>2, <2>3, IterateInv DEF RenewalDue
<1>15. ASSUME NEW outcome \in ConnectOutcomes, Connected(outcome) PROVE SInv'
  <2>1. Inv(HandleConnected(owner, outcome), Called, Reported)
    BY <1>15, HandleConnectedInv DEF Connected
  <2> QED BY <1>1, <1>15, <2>1, IterateInv DEF Connected
<1>16. ASSUME AckTimer PROVE SInv'
  <2>1. Inv(FlushPendingAcknowledgment(owner), Called, Reported)
    BY FlushInv
  <2> QED BY <1>1, <1>16, <2>1, IterateInv DEF AckTimer
<1>17. ASSUME UNCHANGED vars PROVE SInv'
  BY <1>1, <1>17 DEF vars
<1> HIDE DEF SInv
<1>18. ASSUME ClientNext PROVE SInv'
  BY <1>2, <1>3, <1>4, <1>5, <1>6, <1>7, <1>8, <1>9, <1>13, <1>14, <1>15, <1>16, <1>18
     DEF ClientNext
<1> QED BY <1>10, <1>11, <1>12, <1>17, <1>18 DEF Next

\* The owner, its callers and its pumps agree for ever.
THEOREM SessionInvariant == Spec => []SInv
<1>1. Init => SInv
  <2> SUFFICES ASSUME Init PROVE SInv
    OBVIOUS
  <2>1. Called = {} /\ Reported = -1 /\ DOMAIN caller = Requests
    BY DEF Init, Called, Reported
  <2> QED BY <2>1, NewOwnerInv DEF Init, SInv
<1> QED BY <1>1, StepInv, PTL DEF Spec

\* Every send on connectorRequests and on writeTasks, which have no buffer, finds
\* its receiver waiting, whatever the peer, the connector and the callers do.
THEOREM NeverStuckAlways == Spec => []NeverStuck
<1>1. SInv => NeverStuck
  BY DEF SInv, Inv, Base, Tasks, NeverStuck
<1> QED BY <1>1, SessionInvariant, PTL

\* Every call that reached the owner is pending or has exactly one result.
THEOREM OneResultAlways == Spec => []OneResult
<1>1. SInv => OneResult
  <2> SUFFICES ASSUME SInv, NEW r \in Requests
               PROVE  Len(owner.result[r]) =
                        IF caller[r] \in {"idle", "refused"} \/ r \in owner.pending
                        THEN 0 ELSE 1
    BY DEF OneResult
  <2>1. Answers(owner, Called)
    BY DEF SInv, Inv, Base, Calls
  <2>2. CASE r \in owner.pending \/ r \notin Called
    <3>1. owner.result[r] = <<>>
      BY <2>1, <2>2 DEF Answers
    <3> QED BY <2>1, <2>2, <3>1 DEF Called, Answers
  <2>3. CASE r \in Called \ owner.pending
    <3>1. PICK x : owner.result[r] = <<x>>
      BY <2>1, <2>3 DEF Answers
    <3> QED BY <2>3, <3>1 DEF Called
  <2> QED BY <2>2, <2>3
<1> QED BY <1>1, SessionInvariant, PTL

\* A session without a transport that has not given up has its connector at work,
\* and one that has given up or is stopped holds no request.
THEOREM ReconnectingAlways == Spec => []Reconnecting
<1>1. SInv => Reconnecting
  BY DEF SInv, Inv, Linked, Reconnecting
<1> QED BY <1>1, SessionInvariant, PTL

\* Scoped controls are pending, and unread messages wait, only under the current
\* transport generation.
THEOREM CurrentGenerationAlways == Spec => []CurrentGeneration
<1>1. SInv => CurrentGeneration
  BY DEF SInv, Inv, Base, Calls, Scoped, CurrentGeneration
<1> QED BY <1>1, SessionInvariant, PTL

=============================================================================
