---------------------------- MODULE SessionPeer -----------------------------
(***************************************************************************)
(* A messenger session and the daemon at its other end.  The client is     *)
(* module Session; the daemon, which is not in this repository, keeps the  *)
(* messenger v2.1 protocol the way the session expects it: it numbers its  *)
(* messages, drops those it has seen, replays those not acknowledged after *)
(* a reconnect, and resets a session it does not know.                     *)
(*                                                                         *)
(* A connection carries frames in order in both directions until it        *)
(* breaks.  What the daemon has not read by the time it accepts the next   *)
(* connection, and what the client has not, is lost.                       *)
(***************************************************************************)
EXTENDS Session

CONSTANTS
  PeerLossy,     \* whether the daemon may declare its connections lossy
  MaxFaults,     \* bound: broken connections, failed writes and connects, renewals
  MaxRestarts    \* bound: how often the daemon forgets its sessions

ASSUME PeerAssumption ==
  /\ PeerLossy \subseteq BOOLEAN
  /\ MaxFaults \in Nat
  /\ MaxRestarts \in Nat

VARIABLES
  peer,      \* the daemon
  toPeer,    \* frames written by the client and not read by the daemon
  toClient,  \* frames written by the daemon and not read by the client
  faults,    \* how many faults there were
  restarts   \* how often the daemon has restarted

peerVars == <<vars, peer, toPeer, toClient, faults, restarts>>

\* The daemon's side of the session: its cookie (0 when it has none), the last
\* cookie it made, whether the handshake of its connection is over, the last message
\* it has seen, acknowledged and sent, its messages the client has not acknowledged,
\* those it has still to answer, and how often it has executed each request.
NewPeer ==
  [cookie |-> 0, cookies |-> 0, ready |-> FALSE, inSeq |-> 0, acked |-> 0, outSeq |-> 0,
   unacked |-> <<>>, todo |-> <<>>, executed |-> [r \in Requests |-> 0]]

PeerInit ==
  /\ Init
  /\ peer = NewPeer
  /\ toPeer = <<>>
  /\ toClient = <<>>
  /\ faults = 0
  /\ restarts = 0

Fault == faults < MaxFaults /\ faults' = faults + 1

-----------------------------------------------------------------------------
(***************************************************************************)
(* The connection.                                                         *)
(***************************************************************************)

ReadFrame ==
  /\ toClient # <<>>
  /\ ReadPump(Head(toClient))
  /\ toClient' = Tail(toClient)
  /\ UNCHANGED <<peer, toPeer, faults, restarts>>

BreakConnection ==
  /\ Fault
  /\ ReadPump([NoFrame EXCEPT !.tag = "Error"])
  /\ toClient' = <<>>
  /\ UNCHANGED <<peer, toPeer, restarts>>

\* A frame that is not written before its transport is closed is not written.
WriteFrame(task) ==
  /\ task.generation = owner.generation
  /\ WritePump(task, TRUE)
  /\ toPeer' = Append(toPeer, task.frame)
  /\ UNCHANGED <<peer, toClient, faults, restarts>>

WriteFails(task) ==
  /\ IF task.generation = owner.generation THEN Fault ELSE UNCHANGED faults
  /\ WritePump(task, FALSE)
  /\ UNCHANGED <<peer, toPeer, toClient, restarts>>

TakeRead ==
  /\ frames # <<>>
  /\ TakeFrame(Head(frames).frame)
  /\ UNCHANGED <<peer, toPeer, toClient, faults, restarts>>

Connect(outcome) ==
  /\ Connected(outcome)
  /\ IF outcome = "connected" THEN UNCHANGED faults ELSE Fault
  /\ peer' = [peer EXCEPT !.ready = FALSE]
  /\ toPeer' = <<>>
  /\ toClient' = <<>>
  /\ UNCHANGED restarts

Renew ==
  /\ Fault
  /\ RenewalDue
  /\ UNCHANGED <<peer, toPeer, toClient, restarts>>

-----------------------------------------------------------------------------
(***************************************************************************)
(* The daemon.                                                             *)
(***************************************************************************)

\* Messages the client has not acknowledged by `ack'.
Unacked(p, ack) == SelectSeq(p.unacked, LAMBDA f : f.sequence > ack)

PeerIdent(frame) ==
  /\ peer' = [NewPeer EXCEPT !.cookie = peer.cookies + 1, !.cookies = peer.cookies + 1,
                             !.ready = TRUE, !.executed = peer.executed]
  /\ \E lossy \in PeerLossy :
       toClient' = Append(toClient,
         [NoFrame EXCEPT !.tag = IF lossy THEN "ServerIdentLossy" ELSE "ServerIdent",
                         !.cookie = peer.cookies + 1])

PeerReconnect(frame) ==
  IF peer.cookie = 0 \/ frame.cookie # peer.cookie
  THEN /\ \E tag \in {"SessionReset", "SessionResetFull"} :
            toClient' = Append(toClient, [NoFrame EXCEPT !.tag = tag])
       /\ UNCHANGED peer
  ELSE /\ peer' = [peer EXCEPT !.ready = TRUE, !.unacked = Unacked(peer, frame.sequence)]
       /\ toClient' = toClient
            \o <<[NoFrame EXCEPT !.tag = "SessionReconnectOK", !.sequence = peer.inSeq]>>
            \o Unacked(peer, frame.sequence)

\* Execution comes with reception; the answer may take its time.
PeerMessage(frame) ==
  /\ peer' = IF frame.sequence <= peer.inSeq
             THEN [peer EXCEPT !.unacked = Unacked(peer, frame.ack)]
             ELSE [peer EXCEPT !.unacked = Unacked(peer, frame.ack),
                               !.inSeq = frame.sequence,
                               !.executed[frame.payload] = @ + 1,
                               !.todo = Append(@, frame)]
  /\ UNCHANGED toClient

PeerReads ==
  /\ toPeer # <<>>
  /\ toPeer' = Tail(toPeer)
  /\ LET frame == Head(toPeer)
     IN  CASE frame.tag = "ClientIdent" -> PeerIdent(frame)
           [] frame.tag = "SessionReconnect" -> PeerReconnect(frame)
           [] frame.tag = "Message" -> PeerMessage(frame)
           [] frame.tag = "Ack" -> /\ peer' = [peer EXCEPT !.unacked = Unacked(peer, frame.sequence)]
                                   /\ UNCHANGED toClient
           [] OTHER -> UNCHANGED <<peer, toClient>>
  /\ UNCHANGED <<vars, faults, restarts>>

\* Two-way requests are answered; the answer acknowledges them too.
PeerAnswers ==
  /\ peer.todo # <<>>
  /\ LET asked == Head(peer.todo)
         answer == [NoFrame EXCEPT !.tag = "Message", !.sequence = peer.outSeq + 1,
                      !.transaction = asked.transaction, !.ack = peer.inSeq,
                      !.payload = asked.payload]
     IN  IF owner.kind[asked.payload] = "request"
         THEN /\ peer' = [peer EXCEPT !.todo = Tail(@), !.outSeq = @ + 1,
                                      !.unacked = Append(@, answer)]
              /\ toClient' = IF peer.ready THEN Append(toClient, answer) ELSE toClient
         ELSE peer' = [peer EXCEPT !.todo = Tail(@)] /\ UNCHANGED toClient
  /\ UNCHANGED <<vars, toPeer, faults, restarts>>

PeerAcknowledges ==
  /\ peer.ready
  /\ peer.acked < peer.inSeq
  /\ peer' = [peer EXCEPT !.acked = peer.inSeq]
  /\ toClient' = Append(toClient, AckFrame(peer.inSeq))
  /\ UNCHANGED <<vars, toPeer, faults, restarts>>

\* The daemon forgets its sessions, and its connections break.
PeerRestart ==
  /\ restarts < MaxRestarts
  /\ restarts' = restarts + 1
  /\ IF owner.transport THEN ReadPump([NoFrame EXCEPT !.tag = "Error"]) ELSE UNCHANGED vars
  /\ peer' = [NewPeer EXCEPT !.cookies = peer.cookies, !.executed = peer.executed]
  /\ toPeer' = <<>>
  /\ toClient' = <<>>
  /\ UNCHANGED faults

-----------------------------------------------------------------------------
\* Steps of the client that no frame and no connection is part of.
CallerNext ==
  /\ \/ \E r \in Requests : CallSubmit(r) \/ CallRefused(r) \/ ContextDone(r)
                            \/ CallCancel(r) \/ CallReturn(r)
     \/ Deliver \/ TakeWritten \/ AckTimer
  /\ UNCHANGED <<peer, toPeer, toClient, faults, restarts>>

PeerNext ==
  \/ CallerNext
  \/ ReadFrame \/ TakeRead \/ BreakConnection \/ Renew
  \/ \E task \in owner.writing : WriteFrame(task) \/ WriteFails(task)
  \/ \E outcome \in ConnectOutcomes : Connect(outcome)
  \/ PeerReads \/ PeerAnswers \/ PeerAcknowledges \/ PeerRestart

PeerSpec == PeerInit /\ [][PeerNext]_peerVars

\* What goes on without a call, a cancellation or a fault: the iterations of run,
\* its pumps and timer, a connector that succeeds, a caller that takes its result,
\* and the daemon.
Progress ==
  \/ ReadFrame \/ TakeRead \/ Connect("connected") \/ PeerReads \/ PeerAnswers
  \/ \E task \in owner.writing : WriteFrame(task)
  \/ /\ TakeWritten \/ AckTimer \/ Deliver \/ \E r \in Requests : CallReturn(r)
     /\ UNCHANGED <<peer, toPeer, toClient, faults, restarts>>

\* Progress has a step to take.
CanProgress ==
  \/ frames # <<>> \/ writes # <<>> \/ toPeer # <<>> \/ peer.todo # <<>>
  \/ toClient # <<>> /\ owner.transport
  \/ \E task \in owner.writing : task.generation = owner.generation
  \/ owner.connecting # 0 /\ owner.generation < MaxGeneration
  \/ owner.pendingAck # 0 \/ owner.receiveQueue # <<>>
  \/ \E r \in Requests : caller[r] \in {"waiting", "canceling"} /\ owner.result[r] # <<>>

\* Some goroutine that can run does: weak fairness of Progress, with its ENABLED
\* written out.  Faults need not happen.
Fairness == []<>(~CanProgress) \/ []<><<Progress>>_peerVars

LivePeerSpec == PeerSpec /\ Fairness

-----------------------------------------------------------------------------
(***************************************************************************)
(* Properties.                                                             *)
(***************************************************************************)

\* A daemon has not executed a request whose error is definite, unless its
\* context was done.
DefiniteNotExecuted ==
  \A r \in Requests :
    Definite(r) /\ owner.scope[r] = 0 /\ ~Reports(r, "canceled") => peer.executed[r] = 0

\* The owner has yet to hear that its transport failed.
Broken ==
  \/ \E i \in 1..Len(frames) : frames[i].frame.tag = "Error" /\ frames[i].generation = owner.generation
  \/ \E i \in 1..Len(writes) : ~writes[i].ok /\ writes[i].generation = owner.generation

\* Request r is in the hands of the write pump or the daemon, or on the connection
\* in one direction or the other.
OnItsWay(r) ==
  \/ \E task \in owner.writing : task.generation = owner.generation /\ task.request = r
  \/ \E i \in 1..Len(toPeer) : toPeer[i].payload = r
  \/ \E i \in 1..Len(peer.todo) : peer.todo[i].payload = r
  \/ \E i \in 1..Len(toClient) : toClient[i].payload = r
  \/ \E i \in 1..Len(frames) : frames[i].frame.payload = r /\ frames[i].generation = owner.generation

\* On a ready transport nothing waits in vain: a request that is marked as sent
\* is on its way to the daemon, or its answer is on its way back, although it may
\* have been acknowledged and so taken off the replay list on an earlier transport.
SentIsCovered ==
  owner.state = "Ready" /\ ~Broken =>
    \A r \in owner.pending \cap owner.sent : OneWay(owner, r) \/ OnItsWay(r)

\* What the caller of r was told; a reply to another request would be no outcome.  When
\* the transport of a scoped control that was written is gone, nobody knows.
Told(r) ==
  IF caller[r] = "refused" THEN "failed"
  ELSE IF owner.result[r] = <<>> THEN "none"
  ELSE LET result == owner.result[r][1]
       IN  CASE result.unknown \/ (result.err = "invalidated" /\ r \in owner.handed) -> "unknown"
             [] result.err = "canceled" -> "canceled"
             [] result.err # "none" -> "failed"
             [] OTHER -> IF result.reply = (IF owner.kind[r] = "request" THEN r ELSE 0)
                         THEN "answered" ELSE "another reply"

Service == INSTANCE CallService WITH
  called <- {r \in Requests : caller[r] # "idle"},
  twoWay <- {r \in Requests : owner.kind[r] = "request"},
  executed <- peer.executed,
  outcome <- [r \in Requests |-> Told(r)]

\* With a daemon that does not forget its sessions, a session implements CallService:
\* whatever breaks, is replayed, renumbered or canceled, a call is executed at most once,
\* gets one result, and is told the truth.
ImplementsCallService == Service!ServiceSpec

\* Every call returns, once the connection stops breaking.
EveryCallReturns ==
  \A r \in Requests : (caller[r] = "waiting") ~> (caller[r] = "returned")

=============================================================================
