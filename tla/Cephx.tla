-------------------------------- MODULE Cephx --------------------------------
(***************************************************************************)
(* Authentication (src/internal/cephx): the connector that authenticates   *)
(* with a monitor and keeps the tickets, its renewals, and the connectors  *)
(* that use a ticket to authenticate with an OSD or a manager.             *)
(*                                                                         *)
(* Encryption is symbolic: a payload is readable to who has its key.  A    *)
(* peer is "honest" (it has the keys of the cluster), "stale" (it answers  *)
(* as an earlier conversation was answered, and has no key) or "foreign"   *)
(* (it has other keys, of another cluster say).  A conversation is one     *)
(* step for each pair of messages.                                         *)
(***************************************************************************)
EXTENDS Naturals, FiniteSets

CONSTANTS
    Callers,    \* callers of Connector.Connect
    Services,   \* callers of ServiceConnector.Connect
    AllowCRC,   \* ConnectorConfig.AllowCRC
    Validity,   \* how long a ticket is valid, a multiple of 4
    MaxTime,    \* bound on the clock
    MaxIssued   \* bound on the sessions that monitors issue

VARIABLES
    now,      \* the clock
    issued,   \* how many auth sessions honest monitors have issued
    state,    \* Connector.state
    gate,     \* Connector.connectGate: 0, or the caller that holds it
    conn,     \* the callers of Connect
    service   \* the callers of ServiceConnector.Connect

vars == <<now, issued, state, gate, conn, service>>

None == [key |-> 0, expires |-> 0, renew |-> 0]
NoState == [id |-> 0, mode |-> "none", auth |-> None, osd |-> None]
Secure == "secure"
CRC == "crc"
Modes == {Secure, CRC}
Peers == {"honest", "stale", "foreign"}

NewConn == [pc |-> "new", peer |-> "honest", id |-> 0, old |-> 0, mode |-> "none",
            auth |-> None, osd |-> None, why |-> "none"]
NewService == [pc |-> "new", peer |-> "honest", id |-> 0, ticket |-> None,
               waited |-> 0, mode |-> "none", challenged |-> FALSE]

Init ==
    /\ now = 0
    /\ issued = 0
    /\ state = NoState
    /\ gate = 0
    /\ conn = [c \in Callers |-> NewConn]
    /\ service = [s \in Services |-> NewService]

\* IsZero, Before.
Expired(ticket, at) == ticket.expires = 0 \/ at >= ticket.expires

(***************************************************************************)
(* Connector.Connect.                                                      *)
(***************************************************************************)
\* MUTANT of Begin: the gate is not waited for.
BeginAtOnce(c) ==
    /\ conn[c].pc = "new"
    /\ gate' = c
    /\ state' = IF state.auth.key # 0 /\ Expired(state.auth, now) THEN NoState ELSE state
    /\ \E p \in Peers :
          conn' = [conn EXCEPT ![c] = [NewConn EXCEPT
                       !.pc = "hello", !.peer = p, !.id = state'.id,
                       !.old = state'.auth.key]]
    /\ UNCHANGED <<now, issued, service>>

\* The gate, then renewalSnapshot: an expired auth ticket empties the state; a
\* valid one is presented, and its key kept for the reply.
Begin(c) ==
    /\ conn[c].pc = "new"
    /\ gate = 0
    /\ gate' = c
    /\ state' = IF state.auth.key # 0 /\ Expired(state.auth, now) THEN NoState ELSE state
    /\ \E p \in Peers :
          conn' = [conn EXCEPT ![c] = [NewConn EXCEPT
                       !.pc = "hello", !.peer = p, !.id = state'.id,
                       !.old = state'.auth.key]]
    /\ UNCHANGED <<now, issued, service>>

Fail(c, reason) ==
    /\ conn' = [conn EXCEPT ![c] = [NewConn EXCEPT !.pc = "failed", !.peer = conn[c].peer,
                                                    !.why = reason]]
    /\ gate' = 0
    /\ UNCHANGED <<now, issued, state, service>>

\* The connection breaks or the context ends, anywhere.
ConnectCanceled(c) ==
    /\ conn[c].pc \in {"hello", "request", "challenge", "signature"}
    /\ Fail(c, "canceled")

\* Banner and Hello: another peer than a monitor is refused.
Hello(c) ==
    /\ conn[c].pc = "hello"
    /\ \/ /\ conn' = [conn EXCEPT ![c].pc = "request"]
          /\ UNCHANGED <<now, issued, state, gate, service>>
       \/ /\ conn[c].peer # "honest"
          /\ Fail(c, "entity")

\* The first request: a challenge comes back, a refusal, or something else.
Request(c) ==
    /\ conn[c].pc = "request"
    /\ \/ /\ conn' = [conn EXCEPT ![c].pc = "challenge"]
          /\ UNCHANGED <<now, issued, state, gate, service>>
       \/ Fail(c, "refused")
       \/ conn[c].peer # "honest" /\ Fail(c, "flow")

\* preferredModes and modeNotSupported.
Preferred == IF AllowCRC THEN Modes ELSE {Secure}

\* parseServiceTicketReply: when a ticket expires and when it is renewed.
Ticket(key) == [key |-> key, expires |-> now + Validity,
                renew |-> now + Validity - Validity \div 4]

\* What a monitor answers with.  An honest one chooses a mode that was offered and
\* seals the ticket with the key of the old one if one was presented.
Replies(c) ==
    CASE conn[c].peer = "honest" ->
           [mode : Preferred, secret : {TRUE}, key : {issued + 1}, sealed : {conn[c].old},
            id : {IF conn[c].id # 0 THEN conn[c].id ELSE 1}]
      [] conn[c].peer = "stale" ->
           [mode : Modes, secret : {TRUE}, key : 1..issued, sealed : {0}, id : {0, 1}]
      [] OTHER ->
           [mode : Modes, secret : {FALSE}, key : {0}, sealed : {0}, id : {1}]

\* ParseAuthSessionReply: readable with the client's secret; a sealed ticket with
\* the key of the ticket that was presented.
Readable(c, r) == r.secret /\ r.sealed \in {0, conn[c].old}

\* The challenge is answered; AuthDone is checked in the code's order: mode,
\* global id, payload.
Challenge(c) ==
    /\ conn[c].pc = "challenge"
    /\ \/ Fail(c, "refused")
       \/ conn[c].peer # "honest" /\ Fail(c, "flow")
       \/ \E r \in Replies(c) :
             /\ r.key <= MaxIssued
             /\ IF r.mode \notin Preferred THEN Fail(c, "downgrade")
                ELSE IF r.id = 0 THEN Fail(c, "id")
                ELSE IF ~Readable(c, r) THEN Fail(c, "payload")
                ELSE /\ conn' = [conn EXCEPT ![c].pc = "signature", ![c].mode = r.mode,
                                             ![c].id = r.id, ![c].auth = Ticket(r.key),
                                             ![c].osd = Ticket(r.key)]
                     /\ issued' = IF conn[c].peer = "honest" THEN issued + 1 ELSE issued
                     /\ UNCHANGED <<now, state, gate, service>>

\* MUTANT of SignatureVerifies: the peer's signature is not compared.
SignatureUnchecked(c) == conn[c].pc = "signature"

\* The signatures of the transcripts: only who has the session key can sign.
SignatureVerifies(c) == conn[c].peer = "honest"

\* The tickets are stored once the peer's signature was verified.
Signature(c) ==
    /\ conn[c].pc = "signature"
    /\ IF SignatureVerifies(c)
       THEN /\ conn' = [conn EXCEPT ![c].pc = "connected", ![c].old = 0]
            /\ state' = [id |-> conn[c].id, mode |-> conn[c].mode,
                         auth |-> conn[c].auth, osd |-> conn[c].osd]
            /\ gate' = 0
            /\ UNCHANGED <<now, issued, service>>
       ELSE Fail(c, "signature")

\* The session asks for a new transport when the renewal is due (earliestRenewal),
\* when the transport breaks, or when a connection attempt failed.
Again(c) ==
    /\ conn[c].pc \in {"failed", "connected"}
    /\ conn' = [conn EXCEPT ![c] = NewConn]
    /\ UNCHANGED <<now, issued, state, gate, service>>

(***************************************************************************)
(* ServiceConnector.Connect.                                               *)
(***************************************************************************)
\* serviceTicketDue.
Due(at) == at >= state.osd.renew

Set(s, record) ==
    /\ service' = [service EXCEPT ![s] = record]
    /\ UNCHANGED <<now, issued, gate, conn>>

\* waitForCurrentAuthority: a ticket that is due is not used; the connector looks
\* again until the ticket has been renewed, or until a timeout.
WaitForAuthority(s) ==
    /\ UNCHANGED state
    /\ \/ /\ service[s].pc = "new"
          /\ IF Expired(state.osd, now) THEN Set(s, [NewService EXCEPT !.pc = "failed"])
             ELSE Set(s, [NewService EXCEPT !.pc = IF Due(now) THEN "wait" ELSE "authorize",
                                            !.waited = IF Due(now) THEN now ELSE 0])
       \/ /\ service[s].pc = "wait"
          /\ ~Expired(state.osd, now) /\ ~Due(now)
          /\ Set(s, [service[s] EXCEPT !.pc = "authorize", !.waited = 0])
       \/ /\ service[s].pc = "wait"
          /\ now > service[s].waited
          /\ Set(s, [NewService EXCEPT !.pc = "failed"])

\* serviceAuthorization: the ticket is looked at again, and dropped if expired.
Usable(ticket) == ticket.key # 0 /\ ~Expired(ticket, now)

Authorize(s) ==
    /\ service[s].pc = "authorize"
    /\ IF Usable(state.osd)
       THEN /\ \E p \in Peers :
                  Set(s, [service[s] EXCEPT !.pc = "dialed", !.peer = p, !.id = state.id,
                                            !.ticket = state.osd])
            /\ UNCHANGED state
       ELSE /\ Set(s, [NewService EXCEPT !.pc = "failed"])
            /\ state' = [state EXCEPT !.osd = None]

\* The service asks once more for the authorizer, with its challenge.
ServiceChallenge(s) ==
    /\ service[s].pc = "dialed" /\ ~service[s].challenged
    /\ IF service[s].peer = "foreign" THEN Set(s, [NewService EXCEPT !.pc = "failed"])
       ELSE Set(s, [service[s] EXCEPT !.challenged = TRUE])
    /\ UNCHANGED state

\* AuthDone: the id must be ours, the mode one we offered, and the reply readable
\* with the session key and about our nonce; then the signatures must verify.
AuthorizerReplyVerifies(s) == service[s].peer = "honest"

ServiceDone(s) ==
    /\ service[s].pc = "dialed"
    /\ \E m \in Modes :
          /\ service[s].peer = "honest" => m \in Preferred
          /\ Set(s, IF m \in Preferred /\ AuthorizerReplyVerifies(s)
                    THEN [service[s] EXCEPT !.pc = "connected", !.mode = m, !.challenged = FALSE]
                    ELSE [NewService EXCEPT !.pc = "failed"])
    /\ UNCHANGED state

ServiceCanceled(s) ==
    /\ service[s].pc \in {"wait", "dialed"}
    /\ Set(s, [NewService EXCEPT !.pc = "failed"])
    /\ UNCHANGED state

\* The session to the service asks for a new transport: at serviceRenewalTime, when
\* the transport breaks, or when an attempt failed.
ServiceAgain(s) ==
    /\ service[s].pc \in {"failed", "connected"}
    /\ Set(s, NewService)
    /\ UNCHANGED state

Tick ==
    /\ now < MaxTime
    /\ now' = now + 1
    /\ UNCHANGED <<issued, state, gate, conn, service>>

Next ==
    \/ Tick
    \/ \E c \in Callers : \/ Begin(c) \/ ConnectCanceled(c) \/ Hello(c) \/ Request(c)
                          \/ Challenge(c) \/ Signature(c) \/ Again(c)
    \/ \E s \in Services : \/ WaitForAuthority(s) \/ Authorize(s) \/ ServiceChallenge(s)
                           \/ ServiceDone(s) \/ ServiceCanceled(s) \/ ServiceAgain(s)

Spec == Init /\ [][Next]_vars

-----------------------------------------------------------------------------
(***************************************************************************)
(* Properties.                                                             *)
(***************************************************************************)
\* Only a peer that has the keys of the cluster ends a handshake: every connection,
\* and whatever the connector has stored, comes from one, in a mode that was
\* offered.
ConnectedIsAuthentic ==
    /\ \A c \in Callers : conn[c].pc = "connected" =>
           conn[c].peer = "honest" /\ (conn[c].mode = CRC => AllowCRC)
    /\ \A s \in Services : service[s].pc = "connected" =>
           service[s].peer = "honest" /\ (service[s].mode = CRC => AllowCRC)

\* An honest monitor is never turned away: a handshake with it fails only when it
\* refuses or the caller gives up, also when the tickets expire or are renewed
\* while the handshake runs.
HonestIsAccepted ==
    \A c \in Callers : conn[c].pc = "failed" /\ conn[c].peer = "honest" =>
                           conn[c].why \in {"canceled", "refused"}

AdvanceStep ==
    /\ state'.auth # state.auth => state'.auth.key \in {0, issued}
    /\ state'.osd # state.osd => state'.osd.key \in {0, issued}

\* What the connector stores is the newest that was issued, also when the session of
\* the old endpoint and that of the new one connect at the same time: replies that
\* overlap would otherwise be stored out of order, and the older tickets stay
\* (connectGate is held from the request to the storing).
TicketsAdvance == [][AdvanceStep]_vars

\* The tickets the connector has are of one reply, and due before they expire.
StoredTogether ==
    state.auth.key # 0 => /\ state.osd.key \in {0, state.auth.key}
                          /\ state.auth.renew < state.auth.expires
                          /\ state.id # 0
=============================================================================
