-------------------------------- MODULE Client --------------------------------
(***************************************************************************)
(* The life of a client (src/client.go): Connect, the operations, Flush,   *)
(* Shutdown and Close, called by any number of goroutines at any time.     *)
(*                                                                         *)
(* A Connect builds a monitor client, then an objecter and a manager       *)
(* client; the number of the attempt identifies the three.  They are       *)
(* models of their own (MonClient, Objecter, MgrClient); here they run or  *)
(* are closed.                                                             *)
(***************************************************************************)
EXTENDS Naturals

CONSTANTS
    Connectors,   \* callers of Connect
    Operations,   \* callers of an operation
    Closers,      \* callers of Close or Shutdown
    MaxAttempts   \* bound on the monitor clients that are built

VARIABLES
    closing, closed, done,  \* Client.closing, Client.closed, closeDone is closed
    lifetime,   \* Client.lifetime is not canceled
    gate,       \* Client.connectGate holds its token
    field,      \* Client.monitor, objects and manager: the attempt, or 0; connected
    running,    \* the monitor, objecter and manager clients that are not closed
    attempts,   \* the attempts so far
    connect,    \* callers of Connect
    operation,  \* callers of an operation
    closer      \* callers of Close and Shutdown

vars == <<closing, closed, done, lifetime, gate, field, running, attempts, connect,
          operation, closer>>

NoFields == [monitor |-> 0, objects |-> 0, manager |-> 0, connected |-> FALSE]
Parts == {"monitor", "objects", "manager"}

Init ==
    /\ closing = FALSE /\ closed = FALSE /\ done = FALSE
    /\ lifetime = TRUE
    /\ gate = TRUE
    /\ field = NoFields
    /\ running = {}
    /\ attempts = 0
    /\ connect = [c \in Connectors |-> [pc |-> "new", attempt |-> 0]]
    /\ operation = [o \in Operations |-> "new"]
    /\ closer = [d \in Closers |-> [pc |-> "new", took |-> {}]]

\* client.workers counts nobody.
NoWorkers ==
    /\ \A c \in Connectors : connect[c].pc \in {"new", "returned"}
    /\ \A o \in Operations : operation[o] # "running"

(***************************************************************************)
(* Connect.                                                                *)
(***************************************************************************)
StartConnect(c) ==
    /\ connect[c].pc = "new"
    /\ connect' = [connect EXCEPT ![c].pc = IF closed \/ closing THEN "returned" ELSE "gate"]
    /\ UNCHANGED <<closing, closed, done, lifetime, gate, field, running, attempts,
                   operation, closer>>

\* One Connect at a time; the others wait, until their context or the client's
\* life ends.
EnterGate(c) ==
    /\ connect[c].pc = "gate"
    /\ gate
    /\ gate' = FALSE
    /\ connect' = [connect EXCEPT ![c].pc = "check"]
    /\ UNCHANGED <<closing, closed, done, lifetime, field, running, attempts, operation,
                   closer>>

LeaveQueue(c) ==
    /\ connect[c].pc = "gate"
    /\ connect' = [connect EXCEPT ![c].pc = "returned"]
    /\ UNCHANGED <<closing, closed, done, lifetime, gate, field, running, attempts,
                   operation, closer>>

Leave(c) ==
    /\ connect' = [connect EXCEPT ![c] = [pc |-> "returned", attempt |-> 0]]
    /\ gate' = TRUE

NeedsConnect == ~(closed \/ closing \/ field.connected)

\* A client that is connected is left alone; otherwise a monitor client is built.
BuildMonitor(c) ==
    /\ connect[c].pc = "check"
    /\ \/ /\ NeedsConnect
          /\ attempts < MaxAttempts
          /\ attempts' = attempts + 1
          /\ running' = running \cup {<<"monitor", attempts + 1>>}
          /\ connect' = [connect EXCEPT ![c] = [pc |-> "publish", attempt |-> attempts + 1]]
          /\ UNCHANGED gate
       \/ Leave(c) /\ UNCHANGED <<running, attempts>>  \* nothing to do, or no address
    /\ UNCHANGED <<closing, closed, done, lifetime, field, operation, closer>>

\* The monitor client is published, so that Close can end its Connect.
PublishMonitor(c) ==
    /\ connect[c].pc = "publish"
    /\ IF closed \/ closing
       THEN /\ running' = running \ {<<"monitor", connect[c].attempt>>}
            /\ Leave(c)
            /\ UNCHANGED field
       ELSE /\ field' = [field EXCEPT !.monitor = connect[c].attempt]
            /\ connect' = [connect EXCEPT ![c].pc = "monitor"]
            /\ UNCHANGED <<running, gate>>
    /\ UNCHANGED <<closing, closed, done, lifetime, attempts, operation, closer>>

\* The monitor client does not connect, or is closed meanwhile.
ConnectFails(c) ==
    /\ connect[c].pc = "monitor"
    /\ running' = running \ {<<"monitor", connect[c].attempt>>}
    /\ field' = IF field.monitor = connect[c].attempt THEN [field EXCEPT !.monitor = 0]
                ELSE field
    /\ Leave(c)
    /\ UNCHANGED <<closing, closed, done, lifetime, attempts, operation, closer>>

\* It connects, unless it is closed first.
MonitorConnects(c) ==
    /\ connect[c].pc = "monitor"
    /\ <<"monitor", connect[c].attempt>> \in running
    /\ connect' = [connect EXCEPT ![c].pc = "build"]
    /\ UNCHANGED <<closing, closed, done, lifetime, gate, field, running, attempts,
                   operation, closer>>

\* The other two are built, though a close may have begun since.
BuildObjects(c) ==
    /\ connect[c].pc = "build"
    /\ running' = running \cup {<<"objects", connect[c].attempt>>,
                                <<"manager", connect[c].attempt>>}
    /\ connect' = [connect EXCEPT ![c].pc = "install"]
    /\ UNCHANGED <<closing, closed, done, lifetime, gate, field, attempts, operation, closer>>

\* Either is refused its configuration: the monitor client is closed, and stays
\* the client's until the next Connect.
BuildFails(c) ==
    /\ connect[c].pc = "build"
    /\ running' = running \ {<<"monitor", connect[c].attempt>>}
    /\ Leave(c)
    /\ UNCHANGED <<closing, closed, done, lifetime, field, attempts, operation, closer>>

MayInstall == ~closed /\ ~closing

\* What Connect closes when it may not install.
Refused(a) == Parts \X {a}

Install(c) ==
    LET a == connect[c].attempt IN
    /\ connect[c].pc = "install"
    /\ IF MayInstall
       THEN /\ field' = [monitor |-> field.monitor, objects |-> a, manager |-> a,
                         connected |-> TRUE]
            /\ UNCHANGED running
       ELSE /\ running' = running \ Refused(a)
            /\ UNCHANGED field
    /\ Leave(c)
    /\ UNCHANGED <<closing, closed, done, lifetime, attempts, operation, closer>>

(***************************************************************************)
(* Operations: beginOperation, then anything until it ends by itself, by   *)
(* the end of the client's life, or by the close of the objecter.          *)
(***************************************************************************)
Admissible == ~closed /\ ~closing /\ field.connected /\ field.monitor # 0
              /\ field.objects # 0

BeginOperation(o) ==
    /\ operation[o] = "new"
    /\ operation' = [operation EXCEPT ![o] = IF Admissible THEN "running" ELSE "refused"]
    /\ UNCHANGED <<closing, closed, done, lifetime, gate, field, running, attempts,
                   connect, closer>>

EndOperation(o) ==
    /\ operation[o] = "running"
    /\ operation' = [operation EXCEPT ![o] = "returned"]
    /\ UNCHANGED <<closing, closed, done, lifetime, gate, field, running, attempts,
                   connect, closer>>

(***************************************************************************)
(* Shutdown and Close.                                                     *)
(***************************************************************************)
\* MUTANT of First: a second caller closes too, while the first one is at it.
FirstClosing == ~closed

\* The first caller closes; the others wait for it.
First == ~closed /\ ~closing

BeginClose(d) ==
    /\ closer[d].pc = "new"
    /\ closer' = [closer EXCEPT ![d].pc = IF First THEN "finish" ELSE "wait"]
    /\ closing' = TRUE
    /\ UNCHANGED <<closed, done, lifetime, gate, field, running, attempts, connect,
                   operation>>

BeginShutdown(d) ==
    /\ closer[d].pc = "new"
    /\ closer' = [closer EXCEPT ![d].pc = IF First THEN "cancel" ELSE "bounded"]
    /\ closing' = TRUE
    /\ UNCHANGED <<closed, done, lifetime, gate, field, running, attempts, connect,
                   operation>>

\* Shutdown ends the client's life before it flushes.
CancelLifetime(d) ==
    /\ closer[d].pc = "cancel"
    /\ lifetime' = FALSE
    /\ closer' = [closer EXCEPT ![d].pc = "flush"]
    /\ UNCHANGED <<closing, closed, done, gate, field, running, attempts, connect,
                   operation>>

\* Flush returns: what was admitted is settled, or the context ends.
FlushReturns(d) ==
    /\ closer[d].pc = "flush"
    /\ closer' = [closer EXCEPT ![d].pc = "finish"]
    /\ UNCHANGED <<closing, closed, done, lifetime, gate, field, running, attempts,
                   connect, operation>>

Taken == {<<"monitor", field.monitor>>, <<"objects", field.objects>>,
          <<"manager", field.manager>>}

\* finishClose: what there is, is taken under the lock, and closed after it.
FinishClose(d) ==
    /\ closer[d].pc = "finish"
    /\ closed' = TRUE
    /\ field' = NoFields
    /\ closer' = [closer EXCEPT ![d] = [pc |-> "stop", took |-> Taken]]
    /\ UNCHANGED <<closing, done, lifetime, gate, running, attempts, connect, operation>>

StopAll(d) ==
    /\ closer[d].pc = "stop"
    /\ lifetime' = FALSE
    /\ running' = running \ closer[d].took
    /\ closer' = [closer EXCEPT ![d] = [pc |-> "workers", took |-> {}]]
    /\ UNCHANGED <<closing, closed, done, gate, field, attempts, connect, operation>>

WaitWorkers(d) ==
    /\ closer[d].pc = "workers"
    /\ NoWorkers
    /\ done' = TRUE
    /\ closer' = [closer EXCEPT ![d].pc = "returned"]
    /\ UNCHANGED <<closing, closed, lifetime, gate, field, running, attempts, connect,
                   operation>>

WaitClosed(d) ==
    /\ closer[d].pc \in {"wait", "bounded"}
    /\ done
    /\ closer' = [closer EXCEPT ![d].pc = "returned"]
    /\ UNCHANGED <<closing, closed, done, lifetime, gate, field, running, attempts,
                   connect, operation>>

\* A second Shutdown waits as long as its context.
GiveUpWaiting(d) ==
    /\ closer[d].pc = "bounded"
    /\ closer' = [closer EXCEPT ![d].pc = "returned"]
    /\ UNCHANGED <<closing, closed, done, lifetime, gate, field, running, attempts,
                   connect, operation>>

ConnectStep(c) ==
    \/ EnterGate(c) \/ LeaveQueue(c) \/ BuildMonitor(c) \/ PublishMonitor(c)
    \/ ConnectFails(c) \/ MonitorConnects(c) \/ BuildObjects(c) \/ BuildFails(c)
    \/ Install(c)
CloserStep(d) ==
    \/ CancelLifetime(d) \/ FlushReturns(d) \/ FinishClose(d) \/ StopAll(d)
    \/ WaitWorkers(d) \/ WaitClosed(d) \/ GiveUpWaiting(d)

Next ==
    \/ \E c \in Connectors : StartConnect(c) \/ ConnectStep(c)
    \/ \E o \in Operations : BeginOperation(o) \/ EndOperation(o)
    \/ \E d \in Closers : BeginClose(d) \/ BeginShutdown(d) \/ CloserStep(d)

Spec == Init /\ [][Next]_vars

\* Goroutines run; a monitor client stops connecting, and an operation ends, once
\* the client's life, and with it their context, has ended.
Fairness ==
    /\ \A c \in Connectors :
           WF_vars((connect[c].pc \notin {"gate", "monitor"} \/ ~lifetime) /\ ConnectStep(c))
    /\ \A o \in Operations : WF_vars(~lifetime /\ EndOperation(o))
    /\ \A d \in Closers : WF_vars(CloserStep(d))

LiveSpec == Spec /\ Fairness

-----------------------------------------------------------------------------
(***************************************************************************)
(* Properties.                                                             *)
(***************************************************************************)
Past(c) == connect[c].pc \notin {"new", "gate", "returned"}
Closes(d) == closer[d].pc \in {"cancel", "flush", "finish", "stop", "workers"}

\* Every variable has the type the code declares it with; one Connect is past the
\* gate, and only one closer closes.
ClientTypeOK ==
    /\ closed => closing
    /\ field.monitor \in 0..attempts
    /\ gate = (\A c \in Connectors : ~Past(c))
    /\ \A c, e \in Connectors : Past(c) /\ Past(e) => c = e
    /\ \A d, e \in Closers : Closes(d) /\ Closes(e) => d = e

\* When Close or Shutdown has returned, nothing the client started runs on:
\* whatever Connect was doing when it came.
ClosedIsQuiet == done => running = {} /\ NoWorkers

\* No client is forgotten: one that runs is a field of the client, or in the hands
\* of the Connect that built it or of the Close that took it.
NothingLost ==
    running \subseteq Taken \cup (UNION {Parts \X {connect[c].attempt} : c \in Connectors})
                      \cup (UNION {closer[d].took : d \in Closers})

\* When Close has returned nothing runs any more, and no part that was started is lost
\* (Connect, Close, Shutdown).
ClientSafe == ClientTypeOK /\ ClosedIsQuiet /\ NothingLost

AllClosed == \A d \in Closers : closer[d].pc \in {"new", "returned"}

\* Once a close began, it returns, for every caller.
CloseReturns == []<>AllClosed
=============================================================================
