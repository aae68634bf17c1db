-------------------------------- MODULE Watch --------------------------------
(***************************************************************************)
(* A watch on an object (src/internal/objecter/watch.go and its public     *)
(* wrapper in src/coordination.go): registration, the keepalive goroutine  *)
(* that pings and reconnects it, the dispatchers that hand it the          *)
(* notifications of the sessions, the goroutine that forwards events and   *)
(* errors to the caller, and Close.                                        *)
(*                                                                         *)
(* A session is the number under which it was opened.  The OSDs are        *)
(* external: the primary keeps the watch with the connection it is reached *)
(* through, refuses a ping or a reconnect of a watch it does not know, and *)
(* numbers the notifications.                                              *)
(***************************************************************************)
EXTENDS Naturals, Sequences, FiniteSets

CONSTANTS
    OSDs,          \* the OSDs that may be primary
    Queue,         \* capacity of Watch.events
    MaxSessions,   \* bound on the sessions opened
    MaxFaults,     \* bound on faults and lost replies
    MaxNotes       \* bound on the notifications

VARIABLES
    primary,   \* the primary according to the OSD map
    mapSeen,   \* whether watchOSDMaps has dealt with that map
    sessions,  \* Client.sessions: the session to each OSD, 0 when there is none
    opened,    \* how many sessions were opened
    resets,    \* the OSDs whose session was reset and not yet signaled
    server,    \* the watch at the primary: registered, and its connection
    wire,      \* the notifications on their way, by session
    watch,     \* the fields of Watch; at is where an operation has succeeded
    keeper,    \* the keepalive goroutine
    closer,    \* a caller of Watch.Close
    shutdown,  \* Client.Close: none, waiting for the watches it stopped, returned
    forward,   \* the forwarding goroutine and the channels of the public Watch
    notes,     \* how many notifications were sent
    quiet,     \* the connection was lost and no error reported since
    faults     \* the faults so far

vars == <<primary, mapSeen, sessions, opened, resets, server, wire, watch, keeper,
          closer, forward, shutdown, notes, quiet, faults>>

Fault ==
    /\ faults < MaxFaults
    /\ faults' = faults + 1

Init ==
    /\ primary = CHOOSE o \in OSDs : TRUE
    /\ mapSeen = TRUE
    /\ sessions = [o \in OSDs |-> 0]
    /\ opened = 0
    /\ resets = {}
    /\ server = [registered |-> FALSE, conn |-> 0]
    /\ wire = <<>>
    /\ watch = [pc |-> "idle", route |-> 0, at |-> 0, listed |-> FALSE, done |-> FALSE,
                busy |-> FALSE, unwatched |-> FALSE, reconnect |-> FALSE,
                errors |-> FALSE, events |-> 0]
    /\ keeper = "none"
    /\ closer = "idle"
    /\ forward = [pc |-> "none", errors |-> FALSE]
    /\ notes = 0
    /\ quiet = FALSE
    /\ shutdown = "none"
    /\ faults = 0

(***************************************************************************)
(* watch.stop and Watch.Close's first part end the watch once; interrupt   *)
(* reports and asks for a reconnect.  Both channels hold one item, and a   *)
(* full one takes no other.                                                *)
(***************************************************************************)
Reported(w) == [w EXCEPT !.errors = TRUE]
Interrupted(w) == [w EXCEPT !.errors = TRUE, !.reconnect = TRUE]
Stopped(w) == IF w.done THEN w ELSE [w EXCEPT !.done = TRUE, !.errors = TRUE]

\* The connection of an established watch goes down with session s: not before
\* the operation that connected it has returned and set the route.
Unnoticed(s) == /\ watch.listed /\ watch.pc = "up"
                /\ keeper \notin {"recover", "return"}
                /\ server.conn = s /\ s # 0

\* The watches of an OSD are found by the route they were last seen on.
InterruptFor(o) ==
    IF watch.listed /\ watch.route = o
    THEN watch' = Interrupted(watch) /\ quiet' = FALSE
    ELSE UNCHANGED watch /\ quiet' = (quiet \/ Unnoticed(sessions[o]))


(***************************************************************************)
(* A watch operation runs on the session to the current primary, opened if *)
(* need be.  Operate(op, sent, ok) is its effect on both ends: whether the *)
(* OSD got it, and whether the caller learns that it succeeded.            *)
(***************************************************************************)
Accepts(op, s) ==
    CASE op = "ping" -> server.registered /\ server.conn = s
      [] op = "reconnect" -> server.registered
      [] OTHER -> TRUE

Effect(op, s) ==
    CASE op = "unwatch" -> [registered |-> FALSE, conn |-> 0]
      [] op = "ping" -> server
      [] OTHER -> [registered |-> TRUE, conn |-> s]

\* The outcomes: done, refused by the OSD, or (at the price of a fault) lost
\* before or after the OSD applied it; a closed client fails it.
Operate(op, outcome) ==
    LET s == IF sessions[primary] # 0 THEN sessions[primary] ELSE opened + 1 IN
    /\ shutdown = "none" /\ s <= MaxSessions
    /\ sessions' = [sessions EXCEPT ![primary] = s]
    /\ opened' = IF s > opened THEN s ELSE opened
    /\ \/ /\ outcome = "ok" /\ Accepts(op, s)
          /\ server' = Effect(op, s)
          /\ UNCHANGED faults
       \/ /\ outcome = "refused" /\ ~Accepts(op, s)
          /\ UNCHANGED <<server, faults>>
       \/ /\ outcome = "lost"
          /\ server' \in {server} \cup {Effect(op, s) : x \in {y \in {1} : Accepts(op, s)}}
          /\ Fault

OperateClosed ==
    /\ shutdown # "none"
    /\ UNCHANGED <<sessions, opened, server, faults>>

(***************************************************************************)
(* Client.Watch: the watch is listed before it is registered.              *)
(***************************************************************************)
WatchBegins ==
    /\ watch.pc = "idle" /\ shutdown = "none"
    /\ watch' = [watch EXCEPT !.pc = "registering", !.route = primary, !.listed = TRUE]
    /\ UNCHANGED <<primary, mapSeen, sessions, opened, resets, server, wire, keeper,
                   closer, forward, shutdown, notes, quiet, faults>>

WatchRegisters ==
    /\ watch.pc = "registering"
    /\ Operate("register", "ok")
    /\ watch' = [watch EXCEPT !.pc = "registered", !.at = primary]
    /\ UNCHANGED <<primary, mapSeen, resets, wire, keeper, closer, forward, shutdown, notes, quiet>>

\* The operation has returned: setRoute with where it went.
WatchReturns ==
    /\ watch.pc = "registered"
    /\ watch' = [watch EXCEPT !.pc = "up", !.route = watch.at, !.at = 0]
    /\ keeper' = "select"
    /\ forward' = [forward EXCEPT !.pc = "select"]
    /\ UNCHANGED <<primary, mapSeen, sessions, opened, resets, server, wire, closer, shutdown,
                   notes, quiet, faults>>

WatchFails ==
    /\ watch.pc = "registering"
    /\ Operate("register", "lost")
    /\ watch' = [watch EXCEPT !.pc = "failed", !.listed = FALSE]
    /\ UNCHANGED <<primary, mapSeen, resets, wire, keeper, closer, forward, shutdown, notes, quiet>>

WatchRefused ==
    /\ watch.pc = "registering"
    /\ OperateClosed
    /\ watch' = [watch EXCEPT !.pc = "failed", !.listed = FALSE]
    /\ UNCHANGED <<primary, mapSeen, resets, wire, keeper, closer, forward, shutdown, notes, quiet>>

(***************************************************************************)
(* keepalive and recover.  ops is a token: one watch operation at a time.  *)
(***************************************************************************)
KeeperWakes ==
    /\ keeper = "select"
    /\ \/ watch.done /\ keeper' = "end" /\ UNCHANGED watch
       \/ watch.reconnect /\ keeper' = "forced"
          /\ watch' = [watch EXCEPT !.reconnect = FALSE]
       \/ keeper' = "tick" /\ UNCHANGED watch
    /\ UNCHANGED <<primary, mapSeen, sessions, opened, resets, server, wire, closer,
                   forward, shutdown, notes, quiet, faults>>

\* With the token: looks again whether the watch is done, and compares routes.
KeeperTakes ==
    /\ keeper \in {"tick", "forced"}
    /\ ~watch.busy \/ watch.done
    /\ LET changed == watch.route # primary IN
       IF watch.done
       THEN keeper' = "end" /\ UNCHANGED <<watch, quiet>>
       ELSE /\ watch' = [watch EXCEPT !.busy = TRUE, !.errors = @ \/ changed]
            /\ quiet' = (quiet /\ ~changed)
            /\ keeper' = IF keeper = "forced" \/ changed THEN "recover" ELSE "ping"
    /\ UNCHANGED <<primary, mapSeen, sessions, opened, resets, server, wire, closer,
                   forward, shutdown, notes, faults>>

\* An operation of the keeper has succeeded; the route is set when it returns.
KeeperOperates(op) ==
    /\ keeper = op
    /\ ~watch.done
    /\ Operate(IF op = "recover" THEN "reconnect" ELSE "ping", "ok")
    /\ watch' = [watch EXCEPT !.at = primary]
    /\ keeper' = "return"
    /\ UNCHANGED <<primary, mapSeen, resets, wire, closer, forward, shutdown, notes, quiet>>

KeeperReturns ==
    /\ keeper = "return"
    /\ watch' = [watch EXCEPT !.route = watch.at, !.at = 0, !.busy = FALSE]
    /\ keeper' = "select"
    /\ UNCHANGED <<primary, mapSeen, sessions, opened, resets, server, wire, closer,
                   forward, shutdown, notes, quiet, faults>>

AfterPing == /\ keeper' = "recover"
             /\ watch' = Reported(watch)
             /\ quiet' = FALSE

PingFails ==
    /\ keeper = "ping"
    /\ ~watch.done
    /\ \E outcome \in {"refused", "lost"} : Operate("ping", outcome)
    /\ AfterPing
    /\ UNCHANGED <<primary, mapSeen, resets, wire, closer, forward, shutdown, notes>>

\* A reconnect that failed is repeated, on a new session if it ran out of time.
RecoverFails ==
    /\ keeper = "recover"
    /\ ~watch.done
    /\ \/ /\ Operate("reconnect", "refused")
          /\ UNCHANGED <<watch, quiet>>
       \/ /\ Fault
          /\ sessions[primary] # 0
          /\ sessions' = [sessions EXCEPT ![primary] = 0]
          /\ server' = [server EXCEPT !.conn = 0]
          /\ InterruptFor(primary)
          /\ UNCHANGED opened
    /\ UNCHANGED <<primary, mapSeen, resets, wire, keeper, closer, forward, shutdown, notes>>

\* An error the OSD will repeat (terminalWatchError) ends the watch.
RecoverEnds ==
    /\ keeper = "recover"
    /\ ~watch.done
    /\ Fault
    /\ watch' = [Stopped(watch) EXCEPT !.listed = FALSE, !.busy = FALSE]
    /\ quiet' = FALSE
    /\ keeper' = "end"
    /\ UNCHANGED <<primary, mapSeen, sessions, opened, resets, server, wire, closer,
                   forward, shutdown, notes>>

\* The lifetime was canceled during an operation, which may have been applied.
KeeperCanceled ==
    /\ keeper \in {"ping", "recover"}
    /\ watch.done
    /\ watch' = [watch EXCEPT !.busy = FALSE]
    /\ keeper' = "end"
    /\ UNCHANGED <<primary, mapSeen, sessions, opened, resets, server, wire, closer,
                   forward, shutdown, notes, quiet, faults>>

(***************************************************************************)
(* Watch.Close: ends the watch, then unregisters it, once.                 *)
(***************************************************************************)
CloseStops ==
    /\ closer \in {"idle", "failed"}
    /\ watch.pc = "up"
    /\ watch' = [watch EXCEPT !.done = TRUE, !.listed = FALSE]
    /\ closer' = "take"
    /\ UNCHANGED <<primary, mapSeen, sessions, opened, resets, server, wire, keeper,
                   forward, shutdown, notes, quiet, faults>>

CloseTakes ==
    /\ closer = "take"
    /\ ~watch.busy
    /\ watch' = IF watch.unwatched THEN watch ELSE [watch EXCEPT !.busy = TRUE]
    /\ closer' = IF watch.unwatched THEN "closed" ELSE "unwatch"
    /\ UNCHANGED <<primary, mapSeen, sessions, opened, resets, server, wire, keeper,
                   forward, shutdown, notes, quiet, faults>>

\* MUTANT of CloseUnwatches: the next Close finds nothing left to do.
CloseUnwatchesOnce ==
    /\ closer = "unwatch"
    /\ \E outcome \in {"ok", "lost"} :
          /\ Operate("unwatch", outcome) \/ (outcome = "lost" /\ OperateClosed)
          /\ watch' = [watch EXCEPT !.busy = FALSE, !.unwatched = TRUE]
          /\ closer' = IF outcome = "ok" THEN "closed" ELSE "failed"
    /\ UNCHANGED <<primary, mapSeen, resets, wire, keeper, forward, shutdown, notes, quiet>>

CloseUnwatches ==
    /\ closer = "unwatch"
    /\ \E outcome \in {"ok", "lost"} :
          /\ Operate("unwatch", outcome) \/ (outcome = "lost" /\ OperateClosed)
          /\ watch' = [watch EXCEPT !.busy = FALSE, !.unwatched = outcome = "ok"]
          /\ closer' = IF outcome = "ok" THEN "closed" ELSE "failed"
    /\ UNCHANGED <<primary, mapSeen, resets, wire, keeper, forward, shutdown, notes, quiet>>

(***************************************************************************)
(* dispatchNotifications and the interruptions of the sessions.            *)
(***************************************************************************)
Current(s) == \E o \in OSDs : sessions[o] = s

HasRoom == watch.events < Queue

Dispatch ==
    /\ wire # <<>>
    /\ wire' = Tail(wire)
    /\ LET note == Head(wire) IN
       IF Current(note.on) /\ watch.listed /\ note.event = "disconnect"
       THEN watch' = Interrupted(watch) /\ quiet' = FALSE
       ELSE /\ watch' = IF ~Current(note.on) \/ ~watch.listed \/ watch.done THEN watch
                        ELSE IF HasRoom THEN [watch EXCEPT !.events = @ + 1]
                        ELSE [Stopped(watch) EXCEPT !.listed = FALSE]
            /\ UNCHANGED quiet
    /\ UNCHANGED <<primary, mapSeen, sessions, opened, resets, server, keeper, closer,
                   forward, shutdown, notes, faults>>

\* signalSessionWatches: the session was reset and goes on.
DispatchReset(o) ==
    /\ o \in resets
    /\ resets' = resets \ {o}
    /\ IF sessions[o] # 0 /\ watch.listed /\ watch.route = o
       THEN watch' = Interrupted(watch) /\ quiet' = FALSE
       ELSE UNCHANGED <<watch, quiet>>
    /\ UNCHANGED <<primary, mapSeen, sessions, opened, server, wire, keeper, closer,
                   forward, shutdown, notes, faults>>

\* invalidate and interruptSessionWatches: the session is dropped.
LoseSession(o) ==
    /\ sessions[o] # 0
    /\ Fault
    /\ sessions' = [sessions EXCEPT ![o] = 0]
    /\ server' = IF server.conn = sessions[o] THEN [server EXCEPT !.conn = 0] ELSE server
    /\ InterruptFor(o)
    /\ UNCHANGED <<primary, mapSeen, opened, resets, wire, keeper, closer, forward, shutdown,
                   notes>>

ResetSession(o) ==
    /\ sessions[o] # 0
    /\ Fault
    /\ resets' = resets \cup {o}
    /\ server' = IF server.conn = sessions[o] THEN [server EXCEPT !.conn = 0] ELSE server
    /\ wire' = SelectSeq(wire, LAMBDA note : note.on # sessions[o])
    /\ quiet' = (quiet \/ Unnoticed(sessions[o]))
    /\ UNCHANGED <<primary, mapSeen, sessions, opened, watch, keeper, closer, forward, shutdown,
                   notes>>

\* The primary changes, and the watcher of the OSD maps sees it later.
Remap ==
    /\ Fault
    /\ \E o \in OSDs \ {primary} : primary' = o
    /\ mapSeen' = FALSE
    /\ server' = [server EXCEPT !.conn = 0]
    /\ quiet' = (quiet \/ Unnoticed(server.conn))
    /\ UNCHANGED <<sessions, opened, resets, wire, watch, keeper, closer, forward, shutdown, notes>>

WatchMaps ==
    /\ ~mapSeen
    /\ mapSeen' = TRUE
    /\ IF watch.listed /\ watch.route # primary
       THEN watch' = Interrupted(watch) /\ quiet' = FALSE
       ELSE UNCHANGED <<watch, quiet>>
    /\ UNCHANGED <<primary, sessions, opened, resets, server, wire, keeper, closer,
                   forward, shutdown, notes, faults>>

\* The OSD notifies the watch that it can reach.
Notify ==
    /\ server.registered /\ server.conn # 0
    /\ notes < MaxNotes
    /\ notes' = notes + 1
    /\ wire' = Append(wire, [on |-> server.conn, event |-> "notify"])
    /\ UNCHANGED <<primary, mapSeen, sessions, opened, resets, server, watch, keeper,
                   closer, forward, shutdown, quiet, faults>>

\* The OSD gives the watch up, and says so if it can reach it.
Disconnect ==
    /\ server.registered
    /\ Fault
    /\ server' = [registered |-> FALSE, conn |-> 0]
    /\ wire' = IF server.conn = 0 THEN wire
               ELSE Append(wire, [on |-> server.conn, event |-> "disconnect"])
    /\ quiet' = (quiet \/ Unnoticed(server.conn))
    /\ UNCHANGED <<primary, mapSeen, sessions, opened, resets, watch, keeper, closer,
                   forward, shutdown, notes>>

(***************************************************************************)
(* Client.Close stops the watches there are and every session, and waits   *)
(* for the goroutines of those watches.                                    *)
(***************************************************************************)
ClientCloses ==
    /\ shutdown = "none"
    /\ shutdown' = IF watch.listed THEN "waiting" ELSE "returned"
    /\ watch' = IF watch.listed THEN [Stopped(watch) EXCEPT !.listed = FALSE] ELSE watch
    /\ sessions' = [o \in OSDs |-> 0]
    /\ resets' = {} /\ wire' = <<>>
    /\ server' = [server EXCEPT !.conn = 0]
    /\ UNCHANGED <<primary, mapSeen, opened, keeper, closer, forward, notes, quiet, faults>>

\* Watch.wait: Watch has failed, or its keepalive goroutine has ended.
ClientCloseReturns ==
    /\ shutdown = "waiting"
    /\ watch.pc = "failed" \/ keeper = "end"
    /\ shutdown' = "returned"
    /\ UNCHANGED <<primary, mapSeen, sessions, opened, resets, server, wire, watch, keeper,
                   closer, forward, notes, quiet, faults>>

(***************************************************************************)
(* The public Watch: forward hands over one event or error at a time; the  *)
(* caller reads when it likes.                                             *)
(***************************************************************************)
ForwardTakesEvent ==
    /\ forward.pc = "select"
    /\ watch.events > 0
    /\ watch' = [watch EXCEPT !.events = @ - 1]
    /\ forward' = [forward EXCEPT !.pc = IF watch.done THEN "end" ELSE "hand"]
    /\ UNCHANGED <<primary, mapSeen, sessions, opened, resets, server, wire, keeper,
                   closer, shutdown, notes, quiet, faults>>

\* An error, or after done the error left behind.
ForwardTakesError ==
    /\ forward.pc = "select"
    /\ watch.errors
    /\ watch' = [watch EXCEPT !.errors = FALSE]
    /\ forward' = [forward EXCEPT !.errors = TRUE]
    /\ UNCHANGED <<primary, mapSeen, sessions, opened, resets, server, wire, keeper,
                   closer, shutdown, notes, quiet, faults>>

ForwardEnds ==
    /\ watch.done
    /\ \/ /\ forward.pc = "select"
          /\ watch' = [watch EXCEPT !.errors = FALSE]
          /\ forward' = [forward EXCEPT !.pc = "end", !.errors = @ \/ watch.errors]
       \/ /\ forward.pc = "hand"
          /\ forward' = [forward EXCEPT !.pc = "end"]
          /\ UNCHANGED watch
    /\ UNCHANGED <<primary, mapSeen, sessions, opened, resets, server, wire, keeper,
                   closer, shutdown, notes, quiet, faults>>

ReadEvent ==
    /\ forward.pc = "hand"
    /\ forward' = [forward EXCEPT !.pc = "select"]
    /\ UNCHANGED <<primary, mapSeen, sessions, opened, resets, server, wire, watch,
                   keeper, closer, shutdown, notes, quiet, faults>>

KeeperStep == KeeperWakes \/ KeeperTakes \/ KeeperOperates("ping")
              \/ KeeperOperates("recover") \/ KeeperReturns \/ PingFails \/ RecoverFails
              \/ KeeperCanceled

CloserStep == CloseTakes \/ CloseUnwatches

Next ==
    \/ WatchBegins \/ WatchRegisters \/ WatchReturns \/ WatchFails \/ WatchRefused
    \/ KeeperStep \/ RecoverEnds
    \/ CloseStops \/ CloserStep
    \/ Dispatch \/ WatchMaps \/ Remap \/ Notify \/ Disconnect
    \/ ClientCloses \/ ClientCloseReturns
    \/ \E o \in OSDs : DispatchReset(o) \/ LoseSession(o) \/ ResetSession(o)
    \/ ForwardTakesEvent \/ ForwardTakesError \/ ForwardEnds \/ ReadEvent

Spec == Init /\ [][Next]_vars

\* The goroutines go on, ticks come, and operations return; the caller need not
\* read.
Fairness == /\ WF_vars(WatchReturns) /\ WF_vars(WatchRefused) /\ WF_vars(ClientCloseReturns) /\ WF_vars(KeeperStep) /\ WF_vars(CloserStep)
            /\ WF_vars(ForwardEnds) /\ WF_vars(WatchMaps) /\ WF_vars(Dispatch)
            /\ \A o \in OSDs : WF_vars(DispatchReset(o))

LiveSpec == Spec /\ Fairness

-----------------------------------------------------------------------------
(***************************************************************************)
(* Properties.                                                             *)
(***************************************************************************)
\* Every variable has the type the code declares it with.
WatchTypeOK ==
    /\ primary \in OSDs
    /\ \A o \in OSDs : sessions[o] \in 0..opened
    /\ server.conn \in 0..opened
    /\ watch.events <= Queue
    /\ keeper \in {"none", "select", "tick", "forced", "ping", "recover", "return", "end"}

\* When Close has reported success the OSD does not have the watch, whatever the
\* keepalive goroutine was doing: reconnects and the unwatch exclude each other.
ClosedIsUnregistered == closer = "closed" => ~server.registered

\* A lost connection has been reported, and a watch the OSD still has is connected
\* again; when Close was called, or Client.Close, it has returned and the watch's goroutines
\* have ended.
Settled ==
    /\ ~quiet \/ ~watch.listed \/ opened = MaxSessions
    /\ watch.pc = "up" /\ server.registered => server.conn # 0 \/ watch.done \/ opened = MaxSessions
    /\ closer # "idle" => closer \in {"closed", "failed"} /\ keeper = "end" /\ forward.pc = "end"
    /\ shutdown # "none" => shutdown = "returned" /\ keeper \in {"none", "end"} /\ forward.pc \in {"none", "end"}

=============================================================================
