-------------------------- MODULE SessionRegistry --------------------------
(***************************************************************************)
(* The objecter's registry of OSD sessions (src/internal/objecter/         *)
(* client.go): getSessionContext hands out the session of an OSD, starting *)
(* at most one creation of it at a time; createSession builds the session  *)
(* outside the lock and checks, before it publishes it, that the OSD is    *)
(* still where it was; watchOSDMaps supersedes creations and invalidates   *)
(* sessions that a new OSD map makes unusable; invalidate removes a        *)
(* session that failed; Close stops everything and waits for the workers.  *)
(*                                                                         *)
(* The entries of different OSDs do not interact, so one OSD is modelled.  *)
(* Its place in the OSD map is one address (0 while it is down) and the    *)
(* monitor client's session generation, which applyBatch raises in one     *)
(* critical section before it stores the map in another.                   *)
(*                                                                         *)
(* A session is named by the creation that built it.                       *)
(***************************************************************************)
EXTENDS Naturals, FiniteSets

CONSTANTS
    Callers,   \* operations that ask for the session
    Addresses, \* addresses the OSD can have
    MaxEpoch,  \* bound on the map's epoch
    MaxRounds  \* bound on the routes one operation takes

VARIABLES
    osdMap,      \* the monitor client's OSD map: epoch and address of the OSD
    generation,  \* its session generation of the OSD
    next,        \* address in the map that is about to be stored, or NoMap
    closed,      \* Client.closed, with Client.done closed
    sessions,    \* Client.sessions[osd]: the session's creation, or 0
    creations,   \* Client.creations[osd]: the pending creation, or 0
    creation,    \* every creation started and the goroutine that runs it
    caller,      \* the operations inside getSessionContext and invalidate
    watcher,     \* the goroutine of watchOSDMaps
    closer       \* the caller of Close

monitorVars == <<osdMap, generation, next>>
tableVars == <<closed, sessions, creations>>
vars == <<osdMap, generation, next, closed, sessions, creations, creation,
          caller, watcher, closer>>

NoMap == MaxEpoch + 1000
Down == 0
Creations == DOMAIN creation

\* The addresses carried by a map: those of an OSD that is up, or none.
Places == Addresses \cup {Down}

(***************************************************************************)
(* The monitor client (see MonClient): the generation of an OSD whose      *)
(* state changed, or of every OSD when a full map is applied, is raised    *)
(* before the map that says so is visible.                                 *)
(***************************************************************************)
RaiseGeneration(place) ==
    /\ next = NoMap
    /\ osdMap.epoch < MaxEpoch
    /\ next' = place
    /\ generation' = generation + 1
    /\ UNCHANGED <<tableVars, osdMap, creation, caller, watcher, closer>>

\* A map that changes the primary's address alone leaves the generation.
KeepGeneration(place) ==
    /\ next = NoMap
    /\ osdMap.epoch < MaxEpoch
    /\ (place = Down) = (osdMap.address = Down)
    /\ next' = place
    /\ UNCHANGED <<tableVars, osdMap, generation, creation, caller, watcher, closer>>

StoreMap ==
    /\ next # NoMap
    /\ osdMap' = [epoch |-> osdMap.epoch + 1, address |-> next]
    /\ next' = NoMap
    /\ UNCHANGED <<tableVars, generation, creation, caller, watcher, closer>>

(***************************************************************************)
(* sessionTarget: the address asked for, checked against the current map,  *)
(* and the generation, read before the map.  What disagrees with the map   *)
(* supersedes a pending creation, in a later critical section.             *)
(***************************************************************************)
TargetError(address) ==
    CASE osdMap.address = Down -> "noPrimary"
      [] osdMap.address \notin {Down, address} -> "stale"
      [] OTHER -> "none"

\* Which pending creation the error found by sessionTarget supersedes: any
\* when the OSD is gone, one for another place or generation when it moved.
Supersedes(r, c) ==
    \/ r.error = "noPrimary"
    \/ /\ r.error = "stale"
       /\ \/ creation[c].address # r.mapped
          \/ creation[c].generation # r.read

\* The pending creation is marked when it is one of these.
Superseding(these) ==
    creation' = [c \in Creations |->
        [creation[c] EXCEPT !.superseded = @ \/ (c = creations /\ c \in these)]]

\* The generation is read where sessionTarget is entered, the map one step on.
ReadGeneration(r) == [r EXCEPT !.read = generation, !.pc = "map"]

ReadMap(r) ==
    [r EXCEPT !.mapped = osdMap.address, !.error = TargetError(r.route),
              !.pc = IF TargetError(r.route) = "none" THEN "target" ELSE "mark"]

(***************************************************************************)
(* getSessionContext.  An operation routes to the address of the current   *)
(* map, asks for the session, uses it, and asks again when the session     *)
(* fails or the map moved.                                                 *)
(***************************************************************************)
Asking ==
    [pc |-> "route", phase |-> "get", round |-> 0, route |-> 0, read |-> 0,
     mapped |-> 0, error |-> "none", k |-> 0, pending |-> 0,
     matched |-> FALSE, since |-> 0]

Step(g, r) == caller' = [caller EXCEPT ![g] = r]

Return(g) == Step(g, [Asking EXCEPT !.pc = "done"])

Again(g) ==
    IF caller[g].round < MaxRounds
    THEN Step(g, [Asking EXCEPT !.round = caller[g].round])
    ELSE Return(g)

Using(g, k) ==
    Step(g, [Asking EXCEPT !.pc = "using", !.round = caller[g].round, !.k = k,
                           !.route = caller[g].route, !.since = caller[g].since])

Route(g) ==
    /\ caller[g].pc = "route"
    /\ osdMap.address # Down
    /\ Step(g, ReadGeneration([caller[g] EXCEPT !.route = osdMap.address,
                                   !.round = @ + 1, !.since = generation]))
    /\ UNCHANGED <<monitorVars, tableVars, creation, watcher, closer>>

\* waitForRoute gives up when no refresh brings a primary.
NoRoute(g) ==
    /\ caller[g].pc = "route"
    /\ osdMap.address = Down
    /\ Return(g)
    /\ UNCHANGED <<monitorVars, tableVars, creation, watcher, closer>>

TargetMap(g) ==
    /\ caller[g].pc = "map"
    /\ Step(g, ReadMap(caller[g]))
    /\ UNCHANGED <<monitorVars, tableVars, creation, watcher, closer>>

TargetMark(g) ==
    /\ caller[g].pc = "mark"
    /\ Superseding({c \in Creations : Supersedes(caller[g], c)})
    /\ IF caller[g].phase = "get" /\ caller[g].error = "noPrimary"
       THEN Return(g)
       ELSE Again(g)
    /\ UNCHANGED <<monitorVars, tableVars, watcher, closer>>

\* creationResult found the place and generation unchanged, or not.
TargetResult(g) ==
    /\ caller[g].pc = "target"
    /\ caller[g].phase = "result"
    /\ IF /\ creation[caller[g].k].address = caller[g].route
          /\ creation[caller[g].k].generation = caller[g].read
       THEN Using(g, caller[g].k)
       ELSE Again(g)
    /\ UNCHANGED <<monitorVars, tableVars, creation, watcher, closer>>

\* The critical section of getSessionContext.
Matches(r, c) ==
    creation[c].address = r.route /\ creation[c].generation = r.read

Awaiting(g, c, matched) ==
    Step(g, [caller[g] EXCEPT !.pc = "wait", !.read = 0, !.mapped = 0, !.k = c,
                              !.matched = matched])

Registered(r) == sessions # 0 /\ Matches(r, sessions)

GetClosed(g) ==
    /\ caller[g].pc = "target"
    /\ caller[g].phase = "get"
    /\ closed
    /\ Return(g)
    /\ UNCHANGED <<monitorVars, tableVars, creation, watcher, closer>>

JoinCreation(g) ==
    /\ caller[g].pc = "target"
    /\ caller[g].phase = "get"
    /\ ~closed
    /\ creations # 0
    /\ Superseding({c \in Creations : ~Matches(caller[g], c)})
    /\ Awaiting(g, creations, Matches(caller[g], creations))
    /\ UNCHANGED <<monitorVars, tableVars, watcher, closer>>

UseExisting(g) ==
    /\ caller[g].pc = "target"
    /\ caller[g].phase = "get"
    /\ ~closed
    /\ creations = 0
    /\ Registered(caller[g])
    /\ Using(g, sessions)
    /\ UNCHANGED <<monitorVars, tableVars, creation, watcher, closer>>

StartCreation(g) ==
    /\ caller[g].pc = "target"
    /\ caller[g].phase = "get"
    /\ ~closed
    /\ creations = 0
    /\ ~Registered(caller[g])
    /\ LET c == Cardinality(Creations) + 1
       IN  /\ creation' = [d \in Creations \cup {c} |->
                  IF d # c THEN creation[d]
                  ELSE [pc |-> IF sessions = 0 THEN "create" ELSE "stopOld",
                        route |-> caller[g].route,
                        address |-> caller[g].route,
                        generation |-> caller[g].read,
                        superseded |-> FALSE, old |-> sessions,
                        session |-> "none", connected |-> 0, err |-> "none",
                        read |-> 0, mapped |-> 0, error |-> "none"]]
           /\ creations' = c
           /\ sessions' = 0
           /\ Awaiting(g, c, TRUE)
    /\ UNCHANGED <<monitorVars, closed, watcher, closer>>

\* The wait for a creation: it ends, the client closes, or the operation's
\* context does.  After a creation for another place the operation starts over.
CreationEnded(g) ==
    /\ caller[g].pc = "wait"
    /\ creation[caller[g].k].pc = "ended"
    /\ CASE ~caller[g].matched -> Step(g, ReadGeneration(caller[g]))
         [] caller[g].matched /\ closed -> Return(g)
         [] caller[g].matched /\ ~closed /\ creation[caller[g].k].err = "none" ->
              Step(g, ReadGeneration([caller[g] EXCEPT !.phase = "result"]))
         [] caller[g].matched /\ ~closed /\ creation[caller[g].k].err = "stale" ->
              Again(g)
         [] OTHER -> Return(g)
    /\ UNCHANGED <<monitorVars, tableVars, creation, watcher, closer>>

WaitClosed(g) ==
    /\ caller[g].pc = "wait"
    /\ closed
    /\ Return(g)
    /\ UNCHANGED <<monitorVars, tableVars, creation, watcher, closer>>

WaitCanceled(g) ==
    /\ caller[g].pc = "wait"
    /\ Return(g)
    /\ UNCHANGED <<monitorVars, tableVars, creation, watcher, closer>>

\* The operation's request is answered, or fails with the session.
UseDone(g) ==
    /\ caller[g].pc = "using"
    /\ Return(g)
    /\ UNCHANGED <<monitorVars, tableVars, creation, watcher, closer>>

UseFailed(g) ==
    /\ caller[g].pc = "using"
    /\ Step(g, [caller[g] EXCEPT !.pc = "invalidate"])
    /\ UNCHANGED <<monitorVars, tableVars, creation, watcher, closer>>

(***************************************************************************)
(* invalidate(osd, failed), by an operation or by the map watcher: it      *)
(* waits for a pending creation to end, then removes the session if it is  *)
(* still the registered one, and stops it outside the lock.                *)
(***************************************************************************)
Removing(r) == [r EXCEPT !.pc = "stopFailed"]

InvalidateWaits(g) ==
    /\ caller[g].pc = "invalidate"
    /\ creations # 0
    /\ Step(g, [caller[g] EXCEPT !.pc = "invalidateWait", !.pending = creations])
    /\ UNCHANGED <<monitorVars, tableVars, creation, watcher, closer>>

InvalidateResumes(g) ==
    /\ caller[g].pc = "invalidateWait"
    /\ creation[caller[g].pending].pc = "ended"
    /\ Step(g, [caller[g] EXCEPT !.pc = "invalidate", !.pending = 0])
    /\ UNCHANGED <<monitorVars, tableVars, creation, watcher, closer>>

InvalidateRemoves(g) ==
    /\ caller[g].pc = "invalidate"
    /\ creations = 0
    /\ IF sessions = caller[g].k
       THEN sessions' = 0 /\ Step(g, Removing(caller[g]))
       ELSE UNCHANGED sessions /\ Again(g)
    /\ UNCHANGED <<monitorVars, closed, creations, creation, watcher, closer>>

StopFailed(g) ==
    /\ caller[g].pc = "stopFailed"
    /\ creation' = [creation EXCEPT ![caller[g].k].session = "stopped"]
    /\ Again(g)
    /\ UNCHANGED <<monitorVars, tableVars, watcher, closer>>

(***************************************************************************)
(* createSession, the goroutine of one creation.                           *)
(***************************************************************************)
Work(c, r) == creation' = [creation EXCEPT ![c] = r]

StopOld(c) ==
    /\ creation[c].pc = "stopOld"
    /\ creation' = [d \in Creations |->
           CASE d = c -> [creation[c] EXCEPT !.pc = "create", !.old = 0]
             [] d = creation[c].old -> [creation[d] EXCEPT !.session = "stopped"]
             [] OTHER -> creation[d]]
    /\ UNCHANGED <<monitorVars, tableVars, caller, watcher, closer>>

\* The session factory is called unless the client closed; it may fail.
CreateClosed(c) ==
    /\ creation[c].pc = "create"
    /\ closed
    /\ Work(c, ReadGeneration([creation[c] EXCEPT !.err = "closed"]))
    /\ UNCHANGED <<monitorVars, tableVars, caller, watcher, closer>>

FactoryCreates(c) ==
    /\ creation[c].pc = "create"
    /\ ~closed
    /\ Work(c, ReadGeneration([creation[c] EXCEPT !.session = "live",
                                              !.connected = generation]))
    /\ UNCHANGED <<monitorVars, tableVars, caller, watcher, closer>>

FactoryFails(c) ==
    /\ creation[c].pc = "create"
    /\ ~closed
    /\ Work(c, ReadGeneration([creation[c] EXCEPT !.err = "failed"]))
    /\ UNCHANGED <<monitorVars, tableVars, caller, watcher, closer>>

\* What disagrees with the map supersedes this creation, the pending one.
CreatorMap(c) ==
    /\ creation[c].pc = "map"
    /\ LET r == ReadMap(creation[c])
       IN  Work(c, [r EXCEPT !.pc = "target",
                             !.superseded = @ \/ Supersedes(r, c)])
    /\ UNCHANGED <<monitorVars, tableVars, caller, watcher, closer>>

\* The outcome decided under the lock, and the session published.
CreationError(c) ==
    CASE closed -> "closed"
      [] /\ ~closed
         /\ \/ creation[c].superseded
            \/ creation[c].error # "none"
            \/ creation[c].read # creation[c].generation -> "stale"
      [] OTHER -> creation[c].err

PublishCreation(c) ==
    /\ creation[c].pc = "target"
    /\ Work(c, [creation[c] EXCEPT !.pc = "finish", !.err = CreationError(c),
                    !.read = 0, !.mapped = 0, !.error = "none"])
    /\ sessions' = IF CreationError(c) = "none" THEN c ELSE sessions
    /\ UNCHANGED <<monitorVars, closed, creations, caller, watcher, closer>>

\* MUTANT of FinishCreation: a session that was not published is left running.
FinishUnstopped(c) ==
    /\ creation[c].pc = "finish"
    /\ Work(c, [creation[c] EXCEPT !.pc = "ended", !.superseded = FALSE])
    /\ creations' = 0
    /\ UNCHANGED <<monitorVars, closed, sessions, caller, watcher, closer>>

\* A session that was not published is stopped; the waiters are released.
FinishCreation(c) ==
    /\ creation[c].pc = "finish"
    /\ Work(c, [creation[c] EXCEPT !.pc = "ended", !.superseded = FALSE,
                    !.session = IF creation[c].err # "none" /\ @ = "live"
                                THEN "stopped" ELSE @,
                    !.err = IF closed /\ @ = "none" THEN "closed" ELSE @])
    /\ creations' = 0
    /\ UNCHANGED <<monitorVars, closed, sessions, caller, watcher, closer>>

(***************************************************************************)
(* watchOSDMaps and invalidateUnusableSessions.                            *)
(***************************************************************************)
Watch(r) == watcher' = r
Watching == [watcher EXCEPT !.pc = "wait", !.place = 0, !.k = 0, !.pending = 0]

\* The snapshots of the map and, under the lock, of the two tables.
MapArrives ==
    /\ watcher.pc = "wait"
    /\ osdMap.epoch > watcher.after
    /\ Watch([watcher EXCEPT !.pc = "snapshot", !.after = osdMap.epoch,
                             !.place = osdMap.address])
    /\ UNCHANGED <<monitorVars, tableVars, creation, caller, closer>>

Snapshot ==
    /\ watcher.pc = "snapshot"
    /\ Watch([watcher EXCEPT !.pc = "creation", !.pending = creations,
                             !.k = sessions])
    /\ UNCHANGED <<monitorVars, tableVars, creation, caller, closer>>

\* The snapshot's creation is superseded when the snapshot's map or the
\* generation puts the OSD elsewhere.
SupersedeCreation ==
    /\ watcher.pc = "creation"
    /\ Superseding({c \in Creations :
           /\ c = watcher.pending
           /\ \/ watcher.place # creation[c].address
              \/ generation # creation[c].generation})
    /\ Watch(IF watcher.k # 0 /\ watcher.place # creation[watcher.k].address
             THEN [watcher EXCEPT !.pc = "invalidate", !.place = 0, !.pending = 0]
             ELSE Watching)
    /\ UNCHANGED <<monitorVars, tableVars, caller, closer>>

WatcherWaits ==
    /\ watcher.pc = "invalidate"
    /\ creations # 0
    /\ Watch([watcher EXCEPT !.pc = "invalidateWait", !.pending = creations])
    /\ UNCHANGED <<monitorVars, tableVars, creation, caller, closer>>

WatcherResumes ==
    /\ watcher.pc = "invalidateWait"
    /\ creation[watcher.pending].pc = "ended"
    /\ Watch([watcher EXCEPT !.pc = "invalidate", !.pending = 0])
    /\ UNCHANGED <<monitorVars, tableVars, creation, caller, closer>>

WatcherRemoves ==
    /\ watcher.pc = "invalidate"
    /\ creations = 0
    /\ IF sessions = watcher.k
       THEN sessions' = 0 /\ Watch(Removing(watcher))
       ELSE UNCHANGED sessions /\ Watch(Watching)
    /\ UNCHANGED <<monitorVars, closed, creations, creation, caller, closer>>

WatcherStops ==
    /\ watcher.pc = "stopFailed"
    /\ creation' = [creation EXCEPT ![watcher.k].session = "stopped"]
    /\ Watch(Watching)
    /\ UNCHANGED <<monitorVars, tableVars, caller, closer>>

WatcherExits ==
    /\ watcher.pc = "wait"
    /\ closed
    /\ Watch([watcher EXCEPT !.pc = "exited"])
    /\ UNCHANGED <<monitorVars, tableVars, creation, caller, closer>>

(***************************************************************************)
(* Close: the tables are taken under the lock, the sessions stopped        *)
(* outside it, and the workers waited for.                                 *)
(***************************************************************************)
CloseTakes ==
    /\ closer.pc = "open"
    /\ closed' = TRUE
    /\ closer' = [pc |-> "stop", k |-> sessions]
    /\ sessions' = 0
    /\ UNCHANGED <<monitorVars, creations, creation, caller, watcher>>

CloseStops ==
    /\ closer.pc = "stop"
    /\ creation' = [c \in Creations |->
           IF c = closer.k THEN [creation[c] EXCEPT !.session = "stopped"]
           ELSE creation[c]]
    /\ closer' = [pc |-> "workers", k |-> 0]
    /\ UNCHANGED <<monitorVars, tableVars, caller, watcher>>

\* Client.workers: creations, the map watcher, and invalidations that
\* removed a session and have yet to stop it.
WorkersDone ==
    /\ \A c \in Creations : creation[c].pc = "ended"
    /\ watcher.pc = "exited"
    /\ \A g \in Callers : caller[g].pc # "stopFailed"

CloseReturns ==
    /\ closer.pc = "workers"
    /\ WorkersDone
    /\ closer' = [closer EXCEPT !.pc = "returned"]
    /\ UNCHANGED <<monitorVars, tableVars, creation, caller, watcher>>

-----------------------------------------------------------------------------
Init ==
    /\ osdMap \in [epoch : {1}, address : {1}]
    /\ generation = 0
    /\ next = NoMap
    /\ closed = FALSE
    /\ sessions = 0
    /\ creations = 0
    /\ creation = << >>
    /\ caller = [g \in Callers |-> Asking]
    /\ watcher = [pc |-> "wait", after |-> 0, place |-> 0, k |-> 0,
                  pending |-> 0]
    /\ closer = [pc |-> "open", k |-> 0]

MonitorStep ==
    \/ \E place \in Places : RaiseGeneration(place) \/ KeepGeneration(place)
    \/ StoreMap

CallerStep(g) ==
    \/ Route(g) \/ NoRoute(g) \/ TargetMap(g)
    \/ TargetMark(g) \/ TargetResult(g) \/ GetClosed(g) \/ JoinCreation(g)
    \/ UseExisting(g) \/ StartCreation(g) \/ CreationEnded(g) \/ WaitClosed(g)
    \/ InvalidateWaits(g) \/ InvalidateResumes(g) \/ InvalidateRemoves(g)
    \/ StopFailed(g)

UserStep(g) == WaitCanceled(g) \/ UseDone(g) \/ UseFailed(g)

CreatorStep(c) ==
    \/ StopOld(c) \/ CreateClosed(c) \/ FactoryCreates(c) \/ FactoryFails(c)
    \/ CreatorMap(c) \/ PublishCreation(c) \/ FinishCreation(c)

WatcherStep ==
    \/ MapArrives \/ Snapshot \/ SupersedeCreation \/ WatcherWaits
    \/ WatcherResumes \/ WatcherRemoves \/ WatcherStops \/ WatcherExits

CloseStep == CloseTakes \/ CloseStops \/ CloseReturns

Next ==
    \/ MonitorStep
    \/ \E g \in Callers : CallerStep(g) \/ UserStep(g)
    \/ \E c \in Creations : CreatorStep(c)
    \/ WatcherStep
    \/ CloseStep

Spec == Init /\ [][Next]_vars

Unfinished == {c \in Creations : creation[c].pc # "ended"}

\* Who answers for a session that runs: the registry, the creation that built
\* it, the creation that replaces it, an invalidation that removed it, or Close.
Owned(c) ==
    \/ sessions = c
    \/ creation[c].pc # "ended"
    \/ \E d \in Creations : creation[d].pc = "stopOld" /\ creation[d].old = c
    \/ \E g \in Callers : caller[g].pc = "stopFailed" /\ caller[g].k = c
    \/ watcher.pc = "stopFailed" /\ watcher.k = c
    \/ closer.pc = "stop" /\ closer.k = c

\* No session is leaked: one that runs is registered or some goroutine is
\* about to stop it, whatever creation, replacement, invalidation and Close
\* interleave; once Close returned, none runs.
NoSessionLeaks ==
    /\ \A c \in Creations : creation[c].session = "live" => Owned(c)
    /\ closer.pc = "returned" =>
           \A c \in Creations : creation[c].session # "live"

\* One creation at a time: client.creations holds the only creation under way,
\* and what is registered meanwhile is that creation's own session.
SingleFlight ==
    /\ Unfinished = {creations} \ {0}
    /\ creations # 0 => sessions \in {0, creations}

\* A caller is never handed a session to another address than it routed to,
\* nor one of a generation older than the OSD had when it asked, nor one that
\* was connected in an earlier life of the OSD than its generation says: a
\* restarted OSD is not sent requests on the connection to its previous life.
HandedOutIsFresh ==
    \A g \in Callers : caller[g].pc = "using" =>
        LET handed == creation[caller[g].k]
        IN  /\ handed.address = caller[g].route
            /\ handed.generation >= caller[g].since
            /\ handed.connected = handed.generation

=============================================================================
