------------------------------ MODULE MonClient ------------------------------
(***************************************************************************)
(* The life of the monitor client (src/internal/mon/client.go): Connect    *)
(* starts it once, its goroutine keeps one session to some monitor of the  *)
(* current endpoints and fails over to the next, Close stops it in the     *)
(* middle of any of this, and commands are submitted, and if they only     *)
(* read submitted again, while sessions come and go.                       *)
(*                                                                         *)
(* A session is the number under which it was opened.  The goroutines of   *)
(* start and run follow each other and are one process, the runner.        *)
(***************************************************************************)
EXTENDS Naturals, Sequences, FiniteSets

CONSTANTS
    Seeds,       \* Config.Endpoints: a sequence of monitor endpoints
    Announced,   \* the endpoint sequences MonMaps may announce
    Commands,    \* the callers of Command
    ReadOnly,    \* those whose command isReadOnlyCommand
    MaxSessions, \* bound on the sessions opened
    MaxFaults    \* bound on failed opens, lost submissions and lost sessions

VARIABLES
    client,    \* the flags and channels of Client; done counts close(done)
    session,   \* Client.session: 0 when nil
    changes,   \* how many sessionChanged channels were closed
    endpoints, \* the endpoints, Client.nextEndpoint and Client.activeEndpoint
    runner,    \* the goroutine of start, then of run, and the session it holds
    closer,    \* a caller of Close
    connector, \* a caller of Connect
    command,   \* the callers of Command
    opened,    \* how many sessions were opened
    alive,     \* the sessions that neither ended nor were stopped
    lifetimes, \* the sessions whose sessionContext is not canceled
    faults     \* the faults so far

vars == <<client, session, changes, endpoints, runner, closer, connector, command,
          opened, alive, lifetimes, faults>>

Fault ==
    /\ faults < MaxFaults
    /\ faults' = faults + 1

Init ==
    /\ client = [canceled |-> FALSE, closed |-> FALSE, startDone |-> FALSE,
                 startErr |-> FALSE, runStarted |-> FALSE, done |-> 0,
                 ready |-> FALSE, failed |-> FALSE]
    /\ session = 0
    /\ changes = 0
    /\ endpoints = [list |-> Seeds, next |-> 1, active |-> 0]
    /\ runner = [pc |-> "none", on |-> 0, at |-> 0, tries |-> 0]
    /\ closer = "idle"
    /\ connector = "idle"
    /\ command = [c \in Commands |->
                     [pc |-> "read", on |-> 0, accepted |-> FALSE,
                      channel |-> 0, submits |-> 0]]
    /\ opened = 0
    /\ alive = {}
    /\ lifetimes = {}
    /\ faults = 0

(***************************************************************************)
(* Connect.                                                                *)
(***************************************************************************)
\* started is set and the goroutine of start spawned by the first Connect only.
Connect ==
    /\ connector = "idle"
    /\ connector' = IF client.closed THEN "closed" ELSE "starting"
    /\ runner' = IF ~client.closed /\ runner.pc = "none"
                 THEN [runner EXCEPT !.pc = "start"] ELSE runner
    /\ UNCHANGED <<client, session, changes, endpoints, closer, command, opened, alive,
                   lifetimes, faults>>

ConnectStarted ==
    /\ connector = "starting"
    /\ client.startDone
    /\ connector' = IF client.startErr THEN "failed" ELSE "waiting"
    /\ UNCHANGED <<client, session, changes, endpoints, runner, closer, command, opened,
                   alive, lifetimes, faults>>

\* Of the channels that are closed select takes any; of done, ready goes first.
ConnectReturns ==
    /\ connector = "waiting"
    /\ \/ client.ready /\ connector' = "ready"
       \/ client.failed /\ connector' = "failed"
       \/ client.done # 0 /\ connector' = IF client.ready THEN "ready"
                                          ELSE IF client.failed THEN "failed"
                                          ELSE "closed"
    /\ UNCHANGED <<client, session, changes, endpoints, runner, closer, command, opened,
                   alive, lifetimes, faults>>

(***************************************************************************)
(* openNext: the endpoints in turn, each once, from where the last search  *)
(* left off.  Opening may fail, and does once the client's context is      *)
(* canceled.  After the last endpoint the goroutine waits and starts over, *)
(* unless that context is canceled.                                        *)
(***************************************************************************)
Opening == runner.pc \in {"start", "failover"}
Wrap(i, n) == (i % n) + 1

OpenSucceeds ==
    /\ Opening
    /\ ~client.canceled
    /\ opened < MaxSessions
    /\ opened' = opened + 1
    /\ alive' = alive \cup {opened + 1}
    /\ runner' = [pc |-> IF runner.pc = "start" THEN "started" ELSE "replaced",
                  on |-> opened + 1, at |-> endpoints.list[endpoints.next], tries |-> 0]
    /\ endpoints' = [endpoints EXCEPT !.next = Wrap(@, Len(endpoints.list))]
    /\ UNCHANGED <<client, session, changes, closer, connector, command, lifetimes,
                   faults>>

OpenFails ==
    /\ Opening
    /\ client.canceled \/ runner.tries < Len(endpoints.list)
    /\ IF client.canceled THEN UNCHANGED faults ELSE Fault
    /\ endpoints' = [endpoints EXCEPT !.next = Wrap(@, Len(endpoints.list))]
    /\ runner' = IF runner.tries + 1 < Len(endpoints.list)
                 THEN [runner EXCEPT !.tries = @ + 1]
                 ELSE [runner EXCEPT !.tries = 0, !.on = 0,
                                     !.pc = IF ~client.canceled THEN @
                                            ELSE IF @ = "start" THEN "started"
                                            ELSE "return"]
    /\ UNCHANGED <<client, session, changes, closer, connector, command, opened, alive,
                   lifetimes>>

\* Under the lock: the session is registered with a lifetime of its own.
Register ==
    /\ session' = runner.on
    /\ lifetimes' = IF client.canceled THEN {} ELSE lifetimes \cup {runner.on}
    /\ changes' = changes + 1
    /\ endpoints' = [endpoints EXCEPT !.active = runner.at]
    /\ runner' = [runner EXCEPT !.pc = "loop"]

\* start's end, under the lock: nothing was opened, or the client was closed
\* meanwhile, or run takes over.
Started ==
    /\ runner.pc = "started"
    /\ IF client.closed \/ runner.on = 0
       THEN /\ client' = [client EXCEPT !.startDone = TRUE, !.startErr = TRUE]
            /\ runner' = [runner EXCEPT !.pc = IF runner.on = 0 THEN "ended" ELSE "abandon"]
            /\ UNCHANGED <<session, lifetimes, changes, endpoints>>
       ELSE /\ client' = [client EXCEPT !.startDone = TRUE, !.runStarted = TRUE]
            /\ Register
    /\ UNCHANGED <<closer, connector, command, opened, alive, faults>>

\* MUTANT of StartAbandons: the session is left running.
StartForgets ==
    /\ runner.pc = "abandon"
    /\ runner' = [runner EXCEPT !.pc = "ended", !.on = 0]
    /\ UNCHANGED <<client, session, changes, endpoints, closer, connector, command,
                   opened, alive, lifetimes, faults>>

\* After the lock and startDone, on which Close waits: the session opened for a
\* client that was closed meanwhile is stopped.
StartAbandons ==
    /\ runner.pc = "abandon"
    /\ alive' = alive \ {runner.on}
    /\ runner' = [runner EXCEPT !.pc = "ended", !.on = 0]
    /\ UNCHANGED <<client, session, changes, endpoints, closer, connector, command,
                   opened, lifetimes, faults>>

(***************************************************************************)
(* run and failover.                                                       *)
(***************************************************************************)
InLoop == runner.pc = "loop"

\* failover's begin: the session is stopped, and unregistered if it still is
\* the client's.
Drop ==
    /\ alive' = alive \ {runner.on}
    /\ runner' = [runner EXCEPT !.pc = "failover", !.on = 0]
    /\ IF session = runner.on
       THEN /\ session' = 0
            /\ lifetimes' = lifetimes \ {runner.on}
            /\ changes' = changes + 1
       ELSE UNCHANGED <<session, lifetimes, changes>>

SessionEnded ==
    /\ InLoop
    /\ runner.on \notin alive
    /\ Drop
    /\ UNCHANGED <<client, endpoints, closer, connector, command, opened, faults>>

\* A message of another cluster (ErrForeignCluster).
Foreign ==
    /\ InLoop
    /\ Fault
    /\ Drop
    /\ UNCHANGED <<client, endpoints, closer, connector, command, opened>>

NewEndpoints(list) == [endpoints EXCEPT !.list = list, !.next = 1]

Removed(list) == \A i \in 1..Len(list) : list[i] # endpoints.active

\* A newer MonMap replaces the endpoints, unless it announces none that can be
\* used; if the monitor of the session is not among them it is left.
HandleMonMap(list) ==
    /\ InLoop
    /\ list # endpoints.list
    /\ runner.on \in alive
    /\ endpoints' = IF list = <<>> THEN endpoints
                    ELSE NewEndpoints(list)
    /\ IF list # <<>> /\ Removed(list)
       THEN Drop
       ELSE UNCHANGED <<alive, runner, session, lifetimes, changes>>
    /\ UNCHANGED <<client, closer, connector, command, opened, faults>>

\* Both maps have arrived (module MonMaps).
BecomesReady ==
    /\ InLoop
    /\ runner.on \in alive
    /\ ~client.ready
    /\ client' = [client EXCEPT !.ready = TRUE]
    /\ UNCHANGED <<session, changes, endpoints, runner, closer, connector, command,
                   opened, alive, lifetimes, faults>>

\* A message that does not decode fails a Connect that is not ready yet.
HandleMalformed ==
    /\ InLoop
    /\ Fault
    /\ client' = [client EXCEPT !.failed = @ \/ ~client.ready]
    /\ UNCHANGED <<session, changes, endpoints, runner, closer, connector, command,
                   opened, alive, lifetimes>>

\* The session received what this client cannot decode: the goroutine stops it
\* and returns, and the client keeps it.
Unsupported ==
    /\ InLoop
    /\ runner.on \in alive
    /\ Fault
    /\ alive' = alive \ {runner.on}
    /\ client' = [client EXCEPT !.failed = @ \/ ~client.ready]
    /\ runner' = [runner EXCEPT !.pc = "return"]
    /\ UNCHANGED <<session, changes, endpoints, closer, connector, command, opened,
                   lifetimes>>

Replaced ==
    /\ runner.pc = "replaced"
    /\ IF client.closed
       THEN /\ alive' = alive \ {runner.on}
            /\ runner' = [runner EXCEPT !.pc = "return", !.on = 0]
            /\ UNCHANGED <<session, lifetimes, changes, endpoints>>
       ELSE Register /\ UNCHANGED alive
    /\ UNCHANGED <<client, closer, connector, command, opened, faults>>

RunCanceled ==
    /\ InLoop
    /\ client.canceled
    /\ runner' = [runner EXCEPT !.pc = "return"]
    /\ UNCHANGED <<client, session, changes, endpoints, closer, connector, command,
                   opened, alive, lifetimes, faults>>

RunReturns ==
    /\ runner.pc = "return"
    /\ client' = [client EXCEPT !.done = @ + 1]
    /\ runner' = [runner EXCEPT !.pc = "ended", !.on = 0]
    /\ UNCHANGED <<session, changes, endpoints, closer, connector, command, opened,
                   alive, lifetimes, faults>>

(***************************************************************************)
(* Close.                                                                  *)
(***************************************************************************)
CloseCancels ==
    /\ closer = "idle"
    /\ client' = [client EXCEPT !.canceled = TRUE]
    /\ lifetimes' = {}
    /\ closer' = "mark"
    /\ UNCHANGED <<session, changes, endpoints, runner, connector, command, opened,
                   alive, faults>>

CloseMarks ==
    /\ closer = "mark"
    /\ client' = [client EXCEPT !.closed = TRUE]
    /\ closer' = IF runner.pc = "none" THEN "take" ELSE "wait"
    /\ UNCHANGED <<session, changes, endpoints, runner, connector, command, opened,
                   alive, lifetimes, faults>>

CloseTakes ==
    /\ closer = "take" \/ (closer = "wait" /\ client.startDone)
    /\ session' = 0
    /\ changes' = IF session # 0 THEN changes + 1 ELSE changes
    /\ alive' = alive \ {session}
    /\ closer' = "finish"
    /\ UNCHANGED <<client, endpoints, runner, connector, command, opened, lifetimes,
                   faults>>

CloseFinishes ==
    /\ closer = "finish"
    /\ IF client.runStarted
       THEN client.done # 0 /\ UNCHANGED client
       ELSE client' = [client EXCEPT !.done = @ + 1]
    /\ closer' = "returned"
    /\ UNCHANGED <<session, changes, endpoints, runner, connector, command, opened,
                   alive, lifetimes, faults>>

(***************************************************************************)
(* submitCommand.                                                          *)
(***************************************************************************)
\* Under the lock: the session, its lifetime and the channel of changes.  The
\* session of a closed client is left without a lifetime.
CommandReads(c) ==
    /\ command[c].pc = "read"
    /\ command' = [command EXCEPT ![c] =
           IF client.closed THEN [@ EXCEPT !.pc = "closed"]
           ELSE IF session = 0 THEN [@ EXCEPT !.pc = "changed", !.channel = changes]
           ELSE [@ EXCEPT !.pc = "submit", !.on = session,
                         !.accepted = session \in alive,
                         !.submits = IF c \in ReadOnly THEN 1 ELSE @ + 1]]
    /\ UNCHANGED <<client, session, changes, endpoints, runner, closer, connector,
                   opened, alive, lifetimes, faults>>

\* MUTANT of CommandWaits: deaf to done.
CommandWaitsOn(c) ==
    /\ \/ /\ \/ command[c].pc = "changed" /\ changes > command[c].channel
             \/ command[c].pc = "lifetime" /\ command[c].on \notin lifetimes
          /\ command' = [command EXCEPT ![c].pc = "read", ![c].on = 0, ![c].channel = 0]
    /\ UNCHANGED <<client, session, changes, endpoints, runner, closer, connector,
                   opened, alive, lifetimes, faults>>

CommandWaits(c) ==
    /\ \/ /\ \/ command[c].pc = "changed" /\ changes > command[c].channel
             \/ command[c].pc = "lifetime" /\ command[c].on \notin lifetimes
          /\ command' = [command EXCEPT ![c].pc = "read", ![c].on = 0, ![c].channel = 0]
       \/ /\ command[c].pc \in {"changed", "lifetime"}
          /\ client.done # 0
          /\ command' = [command EXCEPT ![c].pc = "closed", ![c].on = 0,
                                        ![c].channel = 0]
    /\ UNCHANGED <<client, session, changes, endpoints, runner, closer, connector,
                   opened, alive, lifetimes, faults>>

SubmitReplies(c) ==
    /\ command[c].pc = "submit"
    /\ command[c].on \in alive
    /\ command' = [command EXCEPT ![c].pc = "replied", ![c].on = 0]
    /\ UNCHANGED <<client, session, changes, endpoints, runner, closer, connector,
                   opened, alive, lifetimes, faults>>

\* What Submit's failure says: sameSession (disconnected, outcome unknown) may be
\* tried again at once, the others when the session's lifetime has ended.
AfterFailure(c, sameSession) ==
    CASE c \notin ReadOnly -> [command[c] EXCEPT !.pc = "failed", !.on = 0]
      [] c \in ReadOnly /\ sameSession /\ command[c].on \in lifetimes ->
            [command[c] EXCEPT !.pc = "read", !.on = 0]
      [] OTHER -> [command[c] EXCEPT !.pc = "lifetime"]

\* On a session that reconnects, or has ended, or whose lifetime was canceled.
\* A session that had ended before refuses the submission as closed.
SubmitFails(c) ==
    /\ command[c].pc = "submit"
    /\ \E sameSession \in BOOLEAN :
          /\ sameSession => command[c].accepted
          /\ IF command[c].on \in alive \cap lifetimes
             THEN sameSession /\ Fault
             ELSE UNCHANGED faults
          /\ command' = [command EXCEPT ![c] = AfterFailure(c, sameSession)]
    /\ UNCHANGED <<client, session, changes, endpoints, runner, closer, connector,
                   opened, alive, lifetimes>>

(***************************************************************************)
(* The environment: a session ends.                                        *)
(***************************************************************************)
SessionEnds ==
    /\ Fault
    /\ \E s \in alive : alive' = alive \ {s}
    /\ UNCHANGED <<client, session, changes, endpoints, runner, closer, connector,
                   command, opened, lifetimes>>

RunnerStep == OpenSucceeds \/ Started \/ StartAbandons \/ SessionEnded \/ Replaced
              \/ RunCanceled \/ RunReturns \/ (client.canceled /\ OpenFails)

CloserStep == CloseMarks \/ CloseTakes \/ CloseFinishes

CommandStep(c) == CommandReads(c) \/ CommandWaits(c) \/ SubmitReplies(c) \/ SubmitFails(c)

Next ==
    \/ Connect \/ ConnectStarted \/ ConnectReturns
    \/ RunnerStep \/ OpenFails \/ Foreign \/ HandleMalformed \/ Unsupported
    \/ BecomesReady \/ (\E list \in Announced : HandleMonMap(list))
    \/ CloseCancels \/ CloserStep
    \/ \E c \in Commands : CommandStep(c)
    \/ SessionEnds

Spec == Init /\ [][Next]_vars

\* Goroutines go on; a call of Submit returns; a monitor that is up is reached in
\* the end (faults are bounded).
Fairness == /\ WF_vars(RunnerStep) /\ WF_vars(CloserStep)
            /\ WF_vars(ConnectStarted \/ ConnectReturns)
            /\ \A c \in Commands : WF_vars(CommandStep(c))

LiveSpec == Spec /\ Fairness

-----------------------------------------------------------------------------
(***************************************************************************)
(* Properties.                                                             *)
(***************************************************************************)
\* Every variable has the type the code declares it with; in particular the
\* index of the next endpoint stays within the endpoints.
MonClientTypeOK ==
    /\ session \in 0..opened
    /\ endpoints.next \in 1..Len(endpoints.list)
    /\ alive \cup lifetimes \subseteq 1..opened
    /\ runner.pc \in {"none", "start", "started", "abandon", "loop", "failover",
                      "replaced", "return", "ended"}
    /\ closer \in {"idle", "mark", "take", "wait", "finish", "returned"}
    /\ connector \in {"idle", "starting", "waiting", "ready", "failed", "closed"}

\* No session is forgotten: one that runs is the client's or in the hands of its
\* goroutine.  When Close has returned none runs, but the one start opened while the
\* client was being closed, which start stops after it has let Close go on.
NoSessionLeaks ==
    /\ alive \subseteq {session, runner.on}
    /\ closer = "returned" => session = 0 /\ (alive = {} \/ runner.pc = "abandon")

\* The channel done is closed once, by run or by Close: a second close panics.
DoneOnce == client.done <= 1

\* A command that may change the cluster is submitted once, whatever happens to
\* the session it went out on (submitCommand: retry).
MutatingOnce == \A c \in Commands \ ReadOnly : command[c].submits <= 1

\* The goroutine settles only on a session to a monitor of the current endpoints:
\* one that a MonMap has removed is left (replaceMonMapEndpoints).
ActiveIsListed ==
    InLoop => \E i \in 1..Len(endpoints.list) : endpoints.list[i] = endpoints.active

Settled ==
    LET ended == \A c \in Commands : command[c].pc \in {"replied", "failed", "closed"}
    IN  /\ closer # "idle" => /\ closer = "returned" /\ alive = {}
                             /\ connector \notin {"starting", "waiting"} /\ ended
        /\ runner.pc # "none" => ended \/ opened = MaxSessions

=============================================================================
