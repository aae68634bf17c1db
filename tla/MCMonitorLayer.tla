--------------------------- MODULE MCMonitorLayer --------------------------
(***************************************************************************)
(* The client and its monitors on small instances: the maps that arrive     *)
(* (MonMaps), the session to a monitor and the commands (MonClient), and     *)
(* the client's Connect, Close and Shutdown (Client).  A behaviour is one   *)
(* of one of them, `part`; the variables of the others are not used.        *)
(***************************************************************************)
EXTENDS Client

CONSTANTS MaxEpoch, Chunk, MaxMapFaults, Faults,
          Commands, ReadOnly, MaxSessions, MaxFaults

VARIABLES
    part,
    up, osdMap, monMap, pinned, gens, run, pending, subscribed, wire, ready, signals, waiter, mapFaults,
    client, session, changes, endpoints, runner, monCloser, connector, command, opened, alive, lifetimes, faults

mapsVars == <<up, osdMap, monMap, pinned, gens, run, pending, subscribed, wire, ready, signals, waiter, mapFaults>>
monVars == <<client, session, changes, endpoints, runner, monCloser, connector, command, opened, alive, lifetimes, faults>>
layerVars == <<part, mapsVars, monVars, vars>>

Maps == INSTANCE MonMaps WITH faults <- mapFaults, MaxFaults <- MaxMapFaults
\* Two seeds; the MonMaps that arrive list the second, or nobody.
Mon == INSTANCE MonClient WITH closer <- monCloser, Seeds <- <<1, 2>>, Announced <- {<<2>>, <<>>}

\* The variables of the parts that do not run.
Unused == "unused"
NoMaps ==
    /\ up = Unused /\ osdMap = Unused /\ monMap = Unused /\ pinned = Unused /\ gens = Unused
    /\ run = Unused /\ pending = Unused /\ subscribed = Unused /\ wire = Unused /\ ready = Unused
    /\ signals = Unused /\ waiter = Unused /\ mapFaults = Unused
NoMonitor ==
    /\ client = Unused /\ session = Unused /\ changes = Unused /\ endpoints = Unused
    /\ runner = Unused /\ monCloser = Unused /\ connector = Unused /\ command = Unused
    /\ opened = Unused /\ alive = Unused /\ lifetimes = Unused /\ faults = Unused

LayerInit ==
    \/ part = "maps" /\ Maps!Init /\ NoMonitor /\ Init
    \/ part = "monitor" /\ Mon!Init /\ NoMaps /\ Init
    \/ part = "client" /\ Init /\ NoMaps /\ NoMonitor
LayerNext ==
    /\ UNCHANGED part
    /\ \/ part = "maps" /\ Maps!Next /\ UNCHANGED <<monVars, vars>>
       \/ part = "monitor" /\ Mon!Next /\ UNCHANGED <<mapsVars, vars>>
       \/ part = "client" /\ Next /\ UNCHANGED <<mapsVars, monVars>>
\* The fairness of each, as its module states it.
LayerFairness ==
    /\ WF_mapsVars(part = "maps" /\ Maps!RunStep) /\ WF_mapsVars(part = "maps" /\ Maps!WaiterStep)
    /\ SF_mapsVars(part = "maps" /\ Maps!SubscribeTimer) /\ WF_mapsVars(part = "maps" /\ Maps!MonitorSends)
    /\ WF_mapsVars(part = "maps" /\ Maps!MonitorSendsMonMap)
    /\ WF_monVars(part = "monitor" /\ Mon!RunnerStep) /\ WF_monVars(part = "monitor" /\ Mon!CloserStep)
    /\ WF_monVars(part = "monitor" /\ (Mon!ConnectStarted \/ Mon!ConnectReturns))
    /\ \A c \in Commands: WF_monVars(part = "monitor" /\ Mon!CommandStep(c))
    /\ \A c \in Connectors:
        WF_vars(part = "client" /\ (connect[c].pc \notin {"gate", "monitor"} \/ ~lifetime) /\ ConnectStep(c))
    /\ \A o \in Operations: WF_vars(part = "client" /\ ~lifetime /\ EndOperation(o))
    /\ \A d \in Closers: WF_vars(part = "client" /\ CloserStep(d))
LayerSpec == LayerInit /\ [][LayerNext]_layerVars /\ LayerFairness

\* The client's map holds every change up to its epoch, and is its own cluster's; who
\* waits for a map does not sleep through its arrival (applyBatch, WaitForOSDMap).
MapsSafe ==
    part = "maps" => Maps!MonMapsTypeOK /\ Maps!MapIsComplete /\ Maps!ReadyMeansMaps /\ Maps!NoLostWakeup
\* The generation of an OSD rises before a map is stored in which it is not as it was
\* (applyBatch): sessions opened before are then recognised as stale.
GenerationCoversTransitions == [][part = "maps" => Maps!GenerationStep]_layerVars

\* No session to a monitor is forgotten, a command that may change the cluster is
\* submitted once, and the session is to a monitor of the current MonMap (run, Command).
MonitorSafe ==
    part = "monitor" =>
        /\ Mon!MonClientTypeOK /\ Mon!NoSessionLeaks /\ Mon!DoneOnce
        /\ Mon!MutatingOnce /\ Mon!ActiveIsListed

\* Commands and Connect return, and so does Close, after which no session is left.  The
\* map catches up with the cluster unless the session reconnects by itself while a full
\* map is requested: requestFullMap holds the lost request for pending (Orphaned), and
\* a client that is many epochs behind may then never reach the newest.
EverythingSettles ==
    []<>(CASE part = "maps" -> Maps!UpToDate
           [] part = "monitor" -> Mon!Settled
           [] part = "client" -> AllClosed)
=============================================================================
