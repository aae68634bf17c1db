--------------------------- MODULE MCObjectLayer ---------------------------
(***************************************************************************)
(* The object layer on small instances: mutations and Flush (Mutation), an  *)
(* operation's attempts (Objecter) and a watch (Watch).  A behaviour is one *)
(* of one of them, `part`; mutations stay in their initial state in the     *)
(* others, and the variables of the others are unused.                      *)
(***************************************************************************)
EXTENDS Mutation
LOCAL INSTANCE FiniteSetsExt

CONSTANTS Ops, Sensitivity, OSDs, Replies, PrimaryReturns, MaxEpoch, MaxAttempts,
          Queue, MaxSessions, MaxFaults, MaxNotes

VARIABLES
    part,
    cluster, epoch, closed, op, watcher, received, log, applied,
    primary, mapSeen, sessions, opened, resets, server, wire, watch, keeper, closer, forward, shutdown, notes, quiet, faults

objecterVars == <<cluster, epoch, closed, op, watcher, received, log, applied>>
watchVars == <<primary, mapSeen, sessions, opened, resets, server, wire, watch, keeper, closer, forward, shutdown, notes, quiet, faults>>
layerVars == <<part, vars, objecterVars, watchVars>>

O == INSTANCE Objecter
W == INSTANCE Watch

\* The variables of the parts that do not run.
Unused == "unused"
NoObjecter ==
    /\ cluster = Unused /\ epoch = Unused /\ closed = Unused /\ op = Unused /\ watcher = Unused
    /\ received = Unused /\ log = Unused /\ applied = Unused
NoWatch ==
    /\ primary = Unused /\ mapSeen = Unused /\ sessions = Unused /\ opened = Unused
    /\ resets = Unused /\ server = Unused /\ wire = Unused /\ watch = Unused /\ keeper = Unused
    /\ closer = Unused /\ forward = Unused /\ shutdown = Unused /\ notes = Unused /\ quiet = Unused
    /\ faults = Unused

LayerInit ==
    /\ Init
    /\ \/ part = "mutation" /\ NoObjecter /\ NoWatch
       \/ part = "objecter" /\ O!Init /\ NoWatch
       \/ part = "watch" /\ W!Init /\ NoObjecter
LayerNext ==
    /\ UNCHANGED part
    /\ \/ part = "mutation" /\ Next /\ UNCHANGED <<objecterVars, watchVars>>
       \/ part = "objecter" /\ O!Next /\ UNCHANGED <<vars, watchVars>>
       \/ part = "watch" /\ W!Next /\ UNCHANGED <<vars, objecterVars>>
\* The fairness of each, as its module states it.
LayerFairness ==
    /\ \A c \in Calls:
        WF_vars(part = "mutation" /\ AdmitMutation(c)) /\ WF_vars(part = "mutation" /\ CompleteMutation(c, FALSE))
    /\ \A f \in Flushes: WF_vars(part = "mutation" /\ CheckFlush(f))
    /\ \A o \in Ops:
        WF_objecterVars(part = "objecter" /\ O!Proceed(o)) /\ WF_objecterVars(part = "objecter" /\ O!Interrupted(o))
    /\ \A p \in OSDs: WF_objecterVars(part = "objecter" /\ O!OSDStep(p)) /\ WF_watchVars(part = "watch" /\ W!DispatchReset(p))
    /\ WF_objecterVars(part = "objecter" /\ O!MapUpdate) /\ WF_objecterVars(part = "objecter" /\ O!WatcherStep)
    /\ WF_watchVars(part = "watch" /\ W!WatchReturns) /\ WF_watchVars(part = "watch" /\ W!KeeperStep)
    /\ WF_watchVars(part = "watch" /\ W!CloserStep) /\ WF_watchVars(part = "watch" /\ W!ForwardEnds)
    /\ WF_watchVars(part = "watch" /\ W!WatchMaps) /\ WF_watchVars(part = "watch" /\ W!WatchRefused)
    /\ WF_watchVars(part = "watch" /\ W!ClientCloseReturns) /\ WF_watchVars(part = "watch" /\ W!Dispatch)
LayerSpec == LayerInit /\ [][LayerNext]_layerVars /\ LayerFairness

\* What mutations retain is what runs, within the limits, whatever ends in between.
Accounting ==
    /\ client.pendingMutations = {call[c].sequence : c \in Running}
    /\ Cardinality(client.pendingMutations) = Cardinality(Running)
    /\ client.retainedMutationBytes = MapThenSumSet(LAMBDA c : call[c].bytes, Running)
    /\ Cardinality(Running) <= MaxMutations
    /\ client.retainedMutationBytes <= MaxMutationBytes

\* Operations: each takes effect at most once however often it is sent, what it
\* returns is true, none waits for an OSD that the map has replaced (executeRouted), and
\* the places and bytes of mutations return (completeMutation).
OperationsSafe ==
    /\ part = "objecter" => O!ObjecterTypeOK /\ O!AtMostOnce /\ O!OutcomeIsTrue /\ O!NoAttemptLeftBehind
    /\ part = "mutation" => TypeOK /\ Accounting

\* A watch that was closed is not registered at the OSD any more (Watch.Close).
WatchSafe == part = "watch" => W!WatchTypeOK /\ W!ClosedIsUnregistered

\* Every mutation and every Flush ends, every operation returns, and a watch recovers
\* from the loss of its connection and can be closed.
EverythingEnds ==
    []<>(CASE part = "mutation" -> Ended
           [] part = "objecter" -> O!AllReturned
           [] part = "watch" -> W!Settled)
=============================================================================
