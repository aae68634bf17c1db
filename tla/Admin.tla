------------------------------- MODULE Admin -------------------------------
(***************************************************************************)
(* The administrative operations and the map a caller sees after them:      *)
(* pools, pool snapshots, application metadata and blocklisting (admin.go,  *)
(* snapshot.go) over the monitor client's ApplyPoolOperation, Command,      *)
(* StatFS and PoolStats (mon/client.go).                                   *)
(*                                                                         *)
(* The sessions of the monitor client are in MonClient and the maps'        *)
(* arrival in MonMaps; here the session is there or not, and a map of any   *)
(* later epoch can arrive.                                                 *)
(***************************************************************************)
EXTENDS Integers, Sequences

CONSTANTS
    Callers,        \* the calls of goroutines, one each
    MaxEpoch,       \* how far the cluster's maps go
    MaxFaults       \* how often the session is lost

VARIABLES
    cluster,        \* the cluster's maps: what each holds, by its epoch
    epoch,          \* the epoch of the client's map
    session,        \* the monitor client has a session
    faults,
    closed,
    calls           \* the calls: [state, ...]

adminVars == <<cluster, epoch, session, faults, closed, calls>>

(***************************************************************************)
(* The operations.  A pool operation and a statistics request are messages  *)
(* of their own; a change of application metadata and a blocklisting are    *)
(* commands.                                                               *)
(***************************************************************************)
Op(way, add, item) == [way |-> way, add |-> add, item |-> item]
CreatePool == Op("pool", TRUE, "pool")
DeletePool == Op("pool", FALSE, "pool")
Snapshots == {Op("pool", TRUE, "snapshot"), Op("pool", FALSE, "snapshot")}
Applications == {Op("command", TRUE, "application"), Op("command", FALSE, "application")}
Blocklist == Op("command", TRUE, "blocklisted")
Stats == Op("stats", FALSE, "nothing")
Operations == {CreatePool, DeletePool, Blocklist, Stats} \cup Snapshots \cup Applications

Idle == [state |-> "idle"]
Failed(c, err) == [calls EXCEPT ![c] = [state |-> "failed", err |-> err]]
Succeeded(c) == [calls EXCEPT ![c] = [state |-> "succeeded", op |-> calls[c].op, effect |-> calls[c].effect, seen |-> epoch]]

\* The operation's beginning up to the submission.  A pool is deleted by the id it has
\* in the client's map; a command waits for a session, a message does not.
Begin(c, op) ==
    /\ calls[c] = Idle /\ ~closed
    /\ calls' =
        IF op = DeletePool /\ "pool" \notin cluster[epoch] THEN Failed(c, "enoent")
        ELSE IF op.way # "command" /\ ~session THEN Failed(c, "closed")
        ELSE [calls EXCEPT ![c] = [state |-> "submitting", op |-> op, after |-> epoch]]
    /\ UNCHANGED <<cluster, epoch, session, faults, closed>>

\* External: the leading monitor carries the operation out and answers when the map that
\* holds its result is committed, with the epoch of that map; what is already so needs
\* no new map.  It may also refuse, and the answer may be that of another cluster.
Result(op) == IF op.add THEN cluster[Len(cluster)] \cup {op.item} ELSE cluster[Len(cluster)] \ {op.item}
Monitor(c) ==
    /\ calls[c].state = "submitting" /\ session
    /\ LET op == calls[c].op
           changed == IF op.way = "stats" \/ Result(op) = cluster[Len(cluster)] THEN cluster ELSE Append(cluster, Result(op))
           answer(reply, at) == [calls EXCEPT ![c] = [state |-> "answered", op |-> op, after |-> @.after, reply |-> reply, effect |-> at]]
       IN \/ /\ Len(changed) <= MaxEpoch
             /\ cluster' = changed
             /\ \E reply \in {"ok", "foreign"}: calls' = answer(reply, Len(changed))
          \/ calls' = answer("errno", 0) /\ UNCHANGED cluster
    /\ UNCHANGED <<epoch, session, faults, closed>>

\* MUTANT of Needed: any map that is newer than the one before the operation will do.
NeededNewer(call) == call.after + 1
\* The epoch a call waits for: that of the answer to a pool operation, and for a command
\* the one after the epoch that was read before it.
Needed(call) == IF call.op.way = "pool" THEN call.effect ELSE call.after + 1
\* The answer: errors are returned; a pool operation whose map is there, and a request
\* for statistics, is done.  Otherwise the full map is asked for, which needs a session.
Answered(c) ==
    /\ calls[c].state = "answered"
    /\ calls' =
        IF calls[c].reply # "ok" THEN Failed(c, calls[c].reply)
        ELSE IF calls[c].op.way = "stats" \/ (calls[c].op.way = "pool" /\ epoch >= Needed(calls[c])) THEN Succeeded(c)
        ELSE IF ~session THEN Failed(c, "closed")
        ELSE [calls EXCEPT ![c].state = "waiting"]
    /\ UNCHANGED <<cluster, epoch, session, faults, closed>>
Waited(c) ==
    /\ calls[c].state = "waiting" /\ epoch >= Needed(calls[c])
    /\ calls' = Succeeded(c)
    /\ UNCHANGED <<cluster, epoch, session, faults, closed>>
Canceled(c) ==
    /\ calls[c].state \in {"submitting", "waiting"}
    /\ calls' = Failed(c, IF closed THEN "closed" ELSE "canceled")
    /\ UNCHANGED <<cluster, epoch, session, faults, closed>>
\* Maps arrive, of changes made by this client and by others.
Publish ==
    /\ session /\ ~closed
    /\ \E e \in epoch + 1..Len(cluster): epoch' = e
    /\ UNCHANGED <<cluster, session, faults, closed, calls>>
OthersChange ==
    /\ Len(cluster) < MaxEpoch
    /\ cluster' = Append(cluster, cluster[Len(cluster)])
    /\ UNCHANGED <<epoch, session, faults, closed, calls>>
\* The session is lost: what was submitted on it may or may not have been carried out,
\* and is not submitted again, unless its answer has arrived.
Lose ==
    /\ session /\ faults < MaxFaults /\ faults' = faults + 1 /\ session' = FALSE
    /\ \E arrived \in SUBSET {c \in Callers : calls[c].state = "answered"} :
        calls' = [c \in Callers |-> IF calls[c].state \in {"submitting", "answered"} /\ c \notin arrived
                                   THEN [state |-> "failed", err |-> "unknown"] ELSE calls[c]]
    /\ UNCHANGED <<cluster, epoch, closed>>
Reconnect ==
    /\ ~session /\ ~closed /\ session' = TRUE
    /\ UNCHANGED <<cluster, epoch, faults, closed, calls>>
Close ==
    /\ ~closed /\ closed' = TRUE /\ session' = FALSE
    /\ UNCHANGED <<cluster, epoch, faults, calls>>

AdminInit ==
    /\ cluster \in {<<{}>>, <<{"pool"}>>} /\ epoch = 1 /\ session = TRUE /\ faults = 0 /\ closed = FALSE
    /\ calls = [c \in Callers |-> Idle]
AdminNext ==
    \/ \E c \in Callers: Monitor(c) \/ Answered(c) \/ Waited(c) \/ Canceled(c) \/ \E op \in Operations: Begin(c, op)
    \/ Publish \/ OthersChange \/ Lose \/ Reconnect \/ Close
AdminSpec == AdminInit /\ [][AdminNext]_adminVars

(***************************************************************************)
(* Properties.                                                             *)
(***************************************************************************)
\* A pool or snapshot operation that succeeded is in the map its caller reads from
\* then, whatever maps of other changes arrived in the meantime: the map of the epoch
\* the monitor answered with shows it, and the caller sees that one or a later one.
PoolChangeIsVisible ==
    \A c \in Callers: calls[c].state = "succeeded" /\ calls[c].op.way = "pool" =>
        /\ calls[c].effect <= calls[c].seen /\ calls[c].seen <= epoch
        /\ calls[c].op.item \in cluster[calls[c].effect] <=> calls[c].op.add
=============================================================================
