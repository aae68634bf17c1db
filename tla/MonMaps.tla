------------------------------- MODULE MonMaps -------------------------------
(***************************************************************************)
(* The cluster maps of the monitor client (src/internal/mon/client.go):    *)
(* how its run goroutine turns the messages of the monitors into the maps  *)
(* the rest of the client reads (handleMessage, applyBatch), asks for a    *)
(* full map when epochs are missing (requestFullMap), carries that request *)
(* over to the next session (failover), and wakes those who wait for a     *)
(* newer map (WaitForOSDMap, RefreshOSDMap).                               *)
(*                                                                         *)
(* An OSD map is its epoch, its cluster, and the set of epochs whose       *)
(* changes went into it: a full map of epoch e holds 1..e, an incremental  *)
(* adds its own.  Of the changes, whether one OSD is up is modelled.  The  *)
(* monitors are external: one subscription per session, which a later one  *)
(* replaces, answered with at most Chunk incrementals a message.           *)
(***************************************************************************)
EXTENDS Naturals, Sequences, FiniteSetsExt

CONSTANTS
    MaxEpoch,   \* bound on the epochs of the OSD map
    Chunk,      \* incrementals of a message
    MaxFaults,  \* bound on the kinds of fault of a behaviour
    Faults      \* which of "failover", "reconnect", "foreign", "send"

VARIABLES
    up,        \* the cluster's history: whether the OSD is up in each epoch
    osdMap,    \* Client.osdMap: epoch 0 when there is none
    monMap,    \* whether Client.monMap is present
    pinned,    \* Client.pinnedFSID
    gens,      \* osdGenerations of the OSD: now, and when the map was stored
    run,       \* the run goroutine, and the map it is about to store
    pending,   \* Client.refreshPending
    subscribed,\* the session's OSD map subscription at the monitor
    wire,      \* the batches on their way to the client
    ready,     \* Client.ready is closed
    signals,   \* how many osdMapChanged channels were closed
    waiter,    \* a caller of RefreshOSDMap
    faults     \* the kinds of fault so far

vars == <<up, osdMap, monMap, pinned, gens, run, pending, subscribed, wire, ready,
          signals, waiter, faults>>

Newest == Len(up)
NoOSDMap == [epoch |-> 0, fsid |-> "none", changes |-> {}]
Idle == [pc |-> "loop", map |-> NoOSDMap]
None == 99
Unsubscribed == [once |-> FALSE, start |-> None]
FullOnce == [once |-> TRUE, start |-> None]
Waiting == [pc |-> "request", after |-> 1, channel |-> 0]

Fault(kind) ==
    /\ kind \in Faults \ faults
    /\ Cardinality(faults) < MaxFaults
    /\ faults' = faults \cup {kind}

Init ==
    /\ up = <<TRUE>>
    /\ osdMap = NoOSDMap
    /\ monMap = FALSE
    /\ pinned \in {"none", "ours"}
    /\ gens = [now |-> 0, stored |-> 0]
    /\ run = Idle
    /\ pending = FALSE
    /\ subscribed = [once |-> FALSE, start |-> 0]
    /\ wire = <<>>
    /\ ready = FALSE
    /\ signals = 0
    /\ waiter = Waiting
    /\ faults = {}

(***************************************************************************)
(* applyBatch: full maps newer than the current one, then the incrementals *)
(* that are newer still, each of which must be the next epoch; then the    *)
(* bounds the batch announces.  A batch with a gap changes nothing.        *)
(***************************************************************************)
ApplyFull(batch) ==
    IF batch.full > osdMap.epoch
    THEN [epoch |-> batch.full, fsid |-> batch.fsid, changes |-> 1..batch.full]
    ELSE osdMap

Incrementals(batch) == {e \in batch.incs : e > ApplyFull(batch).epoch}

Applied(batch) ==
    [ApplyFull(batch) EXCEPT !.epoch = Max({@} \cup Incrementals(batch)),
                             !.changes = @ \cup Incrementals(batch)]

\* MUTANT of OutOfSequence: only asks that the first incremental follows.
OutOfSequenceFirst(batch) ==
    /\ Incrementals(batch) # {}
    /\ ApplyFull(batch).epoch = 0

OutOfSequence(batch) ==
    /\ Incrementals(batch) # {}
    /\ \/ ApplyFull(batch).epoch = 0
       \/ Incrementals(batch) # ApplyFull(batch).epoch + 1..Applied(batch).epoch

MapGap(batch) ==
    \/ OutOfSequence(batch)
    \/ Applied(batch).epoch < batch.newest
    \/ Applied(batch).epoch # 0 /\ Applied(batch).epoch < batch.trim

\* MUTANT of StateTransition: compares the states before and after the batch.
NetTransition(batch) ==
    /\ osdMap.epoch # 0
    /\ up[Applied(batch).epoch] # up[osdMap.epoch]

\* The OSDs whose generation is raised: all of them when a full map replaces a
\* map, otherwise those whose state an incremental changes.
StateTransition(batch) ==
    \/ ApplyFull(batch) # osdMap /\ osdMap.epoch # 0
    \/ \E e \in Incrementals(batch) : up[e] # up[e - 1]

IsForeign(fsid) == pinned \notin {"none", fsid}

(***************************************************************************)
(* Subscriptions.  A standing one asks for what follows the map held; the  *)
(* full map request asks once for the newest, and is not repeated while it *)
(* is pending.                                                             *)
(***************************************************************************)

Subscribe == [subscribed EXCEPT !.start =
                 IF osdMap.epoch = 0 THEN 0 ELSE osdMap.epoch + 1]

\* requestFullMap on a session.  A request that cannot be sent is withdrawn.
RequestFullMap ==
    \/ /\ pending
       /\ UNCHANGED <<pending, subscribed, faults>>
    \/ /\ ~pending
       /\ pending' = TRUE
       /\ subscribed' = FullOnce
       /\ UNCHANGED faults
    \/ /\ ~pending
       /\ Fault("send")
       /\ UNCHANGED <<pending, subscribed>>

SubscribeTimer ==
    /\ run.pc = "loop"
    /\ subscribed' = Subscribe
    /\ UNCHANGED <<up, osdMap, monMap, pinned, gens, run, pending, wire, ready,
                   signals, waiter, faults>>

\* failover: the session and what was on its way are gone.
LoseSession ==
    /\ run' = [Idle EXCEPT !.pc = "failover"]
    /\ subscribed' = Unsubscribed
    /\ wire' = <<>>

Disconnect ==
    /\ run.pc = "loop"
    /\ Fault("failover")
    /\ LoseSession
    /\ UNCHANGED <<up, osdMap, monMap, pinned, gens, pending, ready, signals,
                   waiter>>

\* failover's end: subscribes again, and repeats a full map request.
OpenNext ==
    /\ run.pc = "failover"
    /\ run' = Idle
    /\ subscribed' = IF pending THEN FullOnce ELSE Subscribe
    /\ UNCHANGED <<up, osdMap, monMap, pinned, gens, pending, wire, ready,
                   signals, waiter, faults>>

\* The session reconnects by itself: the monitor has forgotten the subscription
\* and the client does not learn of it before the subscribe timer fires.
Reconnect ==
    /\ run.pc = "loop"
    /\ Fault("reconnect")
    /\ subscribed' = Unsubscribed
    /\ wire' = <<>>
    /\ UNCHANGED <<up, osdMap, monMap, pinned, gens, run, pending, ready,
                   signals, waiter>>

(***************************************************************************)
(* handleMessage.                                                          *)
(***************************************************************************)
\* An OSD map batch.  A foreign one costs the session, a gap asks for a full
\* map; otherwise the generation is raised, and the map stored and announced in
\* the steps that follow.
HandleOSDMap ==
    /\ run.pc = "loop"
    /\ wire # <<>>
    /\ LET batch == Head(wire) IN
       /\ pinned' = IF pinned = "none" THEN batch.fsid ELSE pinned
       /\ \/ /\ IsForeign(batch.fsid)
             /\ LoseSession
             /\ UNCHANGED <<gens, pending, faults>>
          \/ /\ ~IsForeign(batch.fsid) /\ MapGap(batch)
             /\ wire' = Tail(wire)
             /\ RequestFullMap
             /\ UNCHANGED <<run, gens>>
          \/ /\ ~IsForeign(batch.fsid) /\ ~MapGap(batch)
             /\ wire' = Tail(wire)
             /\ gens' = [gens EXCEPT !.now =
                    IF StateTransition(batch) THEN @ + 1 ELSE @]
             /\ run' = IF Applied(batch) = osdMap
                       THEN [Idle EXCEPT !.pc = "finish"]
                       ELSE [pc |-> "store", map |-> Applied(batch)]
             /\ UNCHANGED <<pending, subscribed, faults>>
    /\ UNCHANGED <<up, osdMap, monMap, ready, signals, waiter>>

StoreOSDMap ==
    /\ run.pc = "store"
    /\ osdMap' = run.map
    /\ gens' = [gens EXCEPT !.stored = gens.now]
    /\ run' = [Idle EXCEPT !.pc = "signal"]
    /\ UNCHANGED <<up, monMap, pinned, pending, subscribed, wire, ready,
                   signals, waiter, faults>>

\* osdMapChanged is closed and replaced; the client is ready once it has both
\* maps.
SignalOSDMap ==
    /\ run.pc = "signal"
    /\ signals' = signals + 1
    /\ ready' = (ready \/ monMap)
    /\ run' = [Idle EXCEPT !.pc = "finish"]
    /\ UNCHANGED <<up, osdMap, monMap, pinned, gens, pending, subscribed, wire,
                   waiter, faults>>

\* finishRefresh: the standing subscription replaces the full map request.
FinishRefresh ==
    /\ run.pc = "finish"
    /\ pending' = FALSE
    /\ subscribed' = IF pending THEN Subscribe ELSE subscribed
    /\ run' = Idle
    /\ UNCHANGED <<up, osdMap, monMap, pinned, gens, wire, ready, signals,
                   waiter, faults>>

HandleMonMap(fsid) ==
    /\ run.pc = "loop"
    /\ subscribed # Unsubscribed
    /\ ~monMap
    /\ pinned' = IF pinned = "none" THEN fsid ELSE pinned
    /\ \/ /\ IsForeign(fsid)
          /\ Fault("foreign")
          /\ LoseSession
          /\ UNCHANGED <<monMap, ready>>
       \/ /\ ~IsForeign(fsid)
          /\ monMap' = TRUE
          /\ ready' = (ready \/ osdMap.epoch # 0)
          /\ UNCHANGED <<run, subscribed, wire, faults>>
    /\ UNCHANGED <<up, osdMap, gens, pending, signals, waiter>>

(***************************************************************************)
(* Callers: RefreshOSDMap requests a full map and waits for an epoch past  *)
(* the one it knows, WaitForOSDMap's loop being look, take the channel,    *)
(* look again, sleep.                                                      *)
(***************************************************************************)
Later == osdMap.epoch > waiter.after

RefreshRequests ==
    /\ waiter.pc = "request"
    /\ \/ /\ run.pc # "failover" \/ pending
          /\ RequestFullMap
       \/ /\ run.pc = "failover" /\ ~pending
          /\ UNCHANGED <<pending, subscribed, faults>>
    /\ waiter' = [waiter EXCEPT !.pc =
           IF ~pending /\ ~pending' THEN "failed" ELSE "look"]
    /\ UNCHANGED <<up, osdMap, monMap, pinned, gens, run, wire, ready, signals>>

WaiterLooks ==
    /\ waiter.pc = "look"
    /\ waiter' = [waiter EXCEPT !.pc = IF Later THEN "returned" ELSE "channel"]
    /\ UNCHANGED <<up, osdMap, monMap, pinned, gens, run, pending, subscribed, wire,
                   ready, signals, faults>>

WaiterTakesChannel ==
    /\ waiter.pc = "channel"
    /\ waiter' = [waiter EXCEPT !.pc = "again", !.channel = signals]
    /\ UNCHANGED <<up, osdMap, monMap, pinned, gens, run, pending, subscribed, wire,
                   ready, signals, faults>>

WaiterLooksAgain ==
    /\ waiter.pc = "again"
    /\ waiter' = [waiter EXCEPT !.pc = IF Later THEN "returned" ELSE "sleep"]
    /\ UNCHANGED <<up, osdMap, monMap, pinned, gens, run, pending, subscribed, wire,
                   ready, signals, faults>>

WaiterWakes ==
    /\ waiter.pc = "sleep"
    /\ signals > waiter.channel
    /\ waiter' = [waiter EXCEPT !.pc = "look", !.channel = 0]
    /\ UNCHANGED <<up, osdMap, monMap, pinned, gens, run, pending, subscribed, wire,
                   ready, signals, faults>>

(***************************************************************************)
(* The cluster and its monitors (external).                                *)
(***************************************************************************)
Publish ==
    /\ Newest < MaxEpoch
    /\ \E state \in BOOLEAN : up' = Append(up, state)
    /\ UNCHANGED <<osdMap, monMap, pinned, gens, run, pending, subscribed, wire, ready,
                   signals, waiter, faults>>

Lesser(a, b) == IF a < b THEN a ELSE b

\* A full map request is answered first; start 0 with the newest full map;
\* another start with some of the incrementals due.  Each names the newest
\* epoch and the oldest one kept (here the first).
MonitorSends ==
    /\ wire = <<>>
    /\ \/ /\ subscribed.once \/ subscribed.start = 0
          /\ wire' = <<[fsid |-> "ours", newest |-> Newest, trim |-> 1,
                        full |-> Newest, incs |-> {}]>>
          /\ subscribed' = IF subscribed.once THEN [subscribed EXCEPT !.once = FALSE]
                           ELSE [subscribed EXCEPT !.start = Newest + 1]
       \/ /\ ~subscribed.once /\ subscribed.start \in 1..Newest
          /\ \E last \in subscribed.start..Lesser(Newest, subscribed.start + Chunk - 1) :
                /\ wire' = <<[fsid |-> "ours", newest |-> Newest, trim |-> 1,
                              full |-> 0, incs |-> subscribed.start..last]>>
                /\ subscribed' = [subscribed EXCEPT !.start = last + 1]
    /\ UNCHANGED <<up, osdMap, monMap, pinned, gens, run, pending, ready, signals,
                   waiter, faults>>

\* The endpoint leads to a monitor of another cluster.
ForeignSends ==
    /\ subscribed # Unsubscribed
    /\ wire = <<>>
    /\ Fault("foreign")
    /\ wire' = <<[fsid |-> "theirs", newest |-> 2, trim |-> 1, full |-> 2, incs |-> {}]>>
    /\ UNCHANGED <<up, osdMap, monMap, pinned, gens, run, pending, subscribed, ready,
                   signals, waiter>>

MonitorSendsMonMap == HandleMonMap("ours")

ForeignMonMap ==
    /\ pinned = "ours"
    /\ HandleMonMap("theirs")

RunStep == HandleOSDMap \/ StoreOSDMap \/ SignalOSDMap \/ FinishRefresh \/ OpenNext

WaiterStep == RefreshRequests \/ WaiterLooks \/ WaiterTakesChannel
              \/ WaiterLooksAgain \/ WaiterWakes

Next == RunStep \/ WaiterStep \/ SubscribeTimer \/ Disconnect \/ Reconnect
        \/ Publish \/ MonitorSends \/ ForeignSends
        \/ MonitorSendsMonMap \/ ForeignMonMap

Spec == Init /\ [][Next]_vars

\* The run goroutine, the waiter and the subscribe timer go on; a monitor
\* answers; its MonMap arrives.
Fairness == /\ WF_vars(RunStep) /\ WF_vars(WaiterStep) /\ SF_vars(SubscribeTimer)
            /\ WF_vars(MonitorSends) /\ WF_vars(MonitorSendsMonMap)

LiveSpec == Spec /\ Fairness

-----------------------------------------------------------------------------
(***************************************************************************)
(* Properties.                                                             *)
(***************************************************************************)
\* Every variable has the type the code declares it with.
MonMapsTypeOK ==
    /\ osdMap.epoch \in 0..MaxEpoch
    /\ pinned \in {"none", "ours", "theirs"}
    /\ run.pc \in {"loop", "store", "signal", "finish", "failover"}
    /\ subscribed.start \in 0..MaxEpoch + 1 \cup {None}
    /\ gens.stored <= gens.now
    /\ waiter.pc \in {"request", "look", "channel", "again", "sleep", "returned",
                      "failed"}

\* The map handed to the rest of the client holds every change up to its epoch
\* and none twice, whatever batches were lost, repeated or cut short (applyBatch).
MapIsComplete == osdMap.changes = 1..osdMap.epoch

\* The map is the pinned cluster's, and Connect reports readiness only with both
\* maps present (pinFSID, onceReady).
ReadyMeansMaps ==
    /\ osdMap.epoch # 0 => osdMap.fsid = pinned
    /\ ready => monMap /\ osdMap.epoch # 0

GenerationStep ==
    \/ osdMap' = osdMap
    \/ osdMap.epoch = 0
    \/ gens.now > gens.stored
    \/ \A e \in osdMap.epoch + 1..osdMap'.epoch : up[e] = up[e - 1]

\* Whoever reads a newer map reads a newer generation as well if the OSD changed
\* state in between, even if it is back in the state it had: sessions opened
\* before are recognised as stale (applyBatch raises the generation first).
GenerationCoversTransitions == [][GenerationStep]_vars

\* A sleeping waiter whose channel is not closed yet has not missed its map: the
\* announcement is still to come (WaitForOSDMap's second look).
NoLostWakeup ==
    waiter.pc = "sleep" /\ signals = waiter.channel =>
        ~Later \/ run.pc = "signal"

\* A full map request that nothing will answer: the session it went out on has
\* reconnected, and requestFullMap does not repeat it while it counts as pending.
\* The map is two epochs behind or more: the monitor may send fewer than are due,
\* which applyBatch discards as a gap.
Orphaned == /\ "reconnect" \in faults /\ Newest > osdMap.epoch + 1
            /\ pending /\ ~subscribed.once /\ run.pc = "loop"
            /\ \A i \in 1..Len(wire) : wire[i].full = 0

\* The map is as new as the cluster's, or waits for an answer that will not come.
UpToDate == osdMap.epoch >= Newest \/ pinned = "theirs" \/ Orphaned

=============================================================================
