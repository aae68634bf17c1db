---------------------------- MODULE ClusterChanges ----------------------------
(***************************************************************************)
(* Subscriptions to changes of the cluster (src/changes.go).               *)
(*                                                                         *)
(* The monitor client's goroutine reports every map it installs, one       *)
(* change at a time; sessions report that a daemon became available or     *)
(* not; the broker numbers the changes and puts each one in the queue of   *)
(* every subscription it concerns.  A subscriber subscribes, reads the     *)
(* state of the cluster and then applies the changes of the maps.          *)
(*                                                                         *)
(* A cluster here is one OSD and one monitor.  "place" stands for what is  *)
(* reported as changed: the addresses, and destroyed for an OSD, or the    *)
(* rank, priority, weight and location of a monitor.                       *)
(***************************************************************************)
EXTENDS Naturals, Sequences

CONSTANTS
    Subscribers,
    Queue,       \* ClusterSubscriptionOptions.Queue
    MaxMaps,     \* bound on the maps installed
    MaxReports   \* bound on the session events

Components == {"osd", "mon"}
Absent == [exists |-> FALSE, up |-> FALSE, in |-> FALSE, place |-> 0]
States == [osd |-> {Absent} \cup [exists : {TRUE}, up : BOOLEAN, in : BOOLEAN, place : {1, 2}],
           mon |-> {Absent} \cup [exists : {TRUE}, up : {FALSE}, in : {FALSE}, place : {1, 2}]]

VARIABLES
    cluster,      \* the state of each component in the maps of the monitor client
    unpublished,  \* the changes of a map its observer has yet to publish
    reported,     \* session events that have read the map and are not published
    maps, reports,  \* how many there were
    sequence,     \* clusterChangeBroker.nextSequence
    closed,       \* clusterChangeBroker.closed
    sub           \* subscriptions, and what their readers made of them

vars == <<cluster, unpublished, reported, maps, reports, sequence, closed, sub>>

Init ==
    /\ cluster = [c \in Components |-> Absent]
    /\ unpublished = <<>>
    /\ reported = {}
    /\ maps = 0 /\ reports = 0 /\ sequence = 0
    /\ closed = FALSE
    /\ sub = [s \in Subscribers |-> [status |-> "none", events |-> <<>>, error |-> "",
                                     wants |-> {}, last |-> 0, known |-> FALSE,
                                     view |-> [c \in Components |-> Absent]]]

(***************************************************************************)
(* What a map changes.                                                     *)
(***************************************************************************)
Change(component, source, kind, state) ==
    [component |-> component, source |-> source, kind |-> kind, state |-> state]

\* An OSD that is there before and after is reported for each of its transitions.
osdStateChanges(before, after) ==
    LET kinds == (IF before.up # after.up THEN <<IF after.up THEN "up" ELSE "down">> ELSE <<>>)
                 \o (IF before.in # after.in THEN <<IF after.in THEN "in" ELSE "out">> ELSE <<>>)
                 \o (IF before.place # after.place THEN <<"changed">> ELSE <<>>)
    IN IF before.exists /\ after.exists
       THEN [i \in DOMAIN kinds |-> Change("osd", "map", kinds[i], after)]
       ELSE IF after.exists THEN <<Change("osd", "map", "added", after)>>
       ELSE IF before.exists THEN <<Change("osd", "map", "removed", Absent)>>
       ELSE <<>>

monStateChanges(before, after) ==
    IF before = after THEN <<>>
    ELSE <<Change("mon", "map",
                  IF ~before.exists THEN "added" ELSE IF ~after.exists THEN "removed"
                  ELSE "changed", after)>>

\* observeOSDMap and observeMONMap: the map is stored, then its changes are published.
ObserveMap(c, after) ==
    /\ unpublished = <<>>  \* the goroutine of the monitor client is here, not there
    /\ maps < MaxMaps
    /\ maps' = maps + 1
    /\ cluster' = [cluster EXCEPT ![c] = after]
    /\ unpublished' = IF c = "osd" THEN osdStateChanges(cluster[c], after)
                      ELSE monStateChanges(cluster[c], after)
    /\ UNCHANGED <<reported, reports, sequence, closed, sub>>

\* observeOSDConnection and observeMONConnection, as far as the state they report.
ObserveConnection(c, kind) ==
    /\ reports < MaxReports
    /\ reports' = reports + 1
    /\ reported' = reported \cup {Change(c, "session", kind, cluster[c])}
    /\ UNCHANGED <<cluster, unpublished, maps, sequence, closed, sub>>

(***************************************************************************)
(* The broker.                                                             *)
(***************************************************************************)
\* removeLocked
Removed(record, error) == [record EXCEPT !.status = "done", !.error = error]

\* MUTANT of Delivered: a subscription that overflows loses the change and goes on.
DeliveredOrDropped(record, change) ==
    IF Len(record.events) < Queue
    THEN [record EXCEPT !.events = Append(@, change)]
    ELSE record

\* A subscription whose queue is full ends.
Delivered(record, change) ==
    IF Len(record.events) < Queue
    THEN [record EXCEPT !.events = Append(@, change)]
    ELSE Removed(record, "overflow")

Concerned(s, change) == sub[s].status = "open" /\ change.component \in sub[s].wants

publish(change) ==
    IF closed THEN UNCHANGED <<sequence, sub>>
    ELSE /\ sequence' = sequence + 1
         /\ sub' = [s \in Subscribers |->
                       IF Concerned(s, change)
                       THEN Delivered(sub[s], [seq |-> sequence + 1, change |-> change])
                       ELSE sub[s]]

PublishMapChange ==
    /\ unpublished # <<>>
    /\ publish(Head(unpublished))
    /\ unpublished' = Tail(unpublished)
    /\ UNCHANGED <<cluster, reported, maps, reports, closed>>

PublishReport(change) ==
    /\ publish(change)
    /\ reported' = reported \ {change}
    /\ UNCHANGED <<cluster, unpublished, maps, reports, closed>>

\* subscribe; a closed broker refuses.
Subscribe(s) ==
    /\ sub[s].status = "none"
    /\ ~closed
    /\ \E wants \in SUBSET Components \ {{}} :
           sub' = [sub EXCEPT ![s].status = "open", ![s].wants = wants]
    /\ UNCHANGED <<cluster, unpublished, reported, maps, reports, sequence, closed>>

\* ClusterSubscription.Close, by its owner or when its context ends.
CloseSubscription(s) ==
    /\ sub[s].status = "open"
    /\ sub' = [sub EXCEPT ![s] = Removed(@, "")]
    /\ UNCHANGED <<cluster, unpublished, reported, maps, reports, sequence, closed>>

CloseBroker ==
    /\ ~closed
    /\ closed' = TRUE
    /\ sub' = [s \in Subscribers |->
                  IF sub[s].status = "open" THEN Removed(sub[s], "closed") ELSE sub[s]]
    /\ UNCHANGED <<cluster, unpublished, reported, maps, reports, sequence>>

(***************************************************************************)
(* The subscriber: it reads the cluster once, then follows the maps.       *)
(***************************************************************************)
ReadCluster(s) ==
    /\ sub[s].status = "open"
    /\ sub[s].last = 0 /\ ~sub[s].known
    /\ sub' = [sub EXCEPT ![s].view = cluster, ![s].known = TRUE]
    /\ UNCHANGED <<cluster, unpublished, reported, maps, reports, sequence, closed>>

ReadChange(s) ==
    /\ sub[s].known /\ sub[s].events # <<>>
    /\ LET event == Head(sub[s].events) IN
       sub' = [sub EXCEPT ![s].events = Tail(@),
                          ![s].last = event.seq,
                          ![s].view = IF event.change.source = "map"
                                      THEN [@ EXCEPT ![event.change.component] =
                                               event.change.state]
                                      ELSE @]
    /\ UNCHANGED <<cluster, unpublished, reported, maps, reports, sequence, closed>>

Next ==
    \/ \E c \in Components : \E after \in States[c] : ObserveMap(c, after)
    \/ \E c \in Components, kind \in {"available", "unavailable"} : ObserveConnection(c, kind)
    \/ PublishMapChange
    \/ \E change \in reported : PublishReport(change)
    \/ \E s \in Subscribers : \/ Subscribe(s) \/ CloseSubscription(s)
                              \/ ReadCluster(s) \/ ReadChange(s)
    \/ CloseBroker

Spec == Init /\ [][Next]_vars

-----------------------------------------------------------------------------
(***************************************************************************)
(* Properties.                                                             *)
(***************************************************************************)
\* A subscription that is open loses nothing: what it has queued are the latest
\* changes, in the order and with the numbers the broker gave them, and one that
\* wants both components sees no gap.
NoGap ==
    \A s \in Subscribers : LET q == sub[s].events IN
        /\ \A i \in 1..(Len(q) - 1) :
              /\ q[i].seq < q[i + 1].seq
              /\ sub[s].wants = Components => q[i + 1].seq = q[i].seq + 1
        /\ q # <<>> => sub[s].last < q[1].seq
        /\ sub[s].status = "open" /\ sub[s].wants = Components /\ q # <<>> =>
              q[Len(q)].seq = sequence

\* A subscriber that read the cluster after it subscribed, has applied the changes
\* of the maps and has nothing more to read, knows the state of the components it
\* wants: the changes reported for two maps add up to the difference.
FollowsCluster ==
    \A s \in Subscribers :
        sub[s].status = "open" /\ sub[s].known /\ sub[s].events = <<>> /\ unpublished = <<>> =>
            \A c \in sub[s].wants : sub[s].view[c] = cluster[c]
=============================================================================
