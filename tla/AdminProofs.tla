----------------------------- MODULE AdminProofs ----------------------------
(***************************************************************************)
(* What an administrative operation makes visible (module Admin), for any  *)
(* set of calls and any number of maps and lost sessions.                  *)
(***************************************************************************)
EXTENDS Admin, TLAPS

Items == {"pool", "snapshot", "application", "blocklisted", "nothing"}

\* The map of the epoch an operation was answered with shows what it did, in the
\* cluster's maps k.
Shows(call, k) ==
    /\ call.effect \in 1..Len(k)
    /\ call.op.item \in k[call.effect] <=> call.op.add

\* What holds of a call when the cluster's maps are k and the client's is that of epoch e:
\* a pool operation the monitor carried out is shown by the map it answered with, and one
\* that succeeded found that map or a later one.
Kept(call, k, e) ==
    /\ call.state \in {"submitting", "answered", "waiting"} => call.op \in Operations
    /\ call.state = "answered" /\ call.reply = "ok" /\ call.op.way = "pool" => Shows(call, k)
    /\ call.state = "waiting" /\ call.op.way = "pool" => Shows(call, k)
    /\ call.state = "succeeded" /\ call.op.way = "pool" =>
           Shows(call, k) /\ call.seen \in call.effect..e

\* The client's map is one of the cluster's, and every call is as it should be.
AdminInv ==
    /\ cluster \in Seq(SUBSET Items) /\ epoch \in 1..Len(cluster)
    /\ DOMAIN calls = Callers
    /\ \A c \in Callers : Kept(calls[c], cluster, epoch)

\* A call stays as it should be when maps are added and the client reads a later one.
LEMMA KeptGrows ==
    ASSUME NEW k \in Seq(SUBSET Items), NEW l \in Seq(SUBSET Items), NEW e \in Nat, NEW f \in Nat,
           NEW call, Kept(call, k, e),
           Len(k) <= Len(l), \A i \in 1..Len(k) : l[i] = k[i], e <= f
    PROVE  Kept(call, l, f)
<1>1. Shows(call, k) => Shows(call, l)
    BY DEF Shows
<1>2. call.effect \in Nat /\ call.seen \in call.effect..e => call.seen \in call.effect..f
    OBVIOUS
<1>. QED
    BY <1>1, <1>2 DEF Kept, Shows

\* The client begins with a map of the cluster and no call.
LEMMA AdminInitial == AdminInit => AdminInv
<1> SUFFICES ASSUME AdminInit PROVE AdminInv
    OBVIOUS
<1>1. /\ {} \in SUBSET Items /\ {"pool"} \in SUBSET Items
    BY DEF Items
<1>2. ASSUME NEW m \in SUBSET Items PROVE <<m>> \in Seq(SUBSET Items) /\ Len(<<m>>) = 1
    OBVIOUS
<1>3. \A c \in Callers : Kept(calls[c], cluster, epoch)
    BY DEF AdminInit, Idle, Kept
<1>4. cluster \in Seq(SUBSET Items) /\ Len(cluster) = 1
    BY <1>1, <1>2 DEF AdminInit
<1>. QED
    BY <1>3, <1>4 DEF AdminInit, AdminInv

\* A step that changes the cluster's maps, the client's epoch and one call at most.
LEMMA OneCall ==
    ASSUME AdminInv, NEW c \in Callers, NEW call,
           calls' = [calls EXCEPT ![c] = call],
           cluster' \in Seq(SUBSET Items), Len(cluster) <= Len(cluster'),
           \A i \in 1..Len(cluster) : cluster'[i] = cluster[i],
           epoch' = epoch, Kept(call, cluster', epoch)
    PROVE  AdminInv'
<1>1. /\ epoch \in Nat /\ epoch' \in 1..Len(cluster') /\ DOMAIN calls' = Callers
    BY DEF AdminInv
<1>2. ASSUME NEW d \in Callers PROVE Kept(calls'[d], cluster', epoch')
    <2>1. CASE d = c
        BY <2>1 DEF AdminInv
    <2>2. CASE d # c
        <3>1. calls'[d] = calls[d] /\ Kept(calls[d], cluster, epoch)
            BY <2>2 DEF AdminInv
        <3>. QED
            BY <3>1, <1>1, KeptGrows DEF AdminInv
    <2>. QED
        BY <2>1, <2>2
<1>. QED
    BY <1>1, <1>2 DEF AdminInv

\* The same for a step that leaves the maps alone.
LEMMA OneCallOnly ==
    ASSUME AdminInv, NEW c \in Callers, NEW call,
           calls' = [calls EXCEPT ![c] = call], UNCHANGED <<cluster, epoch>>,
           Kept(call, cluster, epoch)
    PROVE  AdminInv'
<1>1. /\ cluster' \in Seq(SUBSET Items) /\ Len(cluster) <= Len(cluster')
      /\ \A i \in 1..Len(cluster) : cluster'[i] = cluster[i]
      /\ epoch' = epoch /\ Kept(call, cluster', epoch)
    BY DEF AdminInv
<1>. QED
    BY <1>1, OneCall

\* A call that failed is as it should be.
LEMMA FailedKept ==
    ASSUME AdminInv, NEW c \in Callers, NEW err, calls' = Failed(c, err), UNCHANGED <<cluster, epoch>>
    PROVE  AdminInv'
<1>1. Kept([state |-> "failed", err |-> err], cluster, epoch)
    BY DEF Kept
<1>. QED
    BY <1>1, OneCallOnly DEF Failed

\* The beginning of an operation.
LEMMA BeginKeeps ==
    ASSUME AdminInv, NEW c \in Callers, NEW op \in Operations, Begin(c, op)
    PROVE  AdminInv'
<1>1. Kept([state |-> "submitting", op |-> op, after |-> epoch], cluster, epoch)
    BY DEF Kept
<1>2. CASE calls' = [calls EXCEPT ![c] = [state |-> "submitting", op |-> op, after |-> epoch]]
    BY <1>1, <1>2, OneCallOnly DEF Begin
<1>3. CASE \E err \in {"enoent", "closed"} : calls' = Failed(c, err)
    BY <1>3, FailedKept DEF Begin
<1>. QED
    BY <1>2, <1>3 DEF Begin

\* The fields of the operations.
LEMMA OperationFields ==
    ASSUME NEW op \in Operations PROVE op.item \in Items /\ op.add \in BOOLEAN
<1>1. ASSUME NEW way, NEW add \in BOOLEAN, NEW item \in Items, op = Op(way, add, item)
      PROVE  op.item \in Items /\ op.add \in BOOLEAN
    BY <1>1 DEF Op
<1>2. \E way \in {"pool", "command", "stats"}, add \in BOOLEAN, item \in Items : op = Op(way, add, item)
    <2>1. \/ op = Op("pool", TRUE, "pool") \/ op = Op("pool", FALSE, "pool")
          \/ op = Op("command", TRUE, "blocklisted") \/ op = Op("stats", FALSE, "nothing")
          \/ op = Op("pool", TRUE, "snapshot") \/ op = Op("pool", FALSE, "snapshot")
          \/ op = Op("command", TRUE, "application") \/ op = Op("command", FALSE, "application")
        BY DEF Operations, CreatePool, DeletePool, Blocklist, Stats, Snapshots, Applications
    <2>. QED
        BY <2>1 DEF Items
<1>. QED
    BY <1>1, <1>2

\* What the monitor does with a request, and its answer.
LEMMA MonitorKeeps ==
    ASSUME AdminInv, NEW c \in Callers, Monitor(c)
    PROVE  AdminInv'
<1> DEFINE op == calls[c].op
           last == cluster[Len(cluster)]
           changed == IF op.way = "stats" \/ Result(op) = last THEN cluster ELSE Append(cluster, Result(op))
           answer(reply, at) == [state |-> "answered", op |-> op, after |-> calls[c].after, reply |-> reply, effect |-> at]
<1>1. /\ op \in Operations /\ cluster \in Seq(SUBSET Items) /\ Len(cluster) \in Nat \ {0} /\ epoch' = epoch
      /\ c \in DOMAIN calls
    BY DEF AdminInv, Kept, Monitor
<1>2. op.item \in Items /\ op.add \in BOOLEAN
    BY <1>1, OperationFields
<1>3. last \in SUBSET Items
    BY <1>1
<1>4. Result(op) \in SUBSET Items /\ (op.item \in Result(op) <=> op.add)
    BY <1>2, <1>3 DEF Result
<1>5. /\ changed \in Seq(SUBSET Items) /\ Len(cluster) <= Len(changed)
      /\ \A i \in 1..Len(cluster) : changed[i] = cluster[i]
      /\ Len(changed) \in 1..Len(changed)
    BY <1>1, <1>4
<1>6. op.way = "pool" => changed[Len(changed)] = Result(op)
    BY <1>1, <1>4
<1>7. \/ cluster' = changed /\ \E reply \in {"ok", "foreign"} : calls' = [calls EXCEPT ![c] = answer(reply, Len(changed))]
      \/ cluster' = cluster /\ calls' = [calls EXCEPT ![c] = answer("errno", 0)]
    BY <1>1 DEF Monitor
<1>8. ASSUME NEW reply \in {"ok", "foreign"}, cluster' = changed, calls' = [calls EXCEPT ![c] = answer(reply, Len(changed))]
      PROVE  AdminInv'
    <2>1. Kept(answer(reply, Len(changed)), changed, epoch)
        BY <1>1, <1>4, <1>5, <1>6 DEF Kept, Shows
    <2> HIDE DEF changed, answer
    <2>. QED
        BY <2>1, <1>1, <1>5, <1>8, OneCall
<1>9. CASE cluster' = cluster /\ calls' = [calls EXCEPT ![c] = answer("errno", 0)]
    <2>1. Kept(answer("errno", 0), cluster, epoch)
        BY <1>1 DEF Kept
    <2> HIDE DEF answer
    <2>. QED
        BY <2>1, <1>1, <1>9, OneCallOnly
<1> HIDE DEF changed, answer
<1>. QED
    BY <1>7, <1>8, <1>9

\* A call that succeeds found the map it needs.
LEMMA SucceededKept ==
    ASSUME AdminInv, NEW c \in Callers, calls' = Succeeded(c), UNCHANGED <<cluster, epoch>>,
           calls[c].op.way = "pool" => Shows(calls[c], cluster) /\ epoch >= Needed(calls[c])
    PROVE  AdminInv'
<1> DEFINE call == [state |-> "succeeded", op |-> calls[c].op, effect |-> calls[c].effect, seen |-> epoch]
<1>1. Kept(call, cluster, epoch)
    BY DEF Kept, Shows, Needed, AdminInv
<1>2. calls' = [calls EXCEPT ![c] = call]
    BY DEF Succeeded
<1> HIDE DEF call
<1>. QED
    BY <1>1, <1>2, OneCallOnly

\* The handling of an answer.
LEMMA AnsweredKeeps ==
    ASSUME AdminInv, NEW c \in Callers, Answered(c)
    PROVE  AdminInv'
<1>1. calls[c].state = "answered" /\ UNCHANGED <<cluster, epoch>> /\ Kept(calls[c], cluster, epoch) /\ c \in DOMAIN calls
    BY DEF Answered, AdminInv
<1>2. CASE calls[c].reply # "ok"
    BY <1>1, <1>2, FailedKept DEF Answered
<1>3. CASE calls[c].reply = "ok" /\ (calls[c].op.way = "stats" \/ (calls[c].op.way = "pool" /\ epoch >= Needed(calls[c])))
    <2>1. calls' = Succeeded(c)
        BY <1>3 DEF Answered
    <2>2. calls[c].op.way = "pool" => Shows(calls[c], cluster) /\ epoch >= Needed(calls[c])
        BY <1>1, <1>3 DEF Kept
    <2>. QED
        BY <1>1, <2>1, <2>2, SucceededKept
<1>4. CASE calls[c].reply = "ok" /\ calls' = [calls EXCEPT ![c].state = "waiting"]
    <2> DEFINE call == [calls[c] EXCEPT !.state = "waiting"]
    <2>1. calls' = [calls EXCEPT ![c] = call]
        BY <1>4
    <2>2. Kept(call, cluster, epoch)
        BY <1>1, <1>4 DEF Kept, Shows
    <2> HIDE DEF call
    <2>. QED
        BY <1>1, <2>1, <2>2, OneCallOnly
<1>5. CASE calls' = Failed(c, "closed")
    BY <1>1, <1>5, FailedKept
<1>. QED
    BY <1>2, <1>3, <1>4, <1>5 DEF Answered

\* The end of a wait for a map.
LEMMA WaitedKeeps ==
    ASSUME AdminInv, NEW c \in Callers, Waited(c)
    PROVE  AdminInv'
<1>1. calls[c].op.way = "pool" => Shows(calls[c], cluster) /\ epoch >= Needed(calls[c])
    BY DEF Waited, AdminInv, Kept
<1>. QED
    BY <1>1, SucceededKept DEF Waited

\* The steps that no call takes: maps arrive or are made, the session comes and goes.
LEMMA OthersKeep ==
    ASSUME AdminInv, Publish \/ OthersChange \/ Lose \/ Reconnect \/ Close
    PROVE  AdminInv'
<1>1. cluster \in Seq(SUBSET Items) /\ Len(cluster) \in Nat \ {0} /\ epoch \in Nat /\ epoch \in 1..Len(cluster)
    BY DEF AdminInv
<1>2. CASE Publish
    <2>1. epoch' \in Nat /\ epoch <= epoch' /\ epoch' \in 1..Len(cluster) /\ cluster' = cluster /\ calls' = calls
        BY <1>1, <1>2 DEF Publish
    <2>2. \A c \in Callers : Kept(calls[c], cluster, epoch')
        BY <1>1, <2>1, KeptGrows DEF AdminInv
    <2>. QED
        BY <2>1, <2>2 DEF AdminInv
<1>3. CASE OthersChange
    <2>1. cluster[Len(cluster)] \in SUBSET Items
        BY <1>1
    <2>2. /\ cluster' \in Seq(SUBSET Items) /\ Len(cluster) <= Len(cluster') /\ epoch' = epoch /\ calls' = calls
          /\ \A i \in 1..Len(cluster) : cluster'[i] = cluster[i]
        BY <1>1, <1>3, <2>1 DEF OthersChange
    <2>3. \A c \in Callers : Kept(calls[c], cluster', epoch)
        BY <1>1, <2>2, KeptGrows DEF AdminInv
    <2>4. epoch' \in 1..Len(cluster')
        BY <1>1, <2>2
    <2>. QED
        BY <2>2, <2>3, <2>4 DEF AdminInv
<1>4. CASE Lose
    <2>1. cluster' = cluster /\ epoch' = epoch /\ DOMAIN calls' = Callers
        BY <1>4 DEF Lose
    <2>2. \A c \in Callers : calls'[c] = [state |-> "failed", err |-> "unknown"] \/ calls'[c] = calls[c]
        BY <1>4 DEF Lose
    <2>3. Kept([state |-> "failed", err |-> "unknown"], cluster, epoch)
        BY DEF Kept
    <2>4. \A c \in Callers : Kept(calls'[c], cluster, epoch)
        BY <2>2, <2>3 DEF AdminInv
    <2>. QED
        BY <2>1, <2>4 DEF AdminInv
<1>5. CASE Reconnect \/ Close
    BY <1>5 DEF Reconnect, Close, AdminInv
<1>. QED
    BY <1>2, <1>3, <1>4, <1>5

\* Whatever the calls, the monitor and the session do, a pool or snapshot operation
\* (CreatePool, DeletePool, CreateSnapshot, RemoveSnapshot of admin.go and snapshot.go)
\* that returned success is shown by the client's map from then on.
THEOREM PoolChangesAreVisible == AdminSpec => []PoolChangeIsVisible
<1>1. AdminInv /\ [AdminNext]_adminVars => AdminInv'
    <2> SUFFICES ASSUME AdminInv, [AdminNext]_adminVars PROVE AdminInv'
        OBVIOUS
    <2>1. ASSUME NEW c \in Callers, Monitor(c) \/ Answered(c) \/ Waited(c) \/ Canceled(c) \/ \E op \in Operations: Begin(c, op)
          PROVE  AdminInv'
        <3>1. CASE Canceled(c)
            BY <3>1, FailedKept DEF Canceled
        <3>. QED
            BY <2>1, <3>1, MonitorKeeps, AnsweredKeeps, WaitedKeeps, BeginKeeps
    <2>2. CASE UNCHANGED adminVars
        BY <2>2 DEF adminVars, AdminInv
    <2>. QED
        BY <2>1, <2>2, OthersKeep DEF AdminNext
<1>2. AdminInv => PoolChangeIsVisible
    BY DEF AdminInv, Kept, Shows, PoolChangeIsVisible
<1>. QED
    BY AdminInitial, <1>1, <1>2, PTL DEF AdminSpec
=============================================================================
