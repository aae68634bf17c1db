------------------------------ MODULE OSDMaps -------------------------------
(***************************************************************************)
(* How a client follows the cluster's OSD map: a full map, and then an      *)
(* incremental per epoch (internal/maps/incremental.go).                    *)
(*                                                                         *)
(* A map is an immutable snapshot that other goroutines hold while the next *)
(* one is made from it.  The next one shares with it every table that the   *)
(* incremental does not touch; a table is therefore a place in a heap, and  *)
(* an assignment to a table that was not cloned first is seen through every *)
(* snapshot that shares it.                                                 *)
(*                                                                         *)
(* The monitors are external.  They change the map by operations, each of   *)
(* which says what becomes of the map and how the change is encoded; the    *)
(* client sees the encoding only.                                          *)
(***************************************************************************)
EXTENDS Integers, Sequences, FiniteSets, TLC

CONSTANTS
    MaxEpoch,       \* the last epoch of the cluster
    MaxOSDs,        \* the largest map size
    Pools, Names,   \* pool ids and names
    PGs

VARIABLES
    history,        \* the cluster's map at every epoch so far
    increments,     \* the incremental that leads to each epoch but the first
    heap,           \* the tables in memory
    held            \* the snapshots the client has made, the newest last

mapVars == <<history, increments, heap, held>>

None == <<>>                        \* an absent address, an empty table, an empty string
DefaultAffinity == 16
Xor(a, b) == (a \ b) \cup (b \ a)
Without(f, keys) == [k \in DOMAIN f \ keys |-> f[k]]

Tables == {"pools", "nameToID", "osdState", "osdWeight", "primaryAffinity", "clientAddresses", "pgTemp",
           "primaryTemp", "pgUpmap", "pgUpmapItems", "pgUpmapPrimaries", "erasureCodeProfiles"}

(***************************************************************************)
(* External: the monitors.  u is a map and the incremental that led to it.  *)
(***************************************************************************)
Unchanged ==
    [newMaxOSD |-> -1, newFlags |-> -1, crushData |-> None, newPools |-> None, newPoolNames |-> None,
     oldPools |-> {}, newUpClient |-> None, newState |-> None, newWeight |-> None, newPrimaryAffinity |-> None,
     newPGTemp |-> None, newPrimaryTemp |-> None, newPGUpmap |-> None, oldPGUpmap |-> {},
     newPGUpmapItems |-> None, oldPGUpmapItems |-> {}, newPGUpmapPrimaries |-> None, oldPGUpmapPrimaries |-> {},
     newErasureProfiles |-> None, oldErasureProfiles |-> {}, fullMap |-> FALSE]

StateChange(u, o, mask, result) ==
    [u EXCEPT !.map.osdState[o] = result, !.inc.newState = (o :> mask) @@ @]
Weighed(u, o, weight) ==
    [u EXCEPT !.map.osdWeight[o] = weight, !.inc.newWeight = (o :> weight) @@ @]

If(condition, changes) == IF condition THEN changes ELSE {}
\* What can happen to one OSD in an epoch.
OSDChanges(u, o) ==
    LET state == u.map.osdState[o]
        down == "exists" \in state /\ "up" \notin state
        affinity == IF u.map.primaryAffinity = None THEN [p \in DOMAIN u.map.osdState |-> DefaultAffinity]
                    ELSE u.map.primaryAffinity
    IN
    \* It boots.
    If("up" \notin state,
       {[u EXCEPT !.map.osdState[o] = (@ \cup {"exists", "up"}) \ {"stop"}, !.map.clientAddresses[o] = <<2>>,
                  !.inc.newUpClient = (o :> <<2>>) @@ @]})
    \* It is found down, where a mask of no bits stands for "up", or stopped.
    \cup If("up" \in state,
            {StateChange(u, o, mask, state \ {"up"}): mask \in {{}, {"up"}}}
            \cup {StateChange(u, o, {"up", "stop"}, (state \ {"up"}) \cup {"stop"})})
    \* It is taken out for being down; it is taken out or in by the administrator.
    \cup If(down /\ "autoout" \notin state, {StateChange(Weighed(u, o, 0), o, {"autoout"}, state \cup {"autoout"})})
    \cup If("exists" \in state,
            {[Weighed(u, o, weight) EXCEPT !.map.osdState[o] = IF weight = 0 THEN @ ELSE @ \ {"autoout", "new"}]:
                weight \in {0, 1}})
    \* It is created, or removed for good.
    \cup If(state = {}, {StateChange(u, o, {"exists", "new"}, {"exists", "new"})})
    \cup If(down, {[StateChange(u, o, {"exists"}, {}) EXCEPT !.map.clientAddresses[o] = None,
                        !.map.primaryAffinity = IF @ = None THEN @ ELSE [@ EXCEPT ![o] = DefaultAffinity]]})
    \* Its primary affinity is set.
    \cup {[u EXCEPT !.map.primaryAffinity = [affinity EXCEPT ![o] = 0], !.inc.newPrimaryAffinity = (o :> 0) @@ @]}

Resized(table, size, default) == [o \in 0..size - 1 |-> IF o \in DOMAIN table THEN table[o] ELSE default]
SizeChanges(u) ==
    {[u EXCEPT !.inc.newMaxOSD = size, !.map.maxOSD = size,
               !.map.osdState = Resized(@, size, {}), !.map.osdWeight = Resized(@, size, 0),
               !.map.clientAddresses = Resized(@, size, None),
               !.map.primaryAffinity = IF @ = None THEN @ ELSE Resized(@, size, DefaultAffinity)]:
        size \in 1..MaxOSDs}

\* Pools are created, changed, renamed to a free name and removed.
NamesOf(pools) == {pools[id].name: id \in DOMAIN pools}
IndexOf(pools) == [n \in NamesOf(pools) |-> CHOOSE id \in DOMAIN pools: pools[id].name = n]
WithPools(u, pools) == [u EXCEPT !.map.pools = pools, !.map.nameToID = IndexOf(pools)]
PoolChanges(u) ==
    LET pools == u.map.pools
        free == Names \ NamesOf(pools)
    IN  {[WithPools(u, (id :> [name |-> n, revision |-> 1]) @@ pools) EXCEPT
            !.inc.newPools = (id :> [name |-> "", revision |-> 1]) @@ @, !.inc.newPoolNames = (id :> n) @@ @]:
            id \in Pools \ DOMAIN pools, n \in free}
        \cup {[WithPools(u, [pools EXCEPT ![id].revision = 2]) EXCEPT
            !.inc.newPools = (id :> [name |-> "", revision |-> 2]) @@ @]: id \in DOMAIN pools}
        \cup {[WithPools(u, [pools EXCEPT ![id].name = n]) EXCEPT !.inc.newPoolNames = (id :> n) @@ @]:
            id \in DOMAIN pools, n \in free}
        \cup {[WithPools(u, Without(pools, {id})) EXCEPT !.inc.oldPools = @ \cup {id}]: id \in DOMAIN pools}

\* The exceptions of a placement group come and go.
PGChanges(u, pg) ==
    {[u EXCEPT !.map.pgTemp = (pg :> <<1>>) @@ @, !.inc.newPGTemp = pg :> <<1>>,
               !.map.primaryTemp = (pg :> 1) @@ @, !.inc.newPrimaryTemp = pg :> 1],
     [u EXCEPT !.map.pgTemp = Without(@, {pg}), !.inc.newPGTemp = pg :> None,
               !.map.primaryTemp = Without(@, {pg}), !.inc.newPrimaryTemp = pg :> -1],
     [u EXCEPT !.map.pgUpmap = (pg :> <<0, 1>>) @@ @, !.inc.newPGUpmap = pg :> <<0, 1>>,
               !.map.pgUpmapItems = Without(@, {pg}), !.inc.oldPGUpmapItems = {pg}],
     [u EXCEPT !.map.pgUpmap = Without(@, {pg}), !.inc.oldPGUpmap = {pg},
               !.map.pgUpmapItems = (pg :> <<0, 1>>) @@ @, !.inc.newPGUpmapItems = pg :> <<0, 1>>],
     [u EXCEPT !.map.pgUpmapPrimaries = (pg :> 1) @@ @, !.inc.newPGUpmapPrimaries = pg :> 1],
     [u EXCEPT !.map.pgUpmapPrimaries = Without(@, {pg}), !.inc.oldPGUpmapPrimaries = {pg}]}

\* Settings of the whole cluster.
OtherChanges(u) ==
    {[u EXCEPT !.map.flags = 3, !.inc.newFlags = 3],
     [u EXCEPT !.map.crushData = Append(@, 1), !.inc.crushData = Append(u.map.crushData, 1), !.map.crushVersion = @ + 1],
     [u EXCEPT !.map.erasureCodeProfiles = ("profile" :> 1) @@ @, !.inc.newErasureProfiles = "profile" :> 1],
     [u EXCEPT !.map.erasureCodeProfiles = Without(@, {"profile"}), !.inc.oldErasureProfiles = {"profile"}]}

\* An epoch holds one change, or a change of each of two OSDs; it may be sent as a
\* full map in an incremental.
Changes(m) ==
    LET u == [map |-> m, inc |-> Unchanged]
        single == UNION {OSDChanges(u, o): o \in DOMAIN m.osdState}
        double == IF m.maxOSD < 2 THEN {} ELSE UNION {OSDChanges(v, 1): v \in OSDChanges(u, 0)}
        plain == single \cup double \cup SizeChanges(u) \cup PoolChanges(u)
                 \cup UNION {PGChanges(u, pg): pg \in PGs} \cup OtherChanges(u)
    IN  plain \cup {[v EXCEPT !.inc.fullMap = TRUE]: v \in SizeChanges(u)}

\* An OSD that serves, one that has gone, and a pool.
InitialMap ==
    [pools |-> (1 :> [name |-> "a", revision |-> 1]), nameToID |-> ("a" :> 1),
     osdState |-> (0 :> {"exists", "up"} @@ 1 :> {"exists"}), osdWeight |-> (0 :> 1 @@ 1 :> 1),
     primaryAffinity |-> None, clientAddresses |-> (0 :> <<1>> @@ 1 :> <<1>>), pgTemp |-> None, primaryTemp |-> None,
     pgUpmap |-> None, pgUpmapItems |-> None, pgUpmapPrimaries |-> None, erasureCodeProfiles |-> None,
     maxOSD |-> 2, flags |-> 0, crushData |-> <<0>>, crushVersion |-> 1]

(***************************************************************************)
(* The client: a snapshot refers to its tables.                            *)
(***************************************************************************)
Epoch == Len(history)
Contents(s) ==
    [f \in DOMAIN InitialMap |-> IF f \in Tables THEN heap[s.tables[f]] ELSE s.values[f]]

\* DecodeOSDMap: a map with tables of its own.
Decoded(m, epoch) ==
    [epoch |-> epoch, values |-> [f \in DOMAIN InitialMap \ Tables |-> m[f]],
     tables |-> [f \in Tables |-> <<epoch, f>>]]
DecodedTables(m, epoch) == [place \in {<<epoch, f>>: f \in Tables} |-> m[place[2]]]

\* cloneOSDMapForIncremental: the tables the incremental is about are copied.
Resizes(inc) == inc.newMaxOSD >= 0
Some(f) == DOMAIN f # {}
\* MUTANT of Cloned: an OSD that is removed is not taken for a change of addresses.
ClonedUnlessRemoved(f, inc) == f = "clientAddresses" => Resizes(inc) \/ Some(inc.newUpClient)
Cloned(f, inc) ==
    CASE f \in {"pools", "nameToID"} -> Some(inc.newPools) \/ Some(inc.newPoolNames) \/ inc.oldPools # {}
      [] f = "osdState" -> Resizes(inc) \/ Some(inc.newWeight) \/ Some(inc.newState) \/ Some(inc.newUpClient)
      [] f = "osdWeight" -> Resizes(inc) \/ Some(inc.newWeight)
      [] f = "primaryAffinity" -> Resizes(inc) \/ Some(inc.newPrimaryAffinity) \/ Some(inc.newState)
      [] f = "clientAddresses" -> Resizes(inc) \/ Some(inc.newUpClient) \/ Some(inc.newState)
      [] f = "pgTemp" -> Some(inc.newPGTemp)
      [] f = "primaryTemp" -> Some(inc.newPrimaryTemp)
      [] f = "pgUpmap" -> Some(inc.newPGUpmap) \/ inc.oldPGUpmap # {}
      [] f = "pgUpmapItems" -> Some(inc.newPGUpmapItems) \/ inc.oldPGUpmapItems # {}
      [] f = "pgUpmapPrimaries" -> Some(inc.newPGUpmapPrimaries) \/ inc.oldPGUpmapPrimaries # {}
      [] f = "erasureCodeProfiles" -> Some(inc.newErasureProfiles) \/ inc.oldErasureProfiles # {}

\* resizeOSDs, on the copies.
resizeOSDs(m, size) ==
    [m EXCEPT !.maxOSD = size, !.osdState = Resized(@, size, {}), !.osdWeight = Resized(@, size, 0),
              !.primaryAffinity = IF @ = None THEN @ ELSE Resized(@, size, DefaultAffinity),
              !.clientAddresses = Resized(@, size, None)]

\* The parts of ApplyOSDMapIncremental, in its order.
applySettings(m, inc) ==
    LET sized == IF Resizes(inc) THEN resizeOSDs(m, inc.newMaxOSD) ELSE m
        flagged == IF inc.newFlags >= 0 THEN [sized EXCEPT !.flags = inc.newFlags] ELSE sized
    IN  IF inc.crushData = None THEN flagged
        ELSE [flagged EXCEPT !.crushData = inc.crushData, !.crushVersion = @ + 1]

\* A pool that is replaced keeps its name; the renames of one incremental are of
\* different pools, to names no pool has.
applyPools(m, inc) ==
    LET replaced == [id \in DOMAIN inc.newPools |->
                        [inc.newPools[id] EXCEPT !.name = IF id \in DOMAIN m.pools THEN m.pools[id].name ELSE ""]]
        pools == replaced @@ m.pools
        renamed == [id \in DOMAIN pools |->
                        IF id \in DOMAIN inc.newPoolNames THEN [pools[id] EXCEPT !.name = inc.newPoolNames[id]] ELSE pools[id]]
        names == [id \in DOMAIN inc.newPoolNames |-> pools[id].name]
        given == [n \in {inc.newPoolNames[id]: id \in DOMAIN names} |->
                        CHOOSE id \in DOMAIN names: inc.newPoolNames[id] = n]
        index == given @@ Without(m.nameToID, {names[id]: id \in DOMAIN names})
        gone == inc.oldPools \cap DOMAIN renamed
    IN  [m EXCEPT !.pools = Without(renamed, gone), !.nameToID = Without(index, {renamed[id].name: id \in gone})]

applyWeights(m, inc) ==
    LET affinity == IF Some(inc.newPrimaryAffinity) /\ m.primaryAffinity = None
                    THEN [o \in 0..m.maxOSD - 1 |-> DefaultAffinity] ELSE m.primaryAffinity
    IN  [m EXCEPT !.osdWeight = inc.newWeight @@ @,
                  !.osdState = [o \in DOMAIN @ |-> IF o \in DOMAIN inc.newWeight /\ inc.newWeight[o] # 0
                                                   THEN @[o] \ {"autoout", "new"} ELSE @[o]],
                  !.primaryAffinity = inc.newPrimaryAffinity @@ affinity]

Mask(bits) == IF bits = {} THEN {"up"} ELSE bits
applyStates(m, inc) ==
    LET gone == {o \in DOMAIN inc.newState: "exists" \in m.osdState[o] /\ "exists" \in Mask(inc.newState[o])}
    IN  [m EXCEPT !.osdState = [o \in DOMAIN @ |->
                        IF o \in gone THEN {}
                        ELSE IF o \in DOMAIN inc.newState THEN Xor(@[o], Mask(inc.newState[o])) ELSE @[o]],
                  !.primaryAffinity = [o \in DOMAIN @ |-> IF o \in gone THEN DefaultAffinity ELSE @[o]],
                  !.clientAddresses = [o \in DOMAIN @ |-> IF o \in gone THEN None ELSE @[o]]]
applyBoots(m, inc) ==
    [m EXCEPT !.osdState = [o \in DOMAIN @ |-> IF o \in DOMAIN inc.newUpClient
                                               THEN (@[o] \cup {"exists", "up"}) \ {"stop"} ELSE @[o]],
              !.clientAddresses = inc.newUpClient @@ @]

Removed(changes, deleted) == {k \in DOMAIN changes: changes[k] = deleted}
Merged(table, changes, deleted) == Without(changes @@ table, Removed(changes, deleted))
applyPGs(m, inc) ==
    [m EXCEPT !.pgTemp = Merged(@, inc.newPGTemp, None),
              !.primaryTemp = Merged(@, inc.newPrimaryTemp, -1),
              !.erasureCodeProfiles = inc.newErasureProfiles @@ Without(@, inc.oldErasureProfiles),
              !.pgUpmap = Without(inc.newPGUpmap @@ @, inc.oldPGUpmap),
              !.pgUpmapItems = Without(inc.newPGUpmapItems @@ @, inc.oldPGUpmapItems),
              !.pgUpmapPrimaries = Without(inc.newPGUpmapPrimaries @@ @, inc.oldPGUpmapPrimaries)]

Applied(m, inc) == applyPGs(applyBoots(applyStates(applyWeights(applyPools(applySettings(m, inc), inc), inc), inc), inc), inc)

\* What is refused: an incremental that does not follow the map, an OSD outside the
\* map (validateOSD), the name of another pool, and a pool without a name.
Valid(s, m, epoch, inc) ==
    /\ epoch = s.epoch + 1
    /\ DOMAIN inc.newWeight \cup DOMAIN inc.newPrimaryAffinity \cup DOMAIN inc.newState \cup DOMAIN inc.newUpClient
            \subseteq DOMAIN applySettings(m, inc).osdState
    /\ \A id \in DOMAIN inc.newPoolNames:
        /\ id \in DOMAIN m.pools \cup DOMAIN inc.newPools
        /\ inc.newPoolNames[id] \in DOMAIN m.nameToID => m.nameToID[inc.newPoolNames[id]] = id
    /\ \A id \in DOMAIN Applied(m, inc).pools: Applied(m, inc).pools[id].name # ""

Latest == held[Len(held)]

\* The monitors publish an epoch.
Publish ==
    /\ Epoch = Latest.epoch /\ Epoch < MaxEpoch
    /\ \E u \in Changes(history[Epoch]):
        /\ history' = Append(history, u.map)
        /\ increments' = Append(increments, u.inc)
    /\ UNCHANGED <<heap, held>>

\* DecodeOSDMap of a full map, sent on its own or in place of an incremental.
Replace(epoch) ==
    /\ held' = Append(held, Decoded(history[epoch], epoch))
    /\ heap' = DecodedTables(history[epoch], epoch) @@ heap
ReceiveFull == Epoch > Latest.epoch /\ Replace(Epoch) /\ UNCHANGED <<history, increments>>

ApplyOSDMapIncremental(epoch) ==
    LET inc == increments[epoch - 1]
        current == Contents(Latest)
        next == Applied(current, inc)
        tables == [f \in Tables |-> IF Cloned(f, inc) THEN <<epoch, f>> ELSE Latest.tables[f]]
    IN  /\ Valid(Latest, current, epoch, inc)
        /\ \/ inc.fullMap /\ Replace(epoch)
           \/ /\ ~inc.fullMap
              /\ held' = Append(held, [epoch |-> epoch, values |-> [f \in DOMAIN InitialMap \ Tables |-> next[f]],
                                       tables |-> tables])
              /\ heap' = [place \in {tables[f]: f \in Tables} |-> next[place[2]]] @@ heap
        /\ UNCHANGED <<history, increments>>

MapInit ==
    /\ history = <<InitialMap>>
    /\ increments = <<>>
    /\ heap = DecodedTables(InitialMap, 1)
    /\ held = <<Decoded(InitialMap, 1)>>
MapNext == Publish \/ ReceiveFull \/ \E epoch \in 2..Epoch: ApplyOSDMapIncremental(epoch)
MapSpec == MapInit /\ [][MapNext]_mapVars

\* Every snapshot the client has ever made shows the map the cluster had at its
\* epoch, however it was made and whatever was made from it since.
SnapshotsMatch == \A i \in 1..Len(held): Contents(held[i]) = history[held[i].epoch]
=============================================================================
