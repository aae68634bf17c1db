----------------------------- MODULE Placement ------------------------------
(***************************************************************************)
(* From an object's hash to the OSD that serves it: the placement group     *)
(* (internal/crush/hash.go), and what the OSD map makes of the rule's       *)
(* result: upmaps, OSDs that are down, primary affinity, temporary sets and *)
(* the primary's shard (internal/maps/placement.go).  The rule itself is    *)
(* module Crush; the graph it runs on is validated here (crush/map.go).     *)
(*                                                                         *)
(* These are pure functions.  A behaviour asks one question and gets the    *)
(* answer.                                                                 *)
(***************************************************************************)
EXTENDS Integers, Sequences, FiniteSets, TLC

CONSTANTS
    OSDs,           \* 0..n
    HashBits,       \* hashes have this many bits
    MaxPGs,         \* the largest pg_num
    Buckets,        \* 1..n, standing for the bucket ids -1..-n
    MaxDepth        \* maxCertifiedDepth

VARIABLES question, answer
placementVars == <<question, answer>>

crushItemNone == 999
NoOSD == -1                         \* no primary
NoAnswer == [kind |-> "none"]
Refused == [kind |-> "refused"]
Elements(s) == {s[i]: i \in 1..Len(s)}
NotNone(s) == Elements(s) \ {crushItemNone}

(***************************************************************************)
(* Hashes and placement groups.                                            *)
(***************************************************************************)
Pow2(n) == 2^n
\* The bits of count - 1, all set: 1<<(32-leadingZeros32(count-1)) - 1.
Mask(count) == CHOOSE m \in {Pow2(b) - 1: b \in 0..HashBits}:
    m >= count - 1 /\ \A n \in {Pow2(b) - 1: b \in 0..HashBits}: n >= count - 1 => m <= n
And(value, mask) == value % (mask + 1)          \* mask is of the form 2^b - 1

StableMod(value, count) ==
    IF count = 0 THEN 0
    ELSE IF And(value, Mask(count)) < count THEN And(value, Mask(count))
    ELSE And(value, Mask(count) \div 2)

\* MapRawHash: the group an object belongs to, and the group its placement is drawn for.
MapRawHash(hash, pgCount, placementPGCount) ==
    IF pgCount = 0 \/ placementPGCount = 0 \/ placementPGCount > pgCount THEN Refused
    ELSE [kind |-> "pg", PG |-> StableMod(hash, pgCount), placementPG |-> StableMod(hash, placementPGCount)]

(***************************************************************************)
(* validateGraph: depth first, remembering the height of what was visited.  *)
(* graph gives the buckets below a bucket, in order; 0 is a bucket that the *)
(* map does not have.                                                       *)
(***************************************************************************)
Larger(a, b) == IF a > b THEN a ELSE b
Visit0 == [ok |-> TRUE, open |-> {}, heights |-> <<>>]
RECURSIVE Visit(_, _, _, _), VisitAll(_, _, _, _, _)
\* The heights found so far and the bucket's own, or ok = FALSE.  A bucket that is open
\* is being visited further up.
Visit(graph, id, depth, v) ==
    IF depth > MaxDepth \/ id \in v.open \/ id = 0 THEN [v EXCEPT !.ok = FALSE]
    ELSE IF id \in DOMAIN v.heights THEN [v EXCEPT !.ok = depth + v.heights[id] - 1 <= MaxDepth]
    ELSE VisitAll(graph, id, depth, graph[id], [v EXCEPT !.open = @ \cup {id}])
\* The children that are left, and then the bucket itself.
VisitAll(graph, id, depth, children, v) ==
    IF children = <<>>
    THEN LET below == {v.heights[c]: c \in Elements(graph[id])}
             height == IF below = {} THEN 1 ELSE 1 + CHOOSE h \in below: \A g \in below: g <= h
         IN  [v EXCEPT !.open = @ \ {id}, !.heights = (id :> height) @@ @]
    ELSE LET w == Visit(graph, Head(children), depth + 1, v)
         IN  IF w.ok THEN VisitAll(graph, id, depth, Tail(children), w) ELSE w

\* The buckets are taken in the order of a Go map, which is any order.
RECURSIVE VisitEach(_, _, _)
VisitEach(graph, order, v) ==
    IF order = <<>> \/ ~v.ok THEN v ELSE VisitEach(graph, Tail(order), Visit(graph, Head(order), 1, v))
validateGraph(graph, order) == VisitEach(graph, order, Visit0).ok

(***************************************************************************)
(* The OSD map's part.  m is the map: osdState of an OSD is "none", "down"  *)
(* or "up", osdWeight 0 or more; an absent exception is <<>> or NoOSD.      *)
(***************************************************************************)
exists(m, osd) == osd \in OSDs /\ m.osdState[osd] # "none"
isUp(m, osd) == osd \in OSDs /\ m.osdState[osd] = "up"
IsOut(m, osd) == osd \in OSDs /\ m.osdWeight[osd] = 0

firstOSD(osds) ==
    LET at == {i \in 1..Len(osds): osds[i] # crushItemNone}
    IN  IF at = {} THEN NoOSD ELSE osds[CHOOSE i \in at: \A j \in at: i <= j]

\* onlyUp of a replicated pool; an erasure-coded one keeps its positions.
upOSDs(m, source) ==
    IF m.type = "replicated" THEN SelectSeq(source, LAMBDA osd: isUp(m, osd))
    ELSE [i \in 1..Len(source) |-> IF isUp(m, source[i]) THEN source[i] ELSE crushItemNone]

validatePlacementSet(m, osds, allowDuplicates) ==
    /\ \A i \in 1..Len(osds): osds[i] = crushItemNone \/ exists(m, osds[i])
    /\ allowDuplicates \/ \A i, j \in 1..Len(osds): i # j /\ osds[i] # crushItemNone => osds[i] # osds[j]
validateUpmap(m) ==
    /\ validatePlacementSet(m, m.pgUpmap, FALSE)
    /\ \A i \in 1..Len(m.pgUpmapItems): LET to == m.pgUpmapItems[i].to IN to = crushItemNone \/ exists(m, to)

\* One remap: the first place of From takes To, unless To is there or is out.
Remap(m, osds, item) ==
    LET at == {i \in 1..Len(osds): osds[i] = item.from}
    IN  IF item.to \in Elements(osds) \/ at = {} \/ IsOut(m, item.to) THEN osds
        ELSE [osds EXCEPT ![CHOOSE i \in at: \A j \in at: i <= j] = item.to]
\* The wanted primary changes places with the first.
SwapFirst(m, osds) ==
    LET primary == m.pgUpmapPrimary
        at == {i \in 2..Len(osds): osds[i] = primary}
    IN  IF primary = NoOSD \/ IsOut(m, primary) \/ at = {} THEN osds
        ELSE LET i == CHOOSE i \in at: TRUE IN [osds EXCEPT ![1] = primary, ![i] = osds[1]]
RemapAll(m, osds, items) ==
    LET after[i \in 0..Len(items)] == IF i = 0 THEN osds ELSE Remap(m, after[i - 1], items[i]) IN after[Len(items)]
applyUpmap(m, raw) ==
    LET replaced == IF m.pgUpmap = <<>> THEN raw ELSE m.pgUpmap
    IN  IF \E i \in 1..Len(m.pgUpmap): IsOut(m, m.pgUpmap[i]) THEN raw
        ELSE SwapFirst(m, RemapAll(m, replaced, m.pgUpmapItems))

\* The first OSD that does not decline, or the first; of a replicated pool it moves
\* to the front.
applyPrimaryAffinity(m, up) ==
    LET candidates == {i \in 1..Len(up): up[i] # crushItemNone}
        willing == {i \in candidates: up[i] \notin m.declines}
        position == IF willing # {} THEN CHOOSE i \in willing: \A j \in willing: i <= j
                    ELSE CHOOSE i \in candidates: \A j \in candidates: i <= j
    IN  IF m.declines = {} \/ candidates = {} THEN [osds |-> up, primary |-> firstOSD(up)]
        ELSE [primary |-> up[position],
              osds |-> IF m.type # "replicated" THEN up
                       ELSE <<up[position]>> \o SubSeq(up, 1, position - 1) \o SubSeq(up, position + 1, Len(up))]

\* The shards of an optimized erasure-coded pool that are never primary come last in
\* its temporary sets.
Shards(m, osds, nonprimary) == SelectSeq([i \in 1..Len(osds) |-> i], LAMBDA i: (i \in m.nonprimaryShards) = nonprimary)
PrimaryFirstOrder(m, osds) == Shards(m, osds, FALSE) \o Shards(m, osds, TRUE)
pgTempPrimaryFirst(m, osds) == LET order == PrimaryFirstOrder(m, osds) IN [i \in 1..Len(osds) |-> osds[order[i]]]
pgTempUndoPrimaryFirst(m, osds) ==
    LET primaries == Cardinality((1..Len(osds)) \ m.nonprimaryShards)
        before(shard, S) == Cardinality({s \in S: s < shard})
    IN  [shard \in 1..Len(osds) |->
            IF shard \in m.nonprimaryShards THEN osds[primaries + 1 + before(shard, m.nonprimaryShards)]
            ELSE osds[1 + before(shard, (1..Len(osds)) \ m.nonprimaryShards)]]
pgTempUndoPrimaryFirstIndex(m, osds, position) == PrimaryFirstOrder(m, osds)[position]

Optimized(m) == m.type = "optimized"
tempMapping(m) ==
    LET primary == m.primaryTemp
        source == m.pgTemp
        up == upOSDs(m, source)
    IN  IF source = <<>> THEN [ok |-> TRUE, osds |-> <<>>, primary |-> primary]
        ELSE [ok |-> /\ validatePlacementSet(m, source, m.type # "replicated")
                     /\ Optimized(m) => Len(source) = m.size,
              osds |-> IF Optimized(m) THEN pgTempUndoPrimaryFirst(m, up) ELSE up,
              primary |-> IF primary = NoOSD THEN firstOSD(up) ELSE primary]

\* The shard of the primary: its first place, in the order the temporary set has.
PrimaryShard(m, acting, primary) ==
    LET reorder == Optimized(m) /\ m.pgTemp # <<>>
        order == IF reorder THEN pgTempPrimaryFirst(m, acting) ELSE acting
        at == {i \in 1..Len(order): order[i] = primary}
        first == CHOOSE i \in at: \A j \in at: i <= j
    IN  IF m.type = "replicated" \/ at = {} THEN 0
        ELSE IF reorder THEN pgTempUndoPrimaryFirstIndex(m, acting, first) ELSE first

placeMapped(m) ==
    LET up == upOSDs(m, applyUpmap(m, m.raw))
        preferred == applyPrimaryAffinity(m, up)
        temp == tempMapping(m)
        acting == IF temp.osds = <<>> THEN preferred.osds ELSE temp.osds
        primary == IF temp.osds = <<>> /\ temp.primary = NoOSD THEN preferred.primary ELSE temp.primary
    IN  IF ~validateUpmap(m) \/ ~temp.ok \/ (primary # NoOSD /\ primary \notin Elements(acting)) THEN Refused
        ELSE [kind |-> "placement", Up |-> preferred.osds, UpPrimary |-> preferred.primary, Acting |-> acting,
              ActingPrimary |-> primary, PrimaryShard |-> PrimaryShard(m, acting, primary)]

(***************************************************************************)
(* The questions.                                                          *)
(***************************************************************************)
Hashes == 0..Pow2(HashBits) - 1
HashQuestions == [kind: {"hash"}, hash: Hashes, pgCount: 0..MaxPGs, placementPGCount: 0..MaxPGs]

Orders == {o \in [1..Cardinality(Buckets) -> Buckets]: Elements(o) = Buckets}
Children == {<<>>} \cup {<<b>>: b \in Buckets \cup {0}} \cup {<<b, c>>: b, c \in Buckets}
GraphQuestions == [kind: {"graph"}, graph: [Buckets -> Children], order: Orders]

\* The rule's result is over the first OSDs; the others are there to be put in.
Wanted == {<<>>, <<1, 0, 2>>, <<2, crushItemNone, 0>>, <<1, 1, 2>>}
\* A temporary set of an optimized pool is what was wanted, with the shards that may
\* be primary first: the OSDs that ask for it write it so.
TempOf(m) == IF Optimized(m) THEN pgTempPrimaryFirst(m, m.wanted) ELSE m.wanted
MapQuestions ==
    {[q EXCEPT !.pgTemp = TempOf(q)]:
        q \in [kind: {"map"}, type: {"replicated", "erasure", "optimized"}, size: {3},
               nonprimaryShards: {{1}, {2}}, raw: {<<0, 1, 2>>}, wanted: Wanted, pgTemp: {<<>>},
               osdState: [OSDs -> {"none", "down", "up"}],
               osdWeight: {[o \in OSDs |-> IF o = 2 THEN w ELSE 1]: w \in {0, 1}},
               declines: {{}, {0}, {0, 1, 2}},
               pgUpmap: {<<>>, <<1, 3, 0>>, <<2, 2, 0>>},
               pgUpmapItems: {<<>>, <<[from |-> 0, to |-> 3]>>, <<[from |-> 1, to |-> 2], [from |-> 2, to |-> 3]>>},
               pgUpmapPrimary: {NoOSD, 1}, primaryTemp: {NoOSD, 1}]}

Questions == HashQuestions \cup GraphQuestions \cup MapQuestions
PlacementInit == question \in Questions /\ answer = NoAnswer
Answer ==
    /\ answer = NoAnswer
    /\ answer' = CASE question.kind = "hash" -> MapRawHash(question.hash, question.pgCount, question.placementPGCount)
                   [] question.kind = "graph" -> [kind |-> "graph", valid |-> validateGraph(question.graph, question.order)]
                   [] question.kind = "map" -> placeMapped(question)
    /\ UNCHANGED question
PlacementNext == Answer
PlacementSpec == PlacementInit /\ [][PlacementNext]_placementVars

(***************************************************************************)
(* What is promised.                                                       *)
(***************************************************************************)
\* An object's group exists; a pool that grows by one group moves objects into the new
\* group and nowhere else; and the objects of one group are placed alike.
HashesStay ==
    answer.kind = "pg" =>
        LET h == question.hash n == question.pgCount IN
        /\ answer.PG < n
        /\ n < MaxPGs => StableMod(h, n + 1) \in {answer.PG, n}
        /\ StableMod(answer.PG, question.placementPGCount) = answer.placementPG

\* Exactly the graphs are accepted in which every bucket exists and no walk passes more
\* than MaxDepth buckets, in whatever order they are visited.
GraphsAreBounded ==
    answer.kind = "graph" =>
        LET graph == question.graph IN
        answer.valid <=>
            /\ \A b \in Buckets: 0 \notin Elements(graph[b])
            /\ ~\E walk \in [1..MaxDepth + 1 -> Buckets]:
                    \A i \in 1..MaxDepth: walk[i + 1] \in Elements(graph[walk[i]])

\* The sets hold OSDs that are up, each once unless a temporary set says otherwise; where
\* any OSD can serve, there is a primary, it is up and in the acting set, and the shard
\* that is asked is one the primary has: one that may be primary, if it has such a shard.
\* A temporary set gives every shard the OSD that was wanted for it.
PrimaryServes ==
    answer.kind = "placement" =>
        LET m == question acting == answer.Acting primary == answer.ActingPrimary shard == answer.PrimaryShard
            mine == {i \in 1..Len(acting): acting[i] = primary}
        IN
        /\ \A osd \in NotNone(answer.Up) \cup NotNone(acting): isUp(m, osd)
        /\ \A i, j \in 1..Len(answer.Up): i # j /\ answer.Up[i] # crushItemNone => answer.Up[i] # answer.Up[j]
        /\ m.type = "replicated" => crushItemNone \notin Elements(acting) \cup Elements(answer.Up)
        /\ m.type # "replicated" => Len(answer.Up) = m.size /\ Len(acting) = m.size
        /\ NotNone(acting) = {} <=> primary = NoOSD
        /\ primary # NoOSD => primary \in NotNone(acting)
        /\ m.type # "replicated" /\ primary # NoOSD =>
            /\ acting[shard] = primary
            /\ Optimized(m) /\ m.pgTemp # <<>> /\ mine \ m.nonprimaryShards # {} => shard \notin m.nonprimaryShards
        /\ m.type # "replicated" /\ m.pgTemp # <<>> =>
            \A i \in 1..m.size: acting[i] = IF isUp(m, m.wanted[i]) THEN m.wanted[i] ELSE crushItemNone
=============================================================================
