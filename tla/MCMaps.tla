------------------------------- MODULE MCMaps ------------------------------
(***************************************************************************)
(* What the client does with the cluster map, on small instances: the       *)
(* snapshots it makes from full maps and increments (OSDMaps), the devices   *)
(* a CRUSH rule selects (Crush), the group and the primary of an object     *)
(* (Placement), the changes it reports to subscribers (ClusterChanges), the *)
(* listing of the objects of a pool by placement group (Enumeration), and   *)
(* the changes of pools and metadata that wait for a map (Admin).           *)
(* A behaviour is one of one of them, `part`; the variables of the others   *)
(* are unused.  PoolChangeIsVisible is that of Admin.                       *)
(***************************************************************************)
EXTENDS Admin, TLC

CONSTANTS MaxOSDs, Pools, Names, PGs,
          Replicas, Tries,
          OSDs, PlacementBits, MaxPGs, Buckets, MaxDepth,
          Subscribers, Queue, MaxMaps, MaxReports,
          HashBits, PGCounts, Partitions, Limits, MaxChanges

VARIABLES
    part,
    history, increments, heap, held,
    rule, out, draws, replica, failures, current, output, leaves, done,
    question, answer,
    state, unpublished, reported, maps, reports, sequence, shut, sub,
    existing, pgCount, changes, boundaries, after, listed, call

osdMapVars == <<history, increments, heap, held>>
crushVars == <<rule, out, draws, replica, failures, current, output, leaves, done>>
placementVars == <<question, answer>>
changesVars == <<state, unpublished, reported, maps, reports, sequence, shut, sub>>
listingVars == <<existing, pgCount, changes, boundaries, after, listed, call>>
mapsVars == <<part, osdMapVars, crushVars, placementVars, changesVars, listingVars, adminVars>>

\* Three hosts: one with two devices, one with one, an empty one.
Hosts == (-2 :> {0, 1}) @@ (-3 :> {2}) @@ (-4 :> {})
\* Four objects that exist all the while, three of the same hash, and one that may not.
Object(hash, namespace, key, name) == [Hash |-> hash, Namespace |-> namespace, Key |-> key, Object |-> name]
StableObjects == {Object(3, 0, 0, 1), Object(3, 0, 2, 3), Object(3, 1, 0, 5), Object(4, 0, 0, 4)}

O == INSTANCE OSDMaps
C == INSTANCE Crush
P == INSTANCE Placement WITH HashBits <- PlacementBits
B == INSTANCE ClusterChanges WITH cluster <- state, closed <- shut
E == INSTANCE Enumeration WITH Objects <- StableObjects \cup {Object(1, 0, 0, 2)}, Stable <- StableObjects

\* The variables of the parts that do not run; those of Admin keep their initial values.
Unused == "unused"
NoOSDMap ==
    /\ history = Unused /\ increments = Unused /\ heap = Unused /\ held = Unused
NoCrush ==
    /\ rule = Unused /\ out = Unused /\ draws = Unused /\ replica = Unused /\ failures = Unused
    /\ current = Unused /\ output = Unused /\ leaves = Unused /\ done = Unused
NoPlacement ==
    /\ question = Unused /\ answer = Unused
NoChanges ==
    /\ state = Unused /\ unpublished = Unused /\ reported = Unused /\ maps = Unused
    /\ reports = Unused /\ sequence = Unused /\ shut = Unused /\ sub = Unused
NoListing ==
    /\ existing = Unused /\ pgCount = Unused /\ changes = Unused /\ boundaries = Unused
    /\ after = Unused /\ listed = Unused /\ call = Unused
NoAdmin ==
    /\ AdminInit /\ cluster = <<{}>>

MapsInit ==
    \/ part = "osdmap" /\ O!MapInit /\ NoCrush /\ NoPlacement /\ NoChanges /\ NoListing /\ NoAdmin
    \/ part = "crush" /\ C!CrushInit /\ NoOSDMap /\ NoPlacement /\ NoChanges /\ NoListing /\ NoAdmin
    \/ part = "placement" /\ P!PlacementInit /\ NoOSDMap /\ NoCrush /\ NoChanges /\ NoListing /\ NoAdmin
    \/ part = "changes" /\ B!Init /\ NoOSDMap /\ NoCrush /\ NoPlacement /\ NoListing /\ NoAdmin
    \/ part = "listing" /\ E!EnumInit /\ NoOSDMap /\ NoCrush /\ NoPlacement /\ NoChanges /\ NoAdmin
    \/ part = "admin" /\ AdminInit /\ NoOSDMap /\ NoCrush /\ NoPlacement /\ NoChanges /\ NoListing
MapsNext ==
    /\ UNCHANGED part
    /\ \/ part = "osdmap" /\ O!MapNext /\ UNCHANGED <<crushVars, placementVars, changesVars, listingVars, adminVars>>
       \/ part = "crush" /\ C!CrushNext /\ UNCHANGED <<osdMapVars, placementVars, changesVars, listingVars, adminVars>>
       \/ part = "placement" /\ P!PlacementNext /\ UNCHANGED <<osdMapVars, crushVars, changesVars, listingVars, adminVars>>
       \/ part = "changes" /\ B!Next /\ UNCHANGED <<osdMapVars, crushVars, placementVars, listingVars, adminVars>>
       \/ part = "listing" /\ E!EnumNext /\ UNCHANGED <<osdMapVars, crushVars, placementVars, changesVars, adminVars>>
       \/ part = "admin" /\ AdminNext /\ UNCHANGED <<osdMapVars, crushVars, placementVars, changesVars, listingVars>>
MapsSpec == MapsInit /\ [][MapsNext]_mapsVars

\* Every snapshot the client ever made shows the map the cluster had at its epoch,
\* whatever was applied to it since (ApplyOSDMapIncremental shares what it can).
SnapshotsMatch == part = "osdmap" => O!SnapshotsMatch

\* A rule selects devices that are in, each once, in distinct hosts where it says so; the
\* objects of a pool stay in their groups as it grows, a CRUSH graph that is accepted has
\* no cycle, and the primary is an OSD that serves the group.
PlacementSafe ==
    /\ part = "crush" => C!RuleIsKept
    /\ part = "placement" => P!HashesStay /\ P!GraphsAreBounded /\ P!PrimaryServes

\* A subscriber that is not told of an overflow sees every change, and they add up to the
\* state of the cluster.
ChangesSafe == part = "changes" => B!NoGap /\ B!FollowsCluster

\* Partitions of a pool make up the whole, and a listing of them returns every object once.
ListingSafe == part = "listing" => E!ListedOnce /\ E!PartitionsTile
=============================================================================
