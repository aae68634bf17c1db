------------------------------- MODULE Crush --------------------------------
(***************************************************************************)
(* The execution of a placement rule (internal/crush/place.go): FIRSTN and  *)
(* CHOOSELEAF FIRSTN of replicated pools, INDEP of erasure-coded ones, one  *)
(* action per turn of their loops.                                         *)
(*                                                                         *)
(* straw2Choose hashes the seed, the item and the replica number: for one   *)
(* seed it is a function of the bucket and the replica number, and any      *)
(* function as far as this module is concerned.  Its values are fixed when  *)
(* they are first asked for.                                               *)
(***************************************************************************)
EXTENDS Integers, Sequences, FiniteSets, TLC

CONSTANTS
    Hosts,          \* the buckets below the root, with the devices of each
    Replicas,       \* the pool's size
    Tries           \* ChooseTotalTries + 1, or the argument of SET_CHOOSE_TRIES

VARIABLES
    rule,           \* "firstn", "chooseleaf" or "indep"
    out,            \* the devices isOut rejects for this seed
    draws,          \* what straw2Choose has been found to return
    replica,        \* FIRSTN: the replica in turn; INDEP: the position in turn
    failures,       \* FIRSTN: of this replica; INDEP: the rounds that are over
    current,        \* the bucket the descent has come to
    output, leaves, \* the items and, of CHOOSELEAF, the devices below them
    done

crushVars == <<rule, out, draws, replica, failures, current, output, leaves, done>>

Root == -1                          \* buckets are negative
itemNone == 2147483647
Devices == UNION {Hosts[h]: h \in DOMAIN Hosts}
Items(bucket) == IF bucket = Root THEN DOMAIN Hosts ELSE Hosts[bucket]
Elements(s) == {s[i]: i \in 1..Len(s)}
NotNone(s) == Elements(s) \ {itemNone}

\* straw2Choose of a bucket that has items.
straw2Choose(bucket, r, item) ==
    IF <<bucket, r>> \in DOMAIN draws THEN item = draws[<<bucket, r>>] ELSE item \in Items(bucket)
Drawn(bucket, r, item) == draws' = (<<bucket, r>> :> item) @@ draws
\* A device, where the rule looks for one; otherwise a host.
IsTarget(item) == (item \in Devices) = (rule # "chooseleaf")

CrushInit ==
    /\ rule \in {"firstn", "chooseleaf", "indep"}
    /\ out \in SUBSET Devices
    /\ draws = <<>>
    /\ replica = 0 /\ failures = 0 /\ current = Root
    /\ output = IF rule = "indep" THEN [p \in 1..Replicas |-> itemNone] ELSE <<>>
    /\ leaves = <<>>
    /\ done = FALSE

(***************************************************************************)
(* chooseFirstN with the certified tunables: no local retries, so that a    *)
(* rejected or colliding item starts the descent again from the root.       *)
(***************************************************************************)
firstR == replica + failures
NextReplica == replica' = replica + 1 /\ failures' = 0 /\ current' = Root

\* A rejected or colliding item costs a try; the last try skips the replica.
Fails ==
    /\ IF failures + 1 < Tries
       THEN failures' = failures + 1 /\ current' = Root /\ replica' = replica
       ELSE NextReplica
    /\ UNCHANGED <<output, leaves>>

Accept(item, leaf) ==
    /\ output' = Append(output, item)
    /\ leaves' = IF rule = "chooseleaf" THEN Append(leaves, leaf) ELSE leaves
    /\ NextReplica

FirstNActive == rule # "indep" /\ ~done /\ replica < Replicas /\ Len(output) < Replicas

\* The bucket has no items.
RejectEmpty ==
    /\ FirstNActive /\ Items(current) = {}
    /\ Fails
    /\ UNCHANGED <<rule, out, draws, done>>

\* The item is a bucket of another type than the rule's: the descent goes on in it.
Descend(item) ==
    /\ FirstNActive /\ straw2Choose(current, firstR, item)
    /\ ~IsTarget(item)
    /\ current' = item
    /\ Drawn(current, firstR, item)
    /\ UNCHANGED <<rule, out, replica, failures, output, leaves, done>>

\* MUTANT of Collides: an item is compared with the one before it only.
CollidesLast(item) == output # <<>> /\ output[Len(output)] = item
Collides(item) == item \in Elements(output)

\* A device is the target.
ChooseDevice(item) ==
    /\ FirstNActive /\ straw2Choose(current, firstR, item)
    /\ item \in Devices /\ IsTarget(item)
    /\ Drawn(current, firstR, item)
    /\ \/ (Collides(item) \/ item \in out) /\ Fails
       \/ ~Collides(item) /\ item \notin out /\ Accept(item, item)
    /\ UNCHANGED <<rule, out, done>>

\* A host is the target: one try (ChooseleafDescendOnce) for a device below it, with
\* the replica number of the host (ChooseleafVaryR, ChooseleafStable).
ChooseHost(item) ==
    /\ FirstNActive /\ straw2Choose(current, firstR, item)
    /\ item \notin Devices /\ IsTarget(item)
    /\ \/ /\ Collides(item) \/ Items(item) = {}
          /\ Fails
          /\ Drawn(current, firstR, item)
       \/ /\ ~Collides(item)
          /\ \E leaf \in Items(item):
                /\ straw2Choose(item, firstR, leaf)
                /\ draws' = (<<item, firstR>> :> leaf) @@ (<<current, firstR>> :> item) @@ draws
                /\ IF leaf \in Elements(leaves) \/ leaf \in out THEN Fails ELSE Accept(item, leaf)
    /\ UNCHANGED <<rule, out, done>>

(***************************************************************************)
(* chooseIndep: rounds over the positions that are still empty.             *)
(***************************************************************************)
indepR == replica + Replicas * failures
NextPosition ==
    /\ current' = Root
    /\ replica' = (replica + 1) % Replicas
    /\ failures' = IF replica + 1 = Replicas THEN failures + 1 ELSE failures

Left == failures < Tries /\ \E p \in 1..Replicas: output[p] = itemNone
IndepActive == rule = "indep" /\ ~done /\ Left

SkipPosition ==
    /\ IndepActive /\ current = Root
    /\ output[replica + 1] # itemNone
    /\ NextPosition
    /\ UNCHANGED <<rule, out, draws, output, leaves, done>>
EmptyBucket ==
    /\ IndepActive /\ output[replica + 1] = itemNone /\ Items(current) = {}
    /\ NextPosition
    /\ UNCHANGED <<rule, out, draws, output, leaves, done>>
IndepDescend(item) ==
    /\ IndepActive /\ output[replica + 1] = itemNone /\ straw2Choose(current, indepR, item)
    /\ item \notin Devices
    /\ current' = item
    /\ Drawn(current, indepR, item)
    /\ UNCHANGED <<rule, out, replica, failures, output, leaves, done>>
IndepDevice(item) ==
    /\ IndepActive /\ output[replica + 1] = itemNone /\ straw2Choose(current, indepR, item)
    /\ item \in Devices
    /\ output' = IF item \in Elements(output) \cup out THEN output ELSE [output EXCEPT ![replica + 1] = item]
    /\ Drawn(current, indepR, item)
    /\ NextPosition
    /\ UNCHANGED <<rule, out, leaves, done>>

\* EMIT.
Emit ==
    /\ ~done /\ ~FirstNActive /\ ~IndepActive
    /\ done' = TRUE
    /\ UNCHANGED <<rule, out, draws, replica, failures, current, output, leaves>>

CrushNext ==
    \/ RejectEmpty \/ SkipPosition \/ EmptyBucket \/ Emit
    \/ \E item \in Items(current):
        Descend(item) \/ ChooseDevice(item) \/ ChooseHost(item) \/ IndepDescend(item) \/ IndepDevice(item)
CrushSpec == CrushInit /\ [][CrushNext]_crushVars /\ WF_crushVars(CrushNext)

(***************************************************************************)
(* What a rule promises.                                                   *)
(***************************************************************************)
HostOf(device) == CHOOSE h \in DOMAIN Hosts: device \in Hosts[h]
Injective(s) == \A i, j \in 1..Len(s): i # j /\ s[i] # itemNone => s[i] # s[j]

\* The device that a descent from the root with r comes to, or none.
Found(r) ==
    LET host == draws[<<Root, r>>] IN IF <<host, r>> \in DOMAIN draws THEN draws[<<host, r>>] ELSE itemNone

\* No device is chosen twice and none that is out.  CHOOSELEAF takes every device from
\* another host.  INDEP has a position for every replica, and a position is empty only
\* when every try for it came to nothing, or to a device that is out or was taken.
RuleIsKept ==
    done =>
        LET chosen == IF rule = "chooseleaf" THEN leaves ELSE output IN
        /\ Injective(chosen) /\ NotNone(chosen) \subseteq Devices \ out
        /\ Len(chosen) <= Replicas
        /\ rule # "indep" => itemNone \notin Elements(chosen)
        /\ rule = "chooseleaf" => Injective([i \in 1..Len(chosen) |-> HostOf(chosen[i])])
        /\ rule = "indep" =>
            /\ Len(chosen) = Replicas
            /\ \A p \in 1..Replicas: output[p] = itemNone =>
                \A f \in 0..Tries - 1:
                    LET r == p - 1 + Replicas * f IN
                    <<Root, r>> \in DOMAIN draws /\ Found(r) \in out \cup Elements(output) \cup {itemNone}

=============================================================================
