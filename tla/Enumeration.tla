---------------------------- MODULE Enumeration -----------------------------
(***************************************************************************)
(* Listing the objects of a pool (object.go, internal/objecter/client.go).  *)
(*                                                                         *)
(* A scan splits the pool into partitions and lists each of them by calls   *)
(* that are bounded in size; a call fetches pages from the primaries of the *)
(* placement groups.  Objects come and go between two pages, and placement  *)
(* groups are split.                                                       *)
(*                                                                         *)
(* Names, locators and namespaces are numbers, 0 standing for "".           *)
(***************************************************************************)
EXTENDS Integers, Sequences, FiniteSets

CONSTANTS
    HashBits,       \* hashes have this many bits (32)
    Objects,        \* the objects that can exist: [Hash, Namespace, Key, Object]
    Stable,         \* those that exist throughout
    PGCounts,       \* the pg_num the pool can have
    Partitions,     \* how many partitions a scan asks for
    Limits,         \* how many objects a call asks for
    MaxChanges      \* how often an object comes or goes, or groups are split

VARIABLES
    existing,       \* the objects that exist
    pgCount,        \* the pool's pg_num
    changes,        \* how many changes there were
    boundaries,     \* the cursors SplitCursor returned, <<>> before
    after,          \* the cursor each partition has reached
    listed,         \* what was listed from each partition
    call            \* the call in progress

enumVars == <<existing, pgCount, changes, boundaries, after, listed, call>>

(***************************************************************************)
(* Cursors and their order.  The pool's id is 1; the least cursor has the   *)
(* least pool and snapshot 0.                                              *)
(***************************************************************************)
NoSnap == 9
Min == [Key |-> 0, Object |-> 0, Snapshot |-> 0, Hash |-> 0, Max |-> FALSE, Namespace |-> 0, Pool |-> 0]
Max == [Min EXCEPT !.Max = TRUE]
At(hash) == [Min EXCEPT !.Snapshot = NoSnap, !.Hash = hash, !.Pool = 1]
\* enumerationEntryCursors: the cursor of an object, with the hash of its own name.
EntryCursor(o) == [At(o.Hash) EXCEPT !.Namespace = o.Namespace, !.Key = o.Key, !.Object = o.Object]
IsMin(h) == h.Snapshot = 0 /\ h.Hash = 0 /\ ~h.Max /\ h.Pool = 0
IsMax(h) == h.Max

Space == 2^HashBits
ReverseBits(value) ==
    LET bit[i \in 0..HashBits] ==
            IF i = 0 THEN 0 ELSE bit[i - 1] + ((value \div 2^(i - 1)) % 2) * 2^(HashBits - i)
    IN  bit[HashBits]

effectiveKey(h) == IF h.Key # 0 THEN h.Key ELSE h.Object
\* What CompareHObject compares, in its order.
Ordered(h) == <<IF h.Max THEN 1 ELSE 0, h.Pool, ReverseBits(h.Hash), h.Namespace, effectiveKey(h), h.Object, h.Snapshot>>
Before(left, right) ==
    LET a == Ordered(left) b == Ordered(right)
    IN  ~(left.Max /\ right.Max)
        /\ \E i \in 1..Len(a): a[i] < b[i] /\ \A j \in 1..i - 1: a[j] = b[j]
Same(left, right) == ~Before(left, right) /\ ~Before(right, left)
NotAfter(left, right) == ~Before(right, left)

(***************************************************************************)
(* SplitCursor                                                             *)
(***************************************************************************)
\* MUTANT of Boundary: the range is taken to begin at 0.
BoundaryFromZero(start, difference, index, partitions) ==
    (difference \div partitions) * index + ((difference % partitions) * index) \div partitions
Boundary(start, difference, index, partitions) ==
    start + (difference \div partitions) * index + ((difference % partitions) * index) \div partitions

SplitCursor(begin, end, partitions) ==
    LET start == ReverseBits(begin.Hash)
        finish == IF IsMax(end) THEN Space ELSE ReverseBits(end.Hash)
    IN  [i \in 0..partitions |->
            IF i = 0 THEN begin
            ELSE IF i = partitions THEN end
            ELSE LET reversed == Boundary(start, finish - start, i, partitions)
                 IN IF reversed >= Space THEN Max ELSE At(ReverseBits(reversed))]

(***************************************************************************)
(* External: the primary of the group a cursor falls into returns the       *)
(* group's objects from the cursor on, and where it stopped: the next       *)
(* object, or the end of the group.                                        *)
(***************************************************************************)
RECURSIVE Ascending(_)
Ascending(S) ==
    IF S = {} THEN <<>>
    ELSE LET first == CHOOSE h \in S: \A g \in S: NotAfter(h, g) IN <<first>> \o Ascending(S \ {first})
\* The group of a hash: ceph_stable_mod.
Mask(count) == CHOOSE m \in {2^b - 1: b \in 0..HashBits}:
    m >= count - 1 /\ \A n \in {2^b - 1: b \in 0..HashBits}: n >= count - 1 => m <= n
PGOf(hash) ==
    IF hash % (Mask(pgCount) + 1) < pgCount THEN hash % (Mask(pgCount) + 1)
    ELSE hash % (Mask(pgCount) \div 2 + 1)
GroupEnd(hash) ==
    LET later == {r \in ReverseBits(hash)..Space - 1: PGOf(ReverseBits(r)) # PGOf(hash)}
    IN  IF later = {} THEN Max ELSE At(ReverseBits(CHOOSE r \in later: \A s \in later: r <= s))
InGroup(cursor) ==
    Ascending({h \in {EntryCursor(o): o \in existing}: PGOf(h.Hash) = PGOf(cursor.Hash) /\ NotAfter(cursor, h)})
Page(cursor, n) ==
    LET all == InGroup(cursor)
    IN  [Entries |-> SubSeq(all, 1, n), Next |-> IF n < Len(all) THEN all[n + 1] ELSE GroupEnd(cursor.Hash)]
\* A primary may return fewer objects than it was asked for, or one more; one that has
\* lost its place starts from the beginning of the group, or stays where it is.
Pages(cursor, count) ==
    {Page(cursor, n): n \in {k \in 0..count + 1: k <= Len(InGroup(cursor)) /\ (k = 0 => InGroup(cursor) = <<>>)}}
    \cup {Page(At(cursor.Hash), n): n \in 0..Len(InGroup(At(cursor.Hash)))}
    \cup {[Entries |-> <<>>, Next |-> cursor]}

(***************************************************************************)
(* The client.                                                             *)
(***************************************************************************)
Idle == [kind |-> "idle"]
MovesOn(start, next) == IsMax(next) \/ Before(start, next)
validateEnumerationPage(start, page) ==
    LET previous(i) == IF i = 1 THEN start ELSE page.Entries[i - 1]
    IN  /\ IsMax(page.Next) \/ ~(IsMin(page.Next) \/ page.Next.Snapshot # NoSnap \/ page.Next.Pool # 1)
        /\ \A i \in 1..Len(page.Entries):
            /\ NotAfter(previous(i), page.Entries[i])
            /\ IsMax(page.Next) \/ Before(page.Entries[i], page.Next)
        /\ MovesOn(start, page.Next)

\* The entries of a page that lie before the end of the range, in number.
WithinRange(entries, next, end) ==
    IF ~Before(end, next) THEN Len(entries)
    ELSE Cardinality({i \in 1..Len(entries): \E j \in i..Len(entries): Before(entries[j], end)})

\* enumeratePages: what one page adds to the result.
Extended(result, page, end, limit) ==
    LET next == IF Before(end, page.Next) THEN end ELSE page.Next
        within == WithinRange(page.Entries, page.Next, end)
        available == limit - Len(result.Entries)
        count == IF within > available THEN available ELSE within
    IN  [Entries |-> result.Entries \o SubSeq(page.Entries, 1, count),
         Next |-> IF within > available THEN page.Entries[available + 1] ELSE next]

Split(n) ==
    /\ boundaries = <<>>
    /\ boundaries' = SplitCursor(Min, Max, n)
    /\ after' = [p \in 1..n |-> boundaries'[p - 1]]
    /\ listed' = [p \in 1..n |-> <<>>]
    /\ UNCHANGED <<existing, pgCount, changes, call>>
\* A partition is split once more, before it was read from.
SplitAgain(p, n) ==
    /\ boundaries # <<>> /\ p \in DOMAIN after /\ call = Idle /\ Len(after) + n - 1 <= Partitions
    /\ \A q \in DOMAIN listed: listed[q] = <<>> /\ Same(after[q], boundaries[q - 1])
    /\ LET inner == SplitCursor(boundaries[p - 1], boundaries[p], n)
           all == [i \in 0..Len(after) + n - 1 |->
                    IF i < p THEN boundaries[i] ELSE IF i < p + n - 1 THEN inner[i - p + 1] ELSE boundaries[i - n + 1]]
       IN /\ boundaries' = all
          /\ after' = [q \in 1..Len(after) + n - 1 |-> all[q - 1]]
          /\ listed' = [q \in 1..Len(after) + n - 1 |-> <<>>]
    /\ UNCHANGED <<existing, pgCount, changes, call>>

\* ListObjectsRange: the arguments are checked, and an empty range is answered at once.
ListObjectsRange(p, limit) ==
    /\ boundaries # <<>> /\ call = Idle /\ p \in DOMAIN after
    /\ Before(after[p], boundaries[p])
    /\ call' = [kind |-> "listing", partition |-> p, limit |-> limit, result |-> [Entries |-> <<>>, Next |-> after[p]]]
    /\ UNCHANGED <<existing, pgCount, changes, boundaries, after, listed>>
Wants ==
    /\ call.kind = "listing"
    /\ Len(call.result.Entries) < call.limit
    /\ Before(call.result.Next, boundaries[call.partition])
\* PGNLS and the checks of its page; a page that fails them fails the call.
Fetch ==
    /\ Wants
    /\ \E page \in Pages(call.result.Next, call.limit - Len(call.result.Entries)):
        call' = IF validateEnumerationPage(call.result.Next, page)
                THEN [call EXCEPT !.result = Extended(@, page, boundaries[call.partition], call.limit)]
                ELSE Idle
    /\ UNCHANGED <<existing, pgCount, changes, boundaries, after, listed>>
\* The page is returned with the cursor to go on from.
Return ==
    /\ call.kind = "listing" /\ ~Wants
    /\ after' = [after EXCEPT ![call.partition] = call.result.Next]
    /\ listed' = [listed EXCEPT ![call.partition] = @ \o call.result.Entries]
    /\ call' = Idle
    /\ UNCHANGED <<existing, pgCount, changes, boundaries>>

\* External: an object is created or removed, the pool's groups are split.
Change ==
    /\ changes < MaxChanges /\ changes' = changes + 1
    /\ \/ \E o \in Objects \ Stable:
            existing' = (IF o \in existing THEN existing \ {o} ELSE existing \cup {o}) /\ UNCHANGED pgCount
       \/ \E n \in PGCounts: n # pgCount /\ pgCount' = n /\ UNCHANGED existing
    /\ UNCHANGED <<boundaries, after, listed, call>>

EnumInit ==
    /\ existing \in {Stable \cup S: S \in SUBSET (Objects \ Stable)}
    /\ pgCount \in PGCounts /\ changes = 0
    /\ boundaries = <<>> /\ after = <<>> /\ listed = <<>> /\ call = Idle
EnumNext ==
    \/ \E n \in 1..Partitions: Split(n) \/ \E p \in 1..Partitions: n > 1 /\ SplitAgain(p, n)
    \/ \E p \in 1..Partitions, limit \in Limits: ListObjectsRange(p, limit)
    \/ Fetch \/ Return \/ Change
EnumSpec == EnumInit /\ [][EnumNext]_enumVars

(***************************************************************************)
(* Properties.                                                             *)
(***************************************************************************)
InRange(h, p) == NotAfter(boundaries[p - 1], h) /\ Before(h, boundaries[p])
Scanned(p) == Same(after[p], boundaries[p])
Listings == {<<p, i>>: p \in DOMAIN listed, i \in 1..Cardinality(Objects) + 2}
ListedAt(at) == at[2] <= Len(listed[at[1]])

\* No object is listed twice, by one partition or by two, however the groups and the
\* objects change between two pages (a primary does not name an object twice in one
\* page, which the client would pass on); and a
\* partition that was scanned to its end has listed every object of its range that
\* existed all the while.
ListedOnce ==
    /\ \A a, b \in {at \in Listings: ListedAt(at)}: a # b => listed[a[1]][a[2]] # listed[b[1]][b[2]]
    /\ \A p \in DOMAIN after: Scanned(p) =>
        \A o \in Stable: InRange(EntryCursor(o), p) => \E i \in 1..Len(listed[p]): listed[p][i] = EntryCursor(o)

\* The partitions are ordered, non-overlapping half-open ranges that make up the
\* whole, also when a partition is split again.
PartitionsTile ==
    boundaries # <<>> =>
        /\ \A p \in DOMAIN after: NotAfter(boundaries[p - 1], boundaries[p])
        /\ Same(boundaries[0], Min) /\ Same(boundaries[Len(after)], Max)
        /\ \A o \in Objects: Cardinality({p \in DOMAIN after: InRange(EntryCursor(o), p)}) = 1

ListingStep ==
    /\ call.kind = "listing" /\ call'.kind = "listing" /\ call' # call =>
           Before(call.result.Next, call'.result.Next)
    /\ \A p \in DOMAIN after: Len(after') = Len(after) => NotAfter(after[p], after'[p])

=============================================================================
