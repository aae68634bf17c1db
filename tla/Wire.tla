-------------------------------- MODULE Wire --------------------------------
(***************************************************************************)
(* The bounded wire decoder of internal/encoding/codec.go, and the layouts *)
(* it is driven by.                                                        *)
(*                                                                         *)
(* A wire value is a sequence of cells.  A fixed-width integer, a flag or a *)
(* fixed block is one cell; a string is a length cell and its cells; a list *)
(* is a count cell and its elements; an envelope is the cells struct_v,     *)
(* struct_compat and length, and its payload.  What a decoder of the code   *)
(* reads, in the order it reads it, is a layout: a sequence of items.       *)
(* Decoding a layout gives a tree with one entry per item that was present. *)
(***************************************************************************)
EXTENDS Integers, Sequences, FiniteSets

CONSTANTS
    MaxBytes,       \* wire.Limits.MaxBytes: the longest string, and the longest envelope
    MaxCount        \* the limit of every list (MaxPools, MaxOSDs, MaxMonitors, ...)

(***************************************************************************)
(* Items of a layout.                                                      *)
(***************************************************************************)
\* A fixed-width integer, or a fixed block, whose value the decoder accepts as it is.
Num == [kind |-> "num"]
\* n integers; n integers none of which is retained.
Nums(n) == [i \in 1..n |-> Num]
Skip(n) == [kind |-> "skip", n |-> n]
\* An integer or a flag that must be one of the values.
OneOf(values) == [kind |-> "oneof", values |-> values]
\* A length and that many bytes.
Bytes == [kind |-> "bytes"]
\* A count and that many elements.  An element takes at least `least' cells; the
\* first entries of the elements are "any", "distinct" or "ascending", or their own
\* first entries are distinct: "named".
Many(least, keys, layout) == [kind |-> "many", least |-> least, keys |-> keys, layout |-> layout]
\* A count on its own, and elements whose number is the at-th entry read before.
Count(least) == [kind |-> "count", least |-> least]
Repeat(at, layout) == [kind |-> "repeat", at |-> at, layout |-> layout]
\* Fields that make one entry of the tree.
Group(layout) == [kind |-> "group", layout |-> layout]
\* A string whose bytes are decoded on their own; `exact' when bytes left over in
\* it are refused.
Nested(exact, layout) == [kind |-> "nested", exact |-> exact, layout |-> layout]
\* An envelope this code knows in version `local', read when struct_v lies in
\* first..last; `exact' when bytes left over in it are refused.
Envelope(local, first, last, exact, layout) ==
    [kind |-> "envelope", local |-> local, first |-> first, last |-> last, exact |-> exact, layout |-> layout]
\* Fields present from a version of the enclosing envelope or message on.
Since(version, layout) == [kind |-> "since", version |-> version, layout |-> layout]
\* Fields present in one version only.
Only(version, layout) == [kind |-> "only", version |-> version, layout |-> layout]
\* A flag, and fields that follow when it is set.
Optional(layout) == [kind |-> "optional", layout |-> layout]
\* The same, where every flag but zero is a set one.
When(layout) == [kind |-> "when", layout |-> layout]
\* A selector, and the fields it selects; another selector is refused.
Select(layouts) == [kind |-> "select", layouts |-> layouts]
\* Fields an older peer leaves out at the end: read when n cells are left.
Trailing(n, layout) == [kind |-> "tail", n |-> n, layout |-> layout]
\* The cell that holds the digest of every other cell of the input.
Digest == [kind |-> "digest"]
\* A size the input declares once, within the limit: the number of elements of the
\* lists that follow it.
Total == [kind |-> "total"]
\* A relation of the fields read so far that the code checks.
Check(name) == [kind |-> "check", name |-> name]

(***************************************************************************)
(* Relations of decoded fields.  t is the tree of the layout read so far.  *)
(***************************************************************************)
Firsts(elements) == [i \in 1..Len(elements) |-> elements[i][1]]
Distinct(s) == \A i, j \in 1..Len(s): i # j => s[i] # s[j]
Elements(s) == {s[i]: i \in 1..Len(s)}

\* The keys of the elements of a list, as its decoder compares them.  Strings are
\* one cell here, so that a comparison is one of numbers.
Key(k) == IF k = <<>> THEN 0 ELSE k[1]
KeysAre(keys, elements) ==
    LET k == Firsts(elements) IN
    CASE keys = "any" -> TRUE
      [] keys = "distinct" -> Distinct(k)
      [] keys = "named" -> Distinct(Firsts(k))
      [] keys = "ascending" -> \A i \in 1..Len(k) - 1: Key(k[i]) < Key(k[i + 1])

\* DecodeMonMap: every rank names a monitor of the map, once.
RanksName(monitors, ranks) ==
    /\ Len(ranks) = Len(monitors)
    /\ Distinct(Firsts(ranks))
    /\ Elements(Firsts(ranks)) \subseteq Elements(Firsts(monitors))

\* decodeOSDMapClient: every pool has a name, and no two have the same.
NamesName(pools, names) ==
    /\ \A i \in 1..Len(names): names[i][1] \in Elements(Firsts(pools))
    /\ \A i, j \in 1..Len(names): i # j => names[i][2] # names[j][2]
    /\ Len(names) = Len(pools)

Holds(name, t) ==
    CASE name = "ranks" -> RanksName(t[Len(t) - 1], t[Len(t)])
      [] name = "names" -> NamesName(t[Len(t) - 1], t[Len(t)])
      [] name = "identity" -> t[Len(t)][1] = t[Len(t) - 1]            \* a map's key is its value's own name
      [] name = "lengths" -> Len(t[Len(t)]) = Len(t[Len(t) - 1])      \* two vectors of one length
      [] name = "vectors" -> /\ \A i \in 1..3: Len(t[Len(t) - 6 + i]) = t[Len(t) - 6]
                             /\ Len(t[Len(t)]) \in {0, t[Len(t) - 6]}
      [] name = "snapshots" -> Distinct([i \in 1..Len(t[Len(t)]) |-> t[Len(t)][i][2][4]])
      [] name = "buckets" -> \A i \in 1..Len(t[Len(t)]): t[Len(t)][i][1] # 0 => t[Len(t)][i][2] = i
      [] name = "rules" -> \A i \in 1..Len(t[Len(t)]): t[Len(t)][i][1] # 0 => t[Len(t)][i][3] = i
      [] name = "shared" -> Len(t[Len(t)]) + Len(t[Len(t) - 1]) <= MaxCount
      [] name = "unlocked" -> t[Len(t) - 1] = 0 => t[Len(t) - 2] = <<>>

(***************************************************************************)
(* The decoder: its input, what it has consumed, its sticky error, and the *)
(* values it has returned.                                                 *)
(***************************************************************************)
NewDecoder(input) == [in |-> input, at |-> 0, ok |-> TRUE, out |-> <<>>, reserved |-> 0]
Remaining(d) == Len(d.in) - d.at
Failed(d) == [d EXCEPT !.ok = FALSE]
Returned(d, value) == [d EXCEPT !.out = Append(@, value)]

\* take: the next n cells, unless the input is shorter.
take(d, n) ==
    IF ~d.ok \/ n > Remaining(d) THEN Failed(d) ELSE [d EXCEPT !.at = @ + n]
\* The n cells that were taken last.
Taken(d, n) == SubSeq(d.in, d.at - n + 1, d.at)

\* boundedCount: a count is within the limit, and the input can hold the elements.
Fits(d, count, least) == count <= MaxCount /\ count * least <= Remaining(d)

\* What is allocated for the elements before they are read, where the input was
\* consulted.
Reserved(d, count, least) == IF least = 0 THEN d ELSE [d EXCEPT !.reserved = @ + count]

\* Bytes: the length is within the limit before anything is read or copied.
ReadBytes(d) ==
    LET length == take(d, 1)
        n == Taken(length, 1)[1]
        value == take(length, n)
    IN  IF ~length.ok \/ n > MaxBytes THEN Failed(d)
        ELSE IF ~value.ok THEN value ELSE Returned(value, Taken(value, n))

\* External: the digest of the cells, for which any change of one cell shows.
RECURSIVE Sum(_)
Sum(cells) ==
    LET half == Len(cells) \div 2
    IN  IF half = 0 THEN (IF cells = <<>> THEN 7 ELSE cells[1])
        ELSE Sum(SubSeq(cells, 1, half)) + Sum(SubSeq(cells, half + 1, Len(cells)))
\* The digest covers what lies before and after the digest cell of the whole input.
DigestOf(whole, position) == Sum(SubSeq(whole, 1, position) \o SubSeq(whole, position + 2, Len(whole)))

\* MUTANT of Present: the version that adds a field is taken for one without it.
PresentAfter(item, version) == version > item.version
\* Version-dependent fields are read from the version that added them.
Present(item, version) == version >= item.version

\* Versioned: the decoder of the payload sees the payload and nothing else.
Payload(d, size) == SubSeq(d.in, d.at + 1, d.at + size)

RECURSIVE Read(_, _, _, _), ReadItem(_, _, _, _), ReadElements(_, _, _, _, _)

\* Reads a layout, its first half and then its second: the recursion stays shallow.
\* `version' is the version of what encloses it and `base' the
\* place of the decoder's input in the whole input with its cells, for digests.
Read(d, layout, version, whole) ==
    LET half == Len(layout) \div 2
    IN  IF ~d.ok \/ layout = <<>> THEN d
        ELSE IF half = 0 THEN ReadItem(d, layout[1], version, whole)
        ELSE Read(Read(d, SubSeq(layout, 1, half), version, whole),
                  SubSeq(layout, half + 1, Len(layout)), version, whole)

\* Reads count elements, whose trees make one tree.
ReadElements(d, count, item, version, whole) ==
    LET after[i \in 0..count] ==
            IF i = 0 THEN [d EXCEPT !.out = <<>>]
            ELSE LET before == after[i - 1]
                     element == Read([before EXCEPT !.out = <<>>], item.layout, version, whole)
                 IN IF before.ok THEN [element EXCEPT !.out = Append(before.out, @)] ELSE before
    IN  after[count]

\* Versioned: this code knows the version a peer demands.
Understood(item, compat) == compat <= item.local

\* Versioned(local), and the checks its callers make of what it returns.
ReadEnvelope(d, item, whole) ==
    LET header == take(d, 3)
        h == Taken(header, 3)
        child == Read([NewDecoder(Payload(header, h[3])) EXCEPT !.reserved = d.reserved], item.layout, h[1],
                      [whole EXCEPT !.base = @ + header.at])
    IN  IF ~header.ok \/ ~Understood(item, h[2]) \/ h[3] > MaxBytes \/ h[3] > Remaining(header)
        THEN Failed(d)
        ELSE IF h[1] \notin item.first..item.last \/ ~child.ok \/ (item.exact /\ Remaining(child) # 0)
             THEN Failed([d EXCEPT !.reserved = child.reserved])
             ELSE [Returned(take(header, h[3]), child.out) EXCEPT !.reserved = child.reserved]

ReadNested(d, item) ==
    LET bytes == ReadBytes(d)
        payload == bytes.out[Len(bytes.out)]
        child == Read([NewDecoder(payload) EXCEPT !.reserved = d.reserved], item.layout, 0, [cells |-> payload, base |-> 0])
    IN  IF ~bytes.ok THEN bytes
        ELSE IF ~child.ok \/ (item.exact /\ Remaining(child) # 0)
             THEN Failed([d EXCEPT !.reserved = child.reserved])
             ELSE [bytes EXCEPT !.out = Append(d.out, child.out), !.reserved = child.reserved]

ReadMany(d, item, version, whole) ==
    LET counted == take(d, 1)
        count == Taken(counted, 1)[1]
        read == ReadElements(Reserved(counted, count, item.least), count, item, version, whole)
    IN  IF ~counted.ok THEN counted
        ELSE IF ~Fits(counted, count, item.least) THEN Failed(d)
        ELSE IF ~read.ok \/ ~KeysAre(item.keys, read.out) THEN Failed(read)
        ELSE [read EXCEPT !.out = Append(d.out, read.out)]

ReadItem(d, item, version, whole) ==
    LET one == take(d, 1)
        value == Taken(one, 1)[1]
    IN  CASE item.kind = "num" -> IF one.ok THEN Returned(one, value) ELSE one
          [] item.kind = "total" -> IF one.ok /\ value <= MaxCount THEN Returned(one, value) ELSE Failed(d)
          [] item.kind = "skip" -> take(d, item.n)
          [] item.kind = "oneof" -> IF one.ok /\ value \in item.values THEN Returned(one, value) ELSE Failed(d)
          [] item.kind = "bytes" -> ReadBytes(d)
          [] item.kind = "many" -> ReadMany(d, item, version, whole)
          [] item.kind = "count" ->
                IF one.ok /\ Fits(one, value, item.least) THEN Returned(Reserved(one, value, item.least), value) ELSE Failed(d)
          [] item.kind = "repeat" ->
                LET read == ReadElements(d, d.out[item.at], item, version, whole)
                IN [read EXCEPT !.out = Append(d.out, read.out)]
          [] item.kind = "group" ->
                LET read == Read([d EXCEPT !.out = <<>>], item.layout, version, whole)
                IN [read EXCEPT !.out = Append(d.out, read.out)]
          [] item.kind = "nested" -> ReadNested(d, item)
          [] item.kind = "tail" -> IF Remaining(d) >= item.n THEN Read(d, item.layout, version, whole) ELSE d
          [] item.kind = "envelope" -> ReadEnvelope(d, item, whole)
          [] item.kind = "since" -> IF Present(item, version) THEN Read(d, item.layout, version, whole) ELSE d
          [] item.kind = "only" -> IF version = item.version THEN Read(d, item.layout, version, whole) ELSE d
          [] item.kind = "optional" ->
                IF one.ok /\ value = 1 THEN Read(Returned(one, 1), item.layout, version, whole)
                ELSE IF one.ok /\ value = 0 THEN Returned(one, 0) ELSE Failed(d)
          [] item.kind = "when" ->
                IF one.ok THEN Read(Returned(one, value), IF value # 0 THEN item.layout ELSE <<>>, version, whole) ELSE one
          [] item.kind = "select" ->
                IF one.ok /\ value \in DOMAIN item.layouts
                THEN Read(Returned(one, value), item.layouts[value], version, whole) ELSE Failed(d)
          [] item.kind = "digest" ->
                IF one.ok /\ value = DigestOf(whole.cells, whole.base + d.at) THEN one ELSE Failed(d)
          [] item.kind = "check" -> IF Holds(item.name, d.out) THEN d ELSE Failed(d)

\* A decoder of the code: it reads its layout and refuses what is left over
\* (finishExact), unless it does not look.
Decode(layout, version, lenient, cells) ==
    LET d == Read(NewDecoder(cells), layout, version, [cells |-> cells, base |-> 0])
    IN  [d EXCEPT !.ok = @ /\ (lenient \/ Remaining(d) = 0)]
=============================================================================
