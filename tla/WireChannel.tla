---------------------------- MODULE WireChannel -----------------------------
(***************************************************************************)
(* A peer encodes a value, the bytes may be damaged on the way, and the     *)
(* client decodes what arrives.                                            *)
(*                                                                         *)
(* The peer is Ceph, and external: it writes a layout of module Formats in  *)
(* the versions it knows, which are older or newer than the client's.  Its  *)
(* values are chosen so that no two fields of a list element can be         *)
(* confused: every field of the i-th element of a list is i.               *)
(***************************************************************************)
EXTENDS Formats

CONSTANTS
    MaxAge,         \* how many versions older than this code a peer can be
    DamagePoints    \* the number of places at which a long input is damaged

VARIABLES
    sent,           \* what the peer wrote: the format, the choices and the tree
    bytes,          \* the cells on the wire
    damage,         \* what happened to them: "none", "truncated", "extended", "corrupted", "inflated"
    received        \* the decoder after the whole input, or <<>> before that

wireVars == <<sent, bytes, damage, received>>

(***************************************************************************)
(* The formats.  `known' is the message version this code knows, `versions' *)
(* those it accepts and `compat' the newest compat version it accepts; a    *)
(* map or an operation result has no message version of its own.            *)
(***************************************************************************)
Body(layout) ==
    [layout |-> layout, sends |-> layout, known |-> 0, versions |-> {0}, compat |-> Newest, lenient |-> FALSE]
Message(layout, known, versions, compat) ==
    [Body(layout) EXCEPT !.known = known, !.versions = versions, !.compat = compat]
\* What follows the outermost envelope is not looked at.
OpenEnded(layout) == [Body(layout) EXCEPT !.lenient = TRUE]
Control(tag) == [Body(DecodeControl[tag]) EXCEPT !.sends = EncodeControl[tag]]

MapFormats ==
    [monmap |-> Body(MonMap), osdmap |-> Body(OSDMap), incremental |-> Body(OSDMapIncremental),
     mgrmap |-> Body(MgrMap), crush |-> Body(DecodeMap)]
MonFormats ==
    [statfs |-> Message(StatFSReply, 1, 1..Newest, 1),
     subscribe_ack |-> Message(SubscribeAck, 1, 0..Newest, Newest),
     mon_monmap |-> Message(MonMapMessage, 1, 0..Newest, Newest),
     osdmap_batch |-> Message(OSDMapBatch, 4, 3..Newest, 4),
     mon_command |-> Message(MonCommandReply, 1, 0..Newest, Newest),
     pool_operation |-> Message(PoolOperationReply, 1, 0..Newest, 1),
     snapshot_id |-> Body(AllocatedSnapshotID),
     pool_stats |-> Message(GetPoolStatsReply, 2, 1..2, 1),
     mgr_command |-> Message(CommandReply, 1, {1}, 1),
     osd_command |-> Message(CommandReply, 1, 1..Newest, 1)]
OSDFormats ==
    [op_reply |-> Message(OSDOpReply, 8, (4..Newest) \ {6}, 8),
     backoff |-> Message(DecodeBackoff, 1, {1}, 1),
     watch_notification |-> Message(WatchNotification, 3, 1..3, 1),
     notify_result |-> Body(NotifyResult), watchers |-> OpenEnded(Watchers), locks |-> OpenEnded(LockInfo),
     scrub |-> Body(ScrubList), metadata |-> Body(MetadataMap), omap_page |-> Body(OMAPPage),
     pgnls |-> OpenEnded(PGNLSPage)]
AuthFormats ==
    [challenge |-> Body(ServerChallenge), tickets |-> Body(parseServiceTicketReply),
     authorizer_reply |-> Body(AuthorizerReply), authorizer_challenge |-> Body(AuthorizerChallenge),
     header |-> Body(MessageHeader)]
ControlFormats == [tag \in DOMAIN DecodeControl |-> Control(tag)]

Families == <<MapFormats, MonFormats, OSDFormats, AuthFormats, ControlFormats>>
FormatNames == UNION {{<<f, name>>: name \in DOMAIN Families[f]}: f \in 1..Len(Families)}
Format(name) == Families[name[1]][name[2]]

(***************************************************************************)
(* The peer's encoder.  The choices c are: how many versions older than     *)
(* this code it is (age, -1 for a newer one), the length of its lists (n),  *)
(* which alternatives it takes (pick), and whether it demands a version     *)
(* this code does not have (incompatible).                                  *)
(***************************************************************************)
Nth(S, k) == CHOOSE x \in S: Cardinality({y \in S: y < x}) = k
Larger(a, b) == IF a > b THEN a ELSE b
Marker == -9                        \* where the digest goes
Wrote(cells, tree) == [cells |-> cells, tree |-> tree]
Joined(a, b) == Wrote(a.cells \o b.cells, a.tree \o b.tree)
RECURSIVE JoinAll(_)
JoinAll(parts) ==
    LET half == Len(parts) \div 2
    IN  IF parts = <<>> THEN Wrote(<<>>, <<>>)
        ELSE IF half = 0 THEN parts[1]
        ELSE Joined(JoinAll(SubSeq(parts, 1, half)), JoinAll(SubSeq(parts, half + 1, Len(parts))))

RECURSIVE Write(_, _, _, _), WriteItem(_, _, _, _)
Write(layout, version, c, i) == JoinAll([k \in 1..Len(layout) |-> WriteItem(layout[k], version, c, i)])

WriteElements(layout, version, c) ==
    JoinAll([k \in 1..c.n |-> LET e == Write(layout, version, c, k) IN Wrote(e.cells, <<e.tree>>)])

WriteEnvelope(item, c, i) ==
    LET newer == c.age = -1 /\ ~item.exact /\ item.last > item.local
        v == IF newer THEN item.local + 1 ELSE Larger(item.first, item.local - Larger(c.age, 0))
        body == Write(item.layout, v, c, i)
        payload == body.cells \o (IF newer THEN <<7, 7>> ELSE <<>>)
    IN  Wrote(<<v, IF c.incompatible THEN item.local + 1 ELSE 0, Len(payload)>> \o payload, <<body.tree>>)

WriteItem(item, version, c, i) ==
    CASE item.kind = "num" -> Wrote(<<i>>, <<i>>)
      [] item.kind = "skip" -> Wrote([k \in 1..item.n |-> i], <<>>)
      [] item.kind = "oneof" -> LET v == IF i \in item.values THEN i ELSE Nth(item.values, 0) IN Wrote(<<v>>, <<v>>)
      [] item.kind = "bytes" -> Wrote(<<1, i>>, <<<<i>>>>)
      [] item.kind = "many" ->
            LET e == WriteElements(item.layout, version, c) IN Wrote(<<c.n>> \o e.cells, <<e.tree>>)
      [] item.kind \in {"count", "total"} -> Wrote(<<c.n>>, <<c.n>>)
      [] item.kind = "repeat" ->
            LET e == WriteElements(item.layout, version, c) IN Wrote(e.cells, <<e.tree>>)
      [] item.kind = "group" -> LET g == Write(item.layout, version, c, i) IN Wrote(g.cells, <<g.tree>>)
      [] item.kind = "nested" ->
            LET body == Write(item.layout, 0, c, i) IN Wrote(<<Len(body.cells)>> \o body.cells, <<body.tree>>)
      [] item.kind = "tail" -> IF c.age > 0 THEN Wrote(<<>>, <<>>) ELSE Write(item.layout, version, c, i)
      [] item.kind = "envelope" -> WriteEnvelope(item, c, i)
      [] item.kind = "since" -> IF version >= item.version THEN Write(item.layout, version, c, i) ELSE Wrote(<<>>, <<>>)
      [] item.kind = "only" -> IF version = item.version THEN Write(item.layout, version, c, i) ELSE Wrote(<<>>, <<>>)
      [] item.kind \in {"optional", "when"} ->
            LET set == (c.pick + i) % 2
            IN Joined(Wrote(<<set>>, <<set>>), IF set = 1 THEN Write(item.layout, version, c, i) ELSE Wrote(<<>>, <<>>))
      [] item.kind = "select" ->
            LET s == Nth(DOMAIN item.layouts, (c.pick + i) % Cardinality(DOMAIN item.layouts))
            IN Joined(Wrote(<<s>>, <<s>>), Write(item.layouts[s], version, c, i))
      [] item.kind = "digest" -> Wrote(<<Marker>>, <<>>)
      [] item.kind = "check" -> Wrote(<<>>, <<>>)

\* The digest is computed last, over everything else.
WithDigest(cells) ==
    LET at == {k \in 1..Len(cells): cells[k] = Marker}
    IN  IF at = {} THEN cells
        ELSE LET k == CHOOSE k \in at: TRUE IN [cells EXCEPT ![k] = DigestOf(cells, k - 1)]

\* The message header's version and compat version.
HeaderVersion(format, c) ==
    IF format.known = 0 THEN 0
    ELSE LET older == {v \in format.versions: v <= format.known - Larger(c.age, 0)}
         IN  IF older = {} THEN CHOOSE v \in format.versions: \A w \in format.versions: v <= w
             ELSE CHOOSE v \in older: \A w \in older: w <= v
Encoded(name, c) ==
    LET format == Format(name)
        w == Write(format.sends, HeaderVersion(format, c), c, 1)
    IN  Wrote(WithDigest(w.cells), w.tree)

(***************************************************************************)
(* The client's decoder: the header's versions first, then the front.       *)
(***************************************************************************)
AcceptsHeader(format, version, incompatible) ==
    /\ version \in format.versions
    /\ ~(incompatible /\ format.compat # Newest)
DecodeMessage(name, c, cells) ==
    LET format == Format(name)
        version == HeaderVersion(format, c)
        d == Decode(format.layout, version, format.lenient, cells)
    IN  [d EXCEPT !.ok = @ /\ AcceptsHeader(format, version, c.incompatible)]

\* What is tried: lists of every interesting length and every alternative from a
\* peer of this code's version; newer, older and incompatible peers; and lists one
\* longer than the limit.
Choice(age, n, pick, incompatible) == [age |-> age, n |-> n, pick |-> pick, incompatible |-> incompatible]
SentChoices ==
    {Choice(0, n, pick, FALSE): n \in 0..2, pick \in 0..2}
    \cup {Choice(age, 1, 0, FALSE): age \in {-1} \cup 1..MaxAge}
    \cup {Choice(0, MaxCount + 1, 0, FALSE), Choice(0, 1, 0, TRUE)}

WireInit ==
    \E name \in FormatNames, c \in SentChoices:
        LET e == Encoded(name, c) IN
        /\ sent = [name |-> name, choices |-> c, tree |-> e.tree]
        /\ bytes = e.cells
        /\ damage = "none"
        /\ received = <<>>

\* Long inputs are damaged at DamagePoints of them, or a few more, evenly spread.
Damageable == {k \in 1..Len(bytes): k % (1 + Len(bytes) \div DamagePoints) = 0}
Damaged(kind, cells) ==
    /\ damage = "none" /\ received = <<>>
    /\ sent.choices.age = 0 /\ sent.choices.n \in 1..2 /\ ~sent.choices.incompatible
    /\ damage' = kind /\ bytes' = cells
    /\ UNCHANGED <<sent, received>>
\* The input ends early.
Truncate == \E k \in Damageable: Damaged("truncated", SubSeq(bytes, 1, k - 1))
\* Something follows the input.
Extend == Damaged("extended", Append(bytes, 3))
\* A value has changed.
Corrupt == \E k \in Damageable: Damaged("corrupted", [bytes EXCEPT ![k] = @ + 1])
\* A count or a length announces as much as the limits allow.
Inflate == \E k \in Damageable: Damaged("inflated", [bytes EXCEPT ![k] = MaxCount])
Receive ==
    /\ received = <<>>
    /\ received' = DecodeMessage(sent.name, sent.choices, bytes)
    /\ UNCHANGED <<sent, bytes, damage>>
WireNext == Truncate \/ Extend \/ Corrupt \/ Inflate \/ Receive
WireSpec == WireInit /\ [][WireNext]_wireVars

\* The peer sent a list longer than the limit.
Overlong == sent.choices.n > MaxCount /\ bytes # Encoded(sent.name, [sent.choices EXCEPT !.n = 0]).cells
\* The peer demanded a version this code does not have.
Incompatible ==
    /\ sent.choices.incompatible
    /\ \/ bytes # Encoded(sent.name, [sent.choices EXCEPT !.incompatible = FALSE]).cells
       \/ Format(sent.name).compat # Newest
\* What a peer of any supported version wrote is read as it was written: every
\* decoder consumes the fields of the version it was given, and what a newer peer
\* added inside an envelope displaces nothing that follows it.
DecodedIsSent ==
    received # <<>> /\ damage = "none" /\ ~Overlong /\ ~Incompatible => received.ok /\ received.out = sent.tree

\* The tunables at the end of a CRUSH map may be left out.
LeavesOut == sent.name[2] = "crush"
\* The formats that carry a digest of themselves.
Digested == sent.name[2] \in {"osdmap", "incremental"}
\* An input that was cut short, one with bytes left over, an OSD map whose digest does
\* not match, a list longer than its limit and a version this code does not have are
\* refused by every decoder, wherever in the input they occur.
RefusesDamaged ==
    received # <<>> /\ received.ok =>
        /\ damage = "truncated" => LeavesOut
        /\ damage = "extended" => Format(sent.name).lenient
        /\ damage = "corrupted" => ~Digested
        /\ damage = "none" => ~Overlong /\ ~Incompatible

\* A decoder reserves no more elements than there are cells in its input, whatever the
\* counts in it announce (boundedCount, and the checks made in its place).
AllocationBounded == received # <<>> => received.reserved <= Len(bytes)
=============================================================================
