------------------------------ MODULE Formats -------------------------------
(***************************************************************************)
(* What the decoders of internal/maps, internal/crush, internal/mon,       *)
(* internal/mgr, internal/osd, internal/msgr, internal/protocol and         *)
(* internal/cephx read, as layouts of module Wire: one definition per       *)
(* function, with the function's name.  The first argument of Many is the   *)
(* number of cells in the bytes the code multiplies the count by.           *)
(***************************************************************************)
EXTENDS Wire

Newest == 255                      \* a struct_v and a header version are bytes here
Flag == OneOf({0, 1})              \* a canonical flag: another value is refused
Bool == Num                        \* Decoder.Bool: nonzero is true
\* Values from 1000 on stand for those of 10^9 on, which no timestamp has.
Nanoseconds == OneOf(0..999)
NotZero == OneOf(1..999)
UTime == Nums(2)                   \* decodeUTime of maps: the caller checks, or does not
TimeChecked == <<Num, Nanoseconds>>

(***************************************************************************)
(* internal/protocol: addresses.                                           *)
(***************************************************************************)
\* A sockaddr of a known family, or none.  Its data are no longer than the family's.
Sockaddr == Select([length \in 0..1 |-> IF length = 0 THEN <<>> ELSE <<OneOf({0, 2, 10}), Num>>])
decodeEntityAddrAfterMarker ==
    [marker \in 0..1 |->
        IF marker = 0 THEN <<Skip(1), Num, OneOf({0, 2, 10}), Num>>
        ELSE <<Envelope(1, 0, Newest, FALSE, <<Num, Num, Sockaddr>>)>>]
DecodeEntityAddr == Select(decodeEntityAddrAfterMarker)
\* Either one address or a vector, told apart by the first byte.
DecodeEntityAddrVec ==
    Select([marker \in 0..2 |->
        IF marker = 2 THEN <<Many(1, "any", <<DecodeEntityAddr>>)>> ELSE decodeEntityAddrAfterMarker[marker]])

(***************************************************************************)
(* internal/maps: the monitor map.                                         *)
(***************************************************************************)
decodeStrings == Many(1, "any", <<Bytes>>)
decodeUint32s == Many(1, "any", <<Num>>)
decodeMonitorFeatures == Envelope(1, 0, Newest, FALSE, <<Num>>)
decodeMonitor ==
    Envelope(5, 1, Newest, FALSE,
        <<Bytes, DecodeEntityAddrVec, Since(2, <<Num>>), Since(4, <<Num>>),
          Since(5, <<Many(2, "distinct", <<Bytes, Bytes>>)>>)>>)
MonMap ==
    <<Envelope(9, 6, Newest, FALSE,
        <<Num, Num>> \o TimeChecked \o TimeChecked \o
        <<decodeMonitorFeatures, decodeMonitorFeatures,
          Many(1, "distinct", <<Bytes, decodeMonitor, Check("identity")>>),
          decodeStrings, Check("ranks"),
          Since(7, <<Num>>),
          Since(8, <<decodeUint32s, Num, decodeStrings>>),
          Since(9, <<Bool, Bytes, decodeStrings>>)>>)>>

(***************************************************************************)
(* internal/maps: pools and the OSD map.                                   *)
(***************************************************************************)
decodeIntervals == Many(2, "any", <<Num, Num>>)
consumeUint64Set == Many(1, "any", <<Num>>)
decodeStringMap == Many(2, "distinct", <<Bytes, Bytes>>)
decodeNestedStringMap == Many(2, "distinct", <<Bytes, decodeStringMap>>)
skipVersioned == Envelope(1, 0, Newest, FALSE, <<>>)
decodePoolOptions ==
    Envelope(2, 1, Newest, FALSE,
        <<Many(2, "distinct", <<Num, Select([type \in 0..2 |-> IF type = 0 THEN <<Bytes>> ELSE <<Num>>])>>)>>)
decodePoolSnapshots ==
    Many(4, "distinct",
         <<Num, Envelope(2, 2, Newest, FALSE, <<Num>> \o UTime \o <<Bytes>>), Check("identity")>>)
decodePool ==
    Envelope(32, 5, Newest, FALSE,
        Nums(6) \o
        <<Skip(3), Num, Skip(1), decodePoolSnapshots, Check("snapshots"), decodeIntervals, Skip(1), Num, Skip(1),
          Since(7, <<Num>>), Since(8, <<Skip(2)>>), Since(9, <<consumeUint64Set, Skip(4)>>),
          Since(10, <<decodeStringMap>>), Since(11, <<skipVersioned, Skip(2)>>), Since(12, <<Num>>),
          Since(13, <<Skip(6)>>), Since(14, <<Bytes>>), Since(15, <<Skip(1)>>), Since(16, <<Skip(1)>>),
          Since(17, <<Skip(1)>>), Since(19, <<Skip(1)>>), Since(20, <<Skip(1)>>), Since(21, <<Skip(1)>>),
          Since(22, <<Skip(1)>>), Since(23, <<Skip(2)>>), Since(24, <<decodePoolOptions>>), Since(25, <<Skip(1)>>),
          Since(26, <<decodeNestedStringMap>>), Since(27, <<Skip(2)>>), Since(28, <<Skip(7)>>),
          Since(29, <<skipVersioned>>), Only(30, <<Skip(4)>>), Since(31, <<When(<<Skip(4)>>)>>),
          Since(32, <<Num, Num>>)>>)

decodePG == Group(<<OneOf({1}), Num, Num, Num>>)
decodeUint32Vector == Many(1, "any", <<Num>>)
decodeAddressVector == Many(2, "any", <<DecodeEntityAddrVec>>)
decodePGVectorMap == Many(5, "distinct", <<decodePG, Many(1, "any", <<Num>>)>>)
decodePGIntMap == Many(5, "distinct", <<decodePG, Num>>)
decodePGRemapItems == Many(5, "distinct", <<decodePG, Many(2, "any", <<Num, Num>>)>>)
decodePoolIntervalMap == Many(2, "distinct", <<Num, decodeIntervals>>)
decodeOSDMapClient ==
    Envelope(10, 10, Newest, FALSE,
        <<Num, Num>> \o UTime \o UTime \o
        <<Many(4, "distinct", <<Num, decodePool>>), Many(2, "any", <<Num, Bytes>>), Check("names"), Num, Num,
          Total, decodeUint32Vector, decodeUint32Vector, decodeAddressVector, decodePGVectorMap, decodePGIntMap,
          decodeUint32Vector, Check("vectors"), Bytes, decodeNestedStringMap, decodePGVectorMap,
          decodePGRemapItems, Num, decodePoolIntervalMap, decodePoolIntervalMap>> \o
        UTime \o UTime \o <<decodePGIntMap>>)
OSDMap == <<Envelope(8, 8, Newest, FALSE, <<decodeOSDMapClient, Envelope(12, 0, Newest, FALSE, <<>>), Digest>>)>>

decodeIntAddressMap == Many(3, "distinct", <<Num, DecodeEntityAddrVec>>)
decodeIntUintMap == Many(2, "distinct", <<Num, Num>>)
decodePGSet == Many(4, "distinct", <<decodePG>>)
decodeIncrementalClient ==
    Envelope(9, 9, Newest, FALSE,
        <<Num, Num>> \o UTime \o
        <<Num, Num, Bytes, Bytes, OneOf(-1..MaxCount),
          Many(4, "distinct", <<Num, decodePool>>), Many(2, "distinct", <<Num, Bytes>>), Many(1, "distinct", <<Num>>),
          decodeIntAddressMap, decodeIntUintMap, decodeIntUintMap, decodePGVectorMap, decodePGIntMap,
          decodeIntUintMap, decodeNestedStringMap, decodeStrings, decodePGVectorMap, decodePGSet,
          decodePGRemapItems, decodePGSet, decodePoolIntervalMap, decodePoolIntervalMap>> \o
        UTime \o UTime \o <<decodePGIntMap, decodePGSet>>)
OSDMapIncremental ==
    <<Envelope(8, 8, Newest, FALSE, <<decodeIncrementalClient, Envelope(12, 0, Newest, FALSE, <<>>), Digest, Num>>)>>

(***************************************************************************)
(* internal/maps: the manager map.                                         *)
(***************************************************************************)
consumeStringSet == Many(1, "distinct", <<Bytes>>)
consumeModuleOption ==
    Envelope(1, 1, Newest, FALSE,
        <<Bytes>> \o Nums(3) \o <<Bytes, Bytes, Bytes, consumeStringSet, Bytes, Bytes, consumeStringSet, consumeStringSet>>)
consumeModuleOptionMap == Many(4, "distinct", <<Bytes, consumeModuleOption, Check("identity")>>)
\* A module's name is the first field of its envelope, which is its key in the vector.
consumeModuleInfo == Envelope(2, 1, Newest, FALSE, <<Bytes, Flag, Bytes, Since(2, <<consumeModuleOptionMap>>)>>)
consumeModuleInfoVector == Many(3, "named", <<consumeModuleInfo>>)
consumeMgrStandby ==
    Envelope(4, 1, Newest, FALSE,
        <<Num, Bytes, Since(2, <<consumeStringSet>>), Since(3, <<consumeModuleInfoVector>>), Since(4, <<Num>>)>>)
consumeMgrStandbys == Many(4, "distinct", <<Num, consumeMgrStandby, Check("identity")>>)
consumeAlwaysOnModules == Many(2, "distinct", <<Num, consumeStringSet>>)
MgrMap ==
    <<Envelope(14, 6, Newest, FALSE,
        <<Num, DecodeEntityAddrVec, Num, Flag, Bytes, consumeMgrStandbys, consumeStringSet, decodeStringMap,
          consumeModuleInfoVector, Since(7, TimeChecked), Since(8, <<consumeAlwaysOnModules>>), Since(9, <<Num>>),
          Since(10, <<Num>>), Since(11, <<Many(1, "any", <<DecodeEntityAddrVec>>)>>),
          Since(12, <<decodeStrings, Check("lengths")>>), Since(13, <<Num>>), Since(14, <<consumeStringSet>>)>>)>>

(***************************************************************************)
(* internal/crush: the placement map.  A bucket or a rule is absent, or     *)
(* names its own place.  What follows the names is left out by older peers. *)
(***************************************************************************)
consumeNameMap == Many(0, "any", <<Num, Bytes>>)
consumeIntMap == Many(2, "any", <<Num, Num>>)
consumeNestedIntMap == Many(0, "any", <<Num, Many(2, "any", <<Num, Num>>)>>)
CrushBucket ==
    <<Select([algorithm \in {0, 5} |->
        IF algorithm = 0 THEN <<>>
        ELSE <<Num, Num, OneOf({5}), OneOf({0}), Num, Count(2), Repeat(7, <<Num>>), Repeat(7, <<Num>>)>>])>>
CrushRule ==
    <<Select([present \in 0..1 |->
        IF present = 0 THEN <<>> ELSE <<Count(3), Num, Num, Num, Num, Repeat(2, Nums(3))>>])>>
DecodeMap ==
    <<OneOf({1}), Total, Total, OneOf(0..MaxCount), Repeat(2, CrushBucket), Check("buckets"),
      Repeat(3, CrushRule), Check("rules"), consumeNameMap, consumeNameMap, consumeNameMap,
      Trailing(3, <<OneOf(0..999), OneOf(0..999), OneOf(0..998)>>), Trailing(1, <<Num>>), Trailing(1, <<Num>>),
      Trailing(1, <<Num>>), Trailing(1, <<Num>>), Trailing(1, <<Num>>),
      Trailing(1, <<consumeIntMap, consumeNameMap, consumeNestedIntMap, OneOf({0})>>), Trailing(2, Nums(2))>>

(***************************************************************************)
(* internal/mon and internal/mgr: messages.                                *)
(***************************************************************************)
decodePaxosHeader == Nums(3)
StatFSReply == Nums(6)
SubscribeAck == Nums(2)
MonMapMessage == <<Nested(TRUE, MonMap)>>
decodeMapBlobs == Many(2, "distinct", <<Num, Bytes>>)
OSDMapBatch == <<Num, decodeMapBlobs, decodeMapBlobs, Num, Num, Since(4, <<OneOf({0})>>)>>
MonCommandReply == decodePaxosHeader \o <<Num, Bytes, decodeStrings>>
PoolOperationReply == decodePaxosHeader \o <<Num, Num, Num, Optional(<<Bytes>>)>>
AllocatedSnapshotID == <<NotZero>>
\* The forty counters of object_stat_sum_t; those a total is made of are not negative.
ObjectStatSum == Envelope(20, 20, 20, TRUE, <<OneOf(0..999), OneOf(0..999), Skip(38)>>)
decodePoolStats ==
    Envelope(7, 7, 7, TRUE,
        <<Envelope(2, 2, 2, TRUE, <<ObjectStatSum, Many(0, "any", <<Bytes, ObjectStatSum>>)>>),
          Skip(4), Envelope(1, 1, 1, TRUE, <<Skip(3), OneOf(0..999), Skip(4), OneOf(0..999), Skip(1)>>), Skip(1)>>)
GetPoolStatsReply == decodePaxosHeader \o <<Num, Many(0, "distinct", <<Bytes, decodePoolStats>>), Since(2, <<Bool>>)>>
CommandReply == <<Num, Bytes>>

(***************************************************************************)
(* internal/osd: messages and the results of operations.                   *)
(***************************************************************************)
decodeOperation == <<Num, Skip(2), Num>>
decodeRedirect ==
    Envelope(1, 1, 1, TRUE,
        <<Envelope(6, 3, Newest, TRUE, <<Num, Skip(1), Bytes, Bytes, Since(6, <<Skip(1)>>)>>), Bytes, Bytes>>)
OSDOpReply ==
    <<Bytes, decodePG, Num, Num, Skip(2), Num, Count(4), Repeat(6, decodeOperation), Num, Repeat(6, <<Num>>),
      Skip(2), Num, Since(7, <<When(<<decodeRedirect>>)>>), Since(8, <<Skip(3)>>)>>
decodeSPG == Envelope(1, 1, 1, TRUE, <<decodePG, Num>>)
decodeHObject == Envelope(4, 3, 4, TRUE, <<Bytes, Bytes, Num, Num, Bool, Since(4, <<Bytes, Num>>)>>)
DecodeBackoff == <<decodeSPG, Num, OneOf({1, 3}), Num, decodeHObject, decodeHObject>>
WatchNotification ==
    <<NotZero, OneOf({1, 2, 3}), NotZero, Num, Num, Bytes, Since(2, <<Num>>), Since(3, <<Num>>)>>
NotifyResult == <<Many(3, "any", <<Num, Num, Bytes>>), Many(2, "any", <<Num, Num>>), Check("shared")>>
Watchers ==
    <<Envelope(1, 1, 1, TRUE,
        <<Many(4, "any", <<Envelope(2, 1, 2, TRUE,
            <<OneOf({1}), OneOf(0..999), NotZero, Num, Since(2, <<DecodeEntityAddr>>)>>)>>)>>)>>
decodeLockHolder ==
    <<Envelope(1, 1, 1, TRUE, <<OneOf({1}), OneOf(0..999), Bytes>>),
      Envelope(1, 1, 1, TRUE, TimeChecked \o <<DecodeEntityAddr, Bytes>>)>>
LockInfo == <<Envelope(1, 1, 1, TRUE, <<Many(3, "any", decodeLockHolder), OneOf({0, 1, 2}), Bytes, Check("unlocked")>>)>>
\* A shard that is missing carries no attributes.
decodeInconsistentObject ==
    <<Envelope(2, 2, 2, TRUE,
        <<Num, Envelope(1, 1, 1, TRUE, <<Bytes, Bytes, Bytes, Num>>), Skip(1),
          Many(0, "any",
            <<Envelope(1, 1, 1, TRUE, <<Num, Skip(1)>>),
              Envelope(3, 3, 3, TRUE,
                <<Select([missing \in 0..1 |->
                    IF missing = 1 THEN <<Bool>> ELSE <<Bool, Many(0, "any", <<Bytes, Bytes>>), Skip(6)>>])>>)>>),
          Num>>)>>
ScrubList == <<Envelope(1, 1, 1, TRUE, <<Num, Many(0, "any", <<Nested(FALSE, decodeInconsistentObject)>>)>>)>>
decodeMetadataMap == Many(2, "ascending", <<Bytes, Bytes>>)
MetadataMap == <<decodeMetadataMap>>
OMAPPage == <<decodeMetadataMap, Bool>>
PGNLSPage == <<Envelope(1, 1, 1, TRUE, <<decodeHObject, Many(3, "any", <<Bytes, Bytes, Bytes>>)>>)>>

(***************************************************************************)
(* internal/cephx: a sealed payload is a string of a version, a magic       *)
(* number and what was sealed.                                             *)
(***************************************************************************)
Sealed(layout) == Nested(TRUE, <<OneOf({1}), OneOf({1})>> \o layout)
decodeSecretKey == <<OneOf({1, 2})>> \o TimeChecked \o <<Bytes>>
decodeTicketBlob == <<OneOf({1}), Num, Bytes>>
parseServiceTicketReply ==
    <<OneOf({1}),
      Many(0, "distinct",
        <<Num, OneOf({1}), Sealed(<<OneOf({1})>> \o decodeSecretKey \o <<NotZero, Nanoseconds>>),
          Select([encrypted \in 0..1 |->
            IF encrypted = 0 THEN <<Nested(TRUE, decodeTicketBlob)>>
            ELSE <<Sealed(<<Nested(TRUE, decodeTicketBlob)>>)>>])>>)>>
ServerChallenge == <<OneOf({1}), Num>>
AuthorizerReply == <<Sealed(<<Select([version \in 1..3 |-> IF version = 1 THEN <<Num>> ELSE <<Num, Bytes>>])>>)>>
AuthorizerChallenge == <<OneOf({1}), OneOf({1}), OneOf({1}), Num>>

(***************************************************************************)
(* internal/msgr: control frames.  The encoder and the decoder are two      *)
(* functions of the code, written down separately.                         *)
(***************************************************************************)
EncodeAddr == Select([marker \in {1} |-> decodeEntityAddrAfterMarker[1]])
EncodeAddrs == Select([marker \in {2} |-> <<Many(1, "any", <<EncodeAddr>>)>>])
encodeTimestamp == Nums(2)
encodeUint32Slice == Many(1, "any", <<Num>>)
EncodeControl ==
    [hello |-> <<Num, EncodeAddr>>,
     client_ident |-> <<EncodeAddrs, EncodeAddr>> \o Nums(6),
     server_ident |-> <<EncodeAddrs>> \o Nums(6),
     missing_features |-> Nums(1),
     reconnect |-> <<EncodeAddrs>> \o Nums(5),
     reset |-> <<Flag>>, retry |-> Nums(1), retry_global |-> Nums(1), reconnect_ok |-> Nums(1), wait |-> <<>>,
     keepalive |-> encodeTimestamp, keepalive_ack |-> encodeTimestamp, ack |-> Nums(1),
     auth_request |-> <<Num, encodeUint32Slice, Bytes>>,
     auth_bad_method |-> <<Num, Num, encodeUint32Slice, encodeUint32Slice>>,
     auth_reply_more |-> <<Bytes>>, auth_request_more |-> <<Bytes>>,
     auth_done |-> <<Num, Num, Bytes>>, auth_signature |-> <<Num>>]
decodeKeepalive == TimeChecked
decodeUint32Slice == Many(1, "any", <<Num>>)
decodeAuthBytes == Bytes
DecodeControl ==
    [hello |-> <<Num, DecodeEntityAddr>>,
     client_ident |-> <<DecodeEntityAddrVec, DecodeEntityAddr>> \o Nums(6),
     server_ident |-> <<DecodeEntityAddrVec>> \o Nums(6),
     missing_features |-> Nums(1),
     reconnect |-> <<DecodeEntityAddrVec>> \o Nums(5),
     reset |-> <<OneOf({0, 1})>>, retry |-> Nums(1), retry_global |-> Nums(1), reconnect_ok |-> Nums(1), wait |-> <<>>,
     keepalive |-> decodeKeepalive, keepalive_ack |-> decodeKeepalive, ack |-> Nums(1),
     auth_request |-> <<Num, decodeUint32Slice, decodeAuthBytes>>,
     auth_bad_method |-> <<Num, Num, decodeUint32Slice, decodeUint32Slice>>,
     auth_reply_more |-> <<decodeAuthBytes>>, auth_request_more |-> <<decodeAuthBytes>>,
     auth_done |-> <<Num, Num, decodeAuthBytes>>, auth_signature |-> <<Num>>]
MessageHeader == Nums(11)
=============================================================================
