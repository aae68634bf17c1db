------------------------------- MODULE Frames -------------------------------
(***************************************************************************)
(* Messages, frames and records on one direction of a connection            *)
(* (internal/msgr: message.go, frame.go, secure.go, transport.go).          *)
(*                                                                         *)
(* What travels is a sequence of cells.  A cell is a tuple of numbers: <<b>> *)
(* is a byte, and a checksum or an authentication tag is the one cell that  *)
(* holds what it covers, so that it fits nothing else.  Sizes count cells.  *)
(* What the reader reserves from the receive budget is in ReceiveBudget.    *)
(***************************************************************************)
EXTENDS Integers, Sequences

CONSTANTS
    Block, Inline,      \* secureBlockSize, secureInlineSize
    LeasedPrefix,       \* LeasedPayloadPrefix
    MaxSegmentBytes, MaxFrameBytes,
    Payloads,           \* the payloads of messages, [Front, Middle, Data], sequences of 0..2
    Controls,           \* payloads of control frames
    Starts,             \* where the counter of the secret's seed can start
    MaxCounter,         \* the greatest counter (2^64 - 1)
    MaxFrames           \* how many frames are written

VARIABLES
    mode,       \* "crc" or "secure"
    tx, rx,     \* the secure direction of the writer and of the reader: [fixed, counter, exhausted]
    prefix,     \* the cells in front of the leased payload, whatever was left there
    wire,       \* what was written and not yet read
    cut,        \* the connection is broken: nothing more arrives
    harmed,     \* a cell was changed on its way
    sent,       \* what was handed to WriteFrame and encoded
    refused,    \* how many frames were refused
    received,   \* what the reader returned
    failed,     \* the reader's error, "" before
    nonces      \* the nonces of the records that were sealed

frameVars == <<mode, tx, rx, prefix, wire, cut, harmed, sent, refused, received, failed, nonces>>

Bytes(s) == [i \in 1..Len(s) |-> <<s[i]>>]
AtMost(m, n) == IF n > m THEN m ELSE n
Zeros(n) == [i \in 1..n |-> <<0>>]
Values(cells) == [i \in 1..Len(cells) |-> cells[i][1]]
Flat(cells) == LET flat[i \in 0..Len(cells)] == IF i = 0 THEN <<>> ELSE flat[i - 1] \o cells[i] IN flat[Len(cells)]
allZero(cells) == \A i \in 1..Len(cells): cells[i] = <<0>>
Total(s) == LET total[i \in 0..Len(s)] == IF i = 0 THEN 0 ELSE total[i - 1] + s[i] IN total[Len(s)]
Joined(s) == LET joined[i \in 0..Len(s)] == IF i = 0 THEN <<>> ELSE joined[i - 1] \o s[i] IN joined[Len(s)]

(***************************************************************************)
(* Frames and preambles.                                                   *)
(***************************************************************************)
TagMessage == 17
TagAck == 20
MaxSegments == 4
LateStatusComplete == <<14>>
LateStatusAborted == <<1>>
messageAlignments == <<8, 8, 8, 4096>>
validTag(tag) == tag \in 1..TagAck
validAlignment(alignment) == alignment \in {2^i: i \in 0..15}

\* A frame: [Tag, Segments], and its segments [Alignment, Data].
normalizeSegments(segments) ==
    LET end == CHOOSE e \in 1..Len(segments):
            /\ e = 1 \/ segments[e].Data # <<>>
            /\ \A i \in e + 1..Len(segments): segments[i].Data = <<>>
    IN  SubSeq(segments, 1, end)
Descriptors(segments) == [i \in 1..Len(segments) |-> [length |-> Len(segments[i].Data), alignment |-> segments[i].Alignment]]

crc32(cells) == Flat(cells) \o <<Len(cells)>>
encodePreamble(tag, descriptors) ==
    LET fields == Bytes(<<tag, Len(descriptors)>>
            \o Joined([i \in 1..MaxSegments |->
                IF i <= Len(descriptors) THEN <<descriptors[i].length, descriptors[i].alignment>> ELSE <<0, 0>>])
            \o <<0>>)
    IN  Append(fields, crc32(fields))
PreambleSize == 2 + 2 * MaxSegments + 2

SegmentsAllowed(descriptors) ==
    \A i \in 1..Len(descriptors): descriptors[i].length <= MaxSegmentBytes /\ validAlignment(descriptors[i].alignment)

(***************************************************************************)
(* Reading: a reader holds the rest of the wire, what it took last, an      *)
(* error ("blocked" when more may still arrive), and what it has decoded.   *)
(***************************************************************************)
Reader(cells) == [rest |-> cells, last |-> <<>>, err |-> "", Tag |-> 0, descriptors |-> <<>>, data |-> <<>>]
FailIf(r, bad, err) == IF r.err = "" /\ bad THEN [r EXCEPT !.err = err] ELSE r
ReadFull(r, n) ==
    IF r.err # "" THEN r
    ELSE IF Len(r.rest) < n THEN [r EXCEPT !.err = IF cut THEN "malformed" ELSE "blocked"]
    ELSE [r EXCEPT !.rest = SubSeq(@, n + 1, Len(@)), !.last = SubSeq(r.rest, 1, n)]
Descriptor(preamble, i) == [length |-> preamble[2 * i + 1][1], alignment |-> preamble[2 * i + 2][1]]
Described(r, preamble, count) ==
    [FailIf(r, \/ ~validTag(preamble[1][1]) \/ preamble[PreambleSize - 1] # <<0>>
               \/ \E i \in count + 1..MaxSegments: Descriptor(preamble, i) # [length |-> 0, alignment |-> 0]
               \/ count > 1 /\ Descriptor(preamble, count).length = 0, "malformed")
     EXCEPT !.Tag = preamble[1][1], !.descriptors = [i \in 1..count |-> Descriptor(preamble, i)]]
decodePreamble(r, preamble) ==
    IF r.err # "" THEN r
    ELSE IF preamble[PreambleSize] # crc32(SubSeq(preamble, 1, PreambleSize - 1)) THEN [r EXCEPT !.err = "integrity"]
    ELSE IF preamble[2][1] \notin 1..MaxSegments THEN [r EXCEPT !.err = "malformed"]
    ELSE Described(r, preamble, preamble[2][1])
\* The low four bits of the byte count.
LateStatus(r, byte) ==
    LET status == <<byte[1] % 16>> IN
    FailIf(FailIf(r, status = LateStatusAborted, "aborted"), status # LateStatusComplete, "malformed")

(***************************************************************************)
(* CRCCodec (frame.go).  A checksum is one cell here, four bytes there.     *)
(***************************************************************************)
crcTotal(descriptors) ==
    PreambleSize + Total([i \in 1..Len(descriptors) |-> descriptors[i].length])
    + (IF descriptors[1].length > 0 THEN 1 ELSE 0) + (IF Len(descriptors) > 1 THEN MaxSegments ELSE 0)
crcAccepts(descriptors) == SegmentsAllowed(descriptors) /\ crcTotal(descriptors) <= MaxFrameBytes
crcEncode(tag, segments) ==
    LET data(i) == Bytes(segments[i].Data)
        first == IF data(1) # <<>> THEN data(1) \o <<crc32(data(1))>> ELSE <<>>
        rest == Joined([i \in 1..Len(segments) - 1 |-> data(i + 1)])
        epilogue == <<LateStatusComplete>> \o [i \in 1..MaxSegments - 1 |->
            IF i < Len(segments) THEN crc32(data(i + 1)) ELSE <<0>>]
    IN  encodePreamble(tag, Descriptors(segments)) \o first \o rest
        \o (IF Len(segments) > 1 THEN epilogue ELSE <<>>)

\* MUTANT of crcCovers: only the first of the further segments is compared.
crcCoversFirst(data, epilogue) == data # <<>> => crc32(data[1]) = epilogue[2]
\* The checksums of the further segments.
crcCovers(data, epilogue) == \A i \in 1..Len(data): crc32(data[i]) = epilogue[i + 1]
crcSum(r) ==
    IF r.err # "" \/ r.descriptors[1].length = 0 THEN r
    ELSE LET sum == ReadFull(r, 1) IN FailIf(sum, sum.last # <<crc32(r.data[1])>>, "integrity")
Kept(r) == [r EXCEPT !.data = Append(@, r.last)]
crcSegments(r) ==
    LET upTo[i \in 0..Len(r.descriptors)] ==
            IF i = 0 THEN r
            ELSE IF i = 1 THEN crcSum(Kept(ReadFull(upTo[0], r.descriptors[1].length)))
            ELSE Kept(ReadFull(upTo[i - 1], r.descriptors[i].length))
    IN  upTo[Len(r.descriptors)]
crcLate(r) == IF r.err # "" THEN r ELSE FailIf(LateStatus(r, r.last[1]), ~crcCovers(Tail(r.data), r.last), "integrity")
crcEpilogue(r) == IF r.err # "" \/ Len(r.descriptors) = 1 THEN r ELSE crcLate(ReadFull(r, MaxSegments))
crcLimited(r) == FailIf(r, r.err = "" /\ ~crcAccepts(r.descriptors), "limit")
crcPreamble(r) == decodePreamble(r, r.last)
crcRead(cells) == crcEpilogue(crcSegments(crcLimited(crcPreamble(ReadFull(Reader(cells), PreambleSize)))))

(***************************************************************************)
(* SecureCodec (secure.go).                                                *)
(***************************************************************************)
NewSecureCodec(secret, server) ==
    IF server THEN [rx |-> secret.clientTX, tx |-> secret.clientRX] ELSE [rx |-> secret.clientRX, tx |-> secret.clientTX]

availableLocked(direction, count) == count = 0 \/ (~direction.exhausted /\ count - 1 <= MaxCounter - direction.counter)
\* The direction after n records, and the nonces they take (nonceLocked).
Advanced(direction, n) ==
    [direction EXCEPT !.counter = AtMost(MaxCounter, @ + n),
                      !.exhausted = @ \/ direction.counter + n > MaxCounter]
Nonce(direction, i) == <<direction.fixed, AtMost(MaxCounter, direction.counter + i - 1)>>
Authentication(nonce, plaintext) == nonce \o crc32(plaintext)
Sealed(nonce, plaintext) == Append(plaintext, Authentication(nonce, plaintext))
Opens(nonce, ciphertext) == ciphertext[Len(ciphertext)] = Authentication(nonce, SubSeq(ciphertext, 1, Len(ciphertext) - 1))

paddedSecureLength(length) == ((length + Block - 1) \div Block) * Block
securePreamble == PreambleSize + Inline + 1
firstExtra(length) == IF paddedSecureLength(length) > Inline THEN paddedSecureLength(length) - Inline + 1 ELSE 0
remainingSize(descriptors) ==
    IF Len(descriptors) = 1 THEN 0
    ELSE Block + 1 + Total([i \in 1..Len(descriptors) - 1 |-> paddedSecureLength(descriptors[i + 1].length)])
\* prepareSecureFrame and validateSecureDescriptors: the size on the wire and the number of records.
wireSize(descriptors) == securePreamble + firstExtra(descriptors[1].length) + remainingSize(descriptors)
records(descriptors) ==
    1 + (IF firstExtra(descriptors[1].length) > 0 THEN 1 ELSE 0) + (IF Len(descriptors) > 1 THEN 1 ELSE 0)
secureAccepts(descriptors) == SegmentsAllowed(descriptors) /\ wireSize(descriptors) <= MaxFrameBytes

Padded(s) == Bytes(s) \o Zeros(paddedSecureLength(Len(s)) - Len(s))
\* The plaintext made up in place, in front of a leased payload; <<>> when it has no room.
securePlaintext(storage, segments) ==
    LET middle == SubSeq(segments, 2, Len(segments) - 1)
        padded == [i \in 1..Len(middle) |-> Padded(middle[i].Data)]
    IN  IF Len(Joined(padded)) > LeasedPrefix THEN <<>>
        ELSE Joined(padded) \o Bytes(segments[Len(segments)].Data) \o <<LateStatusComplete>> \o Zeros(Block - 1)
\* What is left in the storage in front of the payload.
PrefixAfter(storage, plaintext, size) ==
    LET used == Len(plaintext) - size - Block
    IN  SubSeq(storage, 1, LeasedPrefix - used) \o SubSeq(plaintext, 1, used)

secureEncode(tg, segments, leased) ==
    LET first == encodePreamble(tg, Descriptors(segments)) \o Bytes(SubSeq(segments[1].Data, 1, AtMost(Inline, Len(segments[1].Data))))
        opening == first \o Zeros(PreambleSize + Inline - Len(first))
        extra == SubSeq(Padded(segments[1].Data), Inline + 1, paddedSecureLength(Len(segments[1].Data)))
        copied == Joined([i \in 1..Len(segments) - 1 |-> Padded(segments[i + 1].Data)]) \o <<LateStatusComplete>> \o Zeros(Block - 1)
        inPlace == IF leased THEN securePlaintext(prefix, segments) ELSE <<>>
        remaining == IF Len(inPlace) = Len(copied) THEN inPlace ELSE copied
        plaintexts == <<opening>> \o (IF extra # <<>> THEN <<extra>> ELSE <<>>) \o (IF Len(segments) > 1 THEN <<remaining>> ELSE <<>>)
    IN  Joined([i \in 1..Len(plaintexts) |-> Sealed(Nonce(tx, i), plaintexts[i])])

\* openLocked: the n-th record of the frame.
openLocked(r, n) ==
    IF r.err # "" THEN r
    ELSE IF ~Opens(Nonce(rx, n), r.last) THEN [r EXCEPT !.err = "integrity"]
    ELSE [r EXCEPT !.last = SubSeq(@, 1, Len(@) - 1)]
secureFirst(cells) ==
    openLocked(ReadFull(FailIf(FailIf(Reader(cells), ~availableLocked(rx, 1), "exhausted"),
                               MaxFrameBytes < securePreamble, "limit"), securePreamble), 1)
securePreambleOf(r) ==
    [decodePreamble(r, r.last) EXCEPT !.data = IF r.err = "" THEN <<SubSeq(r.last, PreambleSize + 1, PreambleSize + Inline)>> ELSE <<>>]
secureLimited(r) ==
    FailIf(FailIf(r, r.err = "" /\ ~secureAccepts(r.descriptors), "limit"),
           r.err = "" /\ ~availableLocked(rx, records(r.descriptors) - 1), "exhausted")
secureJoined(r) == IF r.err # "" THEN r ELSE [r EXCEPT !.data = <<@[1] \o r.last>>]
secureSecond(r) ==
    IF r.err # "" \/ firstExtra(r.descriptors[1].length) = 0 THEN r
    ELSE secureJoined(openLocked(ReadFull(r, firstExtra(r.descriptors[1].length)), 2))
secureUnpadded(r) ==
    IF r.err # "" THEN r
    ELSE [FailIf(r, ~allZero(SubSeq(r.data[1], r.descriptors[1].length + 1, Len(r.data[1]))), "malformed")
          EXCEPT !.data = <<SubSeq(@[1], 1, r.descriptors[1].length)>>]
Offset(d, i) == Total([j \in 1..i - 2 |-> paddedSecureLength(d[j + 1].length)])
\* The further segments, their padding, and the epilogue.
secureSplit(r, d) ==
    IF r.err # "" THEN r
    ELSE [LateStatus(FailIf(r, \/ \E i \in 2..Len(d): ~allZero(SubSeq(r.last, Offset(d, i) + d[i].length + 1, Offset(d, i + 1)))
                               \/ Len(r.last) # Offset(d, Len(d) + 1) + Block
                               \/ ~allZero(SubSeq(r.last, Offset(d, Len(d) + 1) + 2, Len(r.last))), "malformed"),
                     r.last[Offset(d, Len(d) + 1) + 1])
          EXCEPT !.data = @ \o [i \in 1..Len(d) - 1 |-> SubSeq(r.last, Offset(d, i + 1) + 1, Offset(d, i + 1) + d[i + 1].length)]]
secureRemaining(r) ==
    IF r.err # "" \/ Len(r.descriptors) = 1 THEN r
    ELSE secureSplit(openLocked(ReadFull(r, remainingSize(r.descriptors)), records(r.descriptors)), r.descriptors)
secureRead(cells) == secureRemaining(secureUnpadded(secureSecond(secureLimited(securePreambleOf(secureFirst(cells))))))

(***************************************************************************)
(* Messages (message.go).  A header is its sequence number, type and        *)
(* DataPrePaddingLength.                                                   *)
(***************************************************************************)
EncodeMessageHeader(header) == <<header.Sequence, header.Type, header.DataPrePaddingLength>>
MessageHeaderSize == 3
DecodeMessageHeader(data) == [Sequence |-> data[1], Type |-> data[2], DataPrePaddingLength |-> data[3]]
validateMessageSegments(segments) ==
    /\ \A i \in 1..Len(segments): segments[i].Alignment = messageAlignments[i] /\ Len(segments[i].Data) <= MaxSegmentBytes
    /\ Total([i \in 1..Len(segments) |-> Len(segments[i].Data)]) <= MaxFrameBytes
messageFrame(m) ==
    [Tag |-> TagMessage,
     Segments |-> [i \in 1..4 |-> [Alignment |-> messageAlignments[i],
                                   Data |-> <<EncodeMessageHeader(m.Header), m.Front, m.Middle, m.Data>>[i]]]]
encodes(m) == m.Header.DataPrePaddingLength <= Len(m.Data) /\ validateMessageSegments(messageFrame(m).Segments)
decodes(frame) ==
    /\ validateMessageSegments(frame.Segments)
    /\ Len(frame.Segments[1].Data) = MessageHeaderSize
    /\ DecodeMessageHeader(frame.Segments[1].Data).DataPrePaddingLength
        <= (IF Len(frame.Segments) > 3 THEN Len(frame.Segments[4].Data) ELSE 0)
decodeMessage(frame) ==
    LET payload(i) == IF i <= Len(frame.Segments) THEN frame.Segments[i].Data ELSE <<>>
    IN  [Header |-> DecodeMessageHeader(frame.Segments[1].Data), Front |-> payload(2), Middle |-> payload(3), Data |-> payload(4)]

(***************************************************************************)
(* The connection.                                                         *)
(***************************************************************************)
\* NewPaddedMessageLease: only a payload of whole blocks can be leased.
leasable(m) == Len(m.Data) > 0 /\ Len(m.Data) % Block = 0
WriteFrame(frame, what, leased, short) ==
    LET segments == normalizeSegments(frame.Segments)
        d == Descriptors(segments)
        accepted == IF mode = "crc" THEN crcAccepts(d) ELSE secureAccepts(d) /\ availableLocked(tx, records(d))
        cells == IF mode = "crc" THEN crcEncode(frame.Tag, segments) ELSE secureEncode(frame.Tag, segments, leased)
        inPlace == securePlaintext(prefix, segments)
    IN  /\ ~cut /\ Len(sent) + refused < MaxFrames
        /\ IF ~accepted THEN /\ short = 0 /\ refused' = refused + 1
                             /\ UNCHANGED <<tx, prefix, wire, cut, sent, nonces>>
           ELSE \* a write that fails part of the way ends the connection
                /\ short < Len(cells)
                /\ wire' = wire \o SubSeq(cells, 1, Len(cells) - short) /\ cut' = (short > 0)
                /\ sent' = Append(sent, what)
                /\ tx' = IF mode = "secure" THEN Advanced(tx, records(d)) ELSE tx
                /\ nonces' = IF mode = "secure" THEN nonces \o [i \in 1..records(d) |-> Nonce(tx, i)] ELSE nonces
                /\ prefix' = IF mode = "secure" /\ leased /\ Len(segments) > 1 /\ inPlace # <<>>
                             THEN PrefixAfter(prefix, inPlace, Len(segments[Len(segments)].Data)) ELSE prefix
                /\ UNCHANGED refused
    /\ UNCHANGED <<mode, rx, harmed, received, failed>>

WriteMessage ==
    \E payload \in Payloads, leased \in BOOLEAN, short \in {0, 1, 9}:
        LET m == [Header |-> [Sequence |-> Len(sent) + 1, Type |-> 2, DataPrePaddingLength |-> AtMost(1, Len(payload.Data))],
                  Front |-> payload.Front, Middle |-> payload.Middle, Data |-> payload.Data]
        IN  encodes(m) /\ (leased => leasable(m)) /\ WriteFrame(messageFrame(m), m, leased, short)
WriteControl ==
    \E payload \in Controls:
        WriteFrame([Tag |-> TagAck, Segments |-> <<[Alignment |-> 8, Data |-> payload]>>], [Control |-> payload], FALSE, 0)

codecRead == IF mode = "crc" THEN crcRead(wire) ELSE secureRead(wire)
frameOf(r) == [Tag |-> r.Tag, Segments |-> [i \in 1..Len(r.data) |-> [Alignment |-> r.descriptors[i].alignment, Data |-> Values(r.data[i])]]]
Returned(r, frame) ==
    IF r.err # "" THEN failed' = r.err /\ UNCHANGED <<wire, rx, received>>
    ELSE IF frame.Tag = TagMessage /\ ~decodes(frame) THEN failed' = "message" /\ UNCHANGED <<wire, rx, received>>
    ELSE /\ received' = Append(received, IF frame.Tag = TagMessage THEN decodeMessage(frame) ELSE [Control |-> frame.Segments[1].Data])
         /\ wire' = r.rest
         /\ rx' = IF mode = "secure" THEN Advanced(rx, records(r.descriptors)) ELSE rx
         /\ UNCHANGED failed
\* ReadFrame, and the decoding of the message in the frame; the connection ends with the first error.
ReadFrame ==
    /\ failed = ""
    /\ \E r \in {codecRead}: r.err # "blocked" /\ Returned(r, frameOf(r))
    /\ UNCHANGED <<mode, tx, prefix, cut, harmed, sent, refused, nonces>>

\* The connection is closed, by either side: what is on its way still arrives, or not.
Close ==
    /\ ~cut /\ cut' = TRUE
    /\ wire' \in {wire, <<>>}
    /\ UNCHANGED <<mode, tx, rx, prefix, harmed, sent, refused, received, failed, nonces>>
\* A cell is changed on its way, or the peer marks the frame as aborted.
Harm ==
    /\ ~harmed /\ harmed' = TRUE
    /\ \E i \in 1..Len(wire), cell \in {LateStatusAborted, <<9>>, <<30>>}:
        wire[i] # cell /\ wire' = [wire EXCEPT ![i] = cell]
    /\ UNCHANGED <<mode, tx, rx, prefix, cut, sent, refused, received, failed, nonces>>

FramesInit ==
    /\ mode \in {"crc", "secure"}
    /\ \E start \in IF mode = "crc" THEN {0} ELSE Starts:
        LET direction(fixed) == [fixed |-> fixed, counter |-> start, exhausted |-> FALSE]
            secret == [clientRX |-> direction(1), clientTX |-> direction(2)]
        IN  tx = NewSecureCodec(secret, FALSE).tx /\ rx = NewSecureCodec(secret, TRUE).rx
    /\ prefix = [i \in 1..LeasedPrefix |-> <<9>>]
    /\ wire = <<>> /\ cut = FALSE /\ harmed = FALSE
    /\ sent = <<>> /\ refused = 0 /\ received = <<>> /\ failed = "" /\ nonces = <<>>
FramesNext == WriteMessage \/ WriteControl \/ ReadFrame \/ Close \/ Harm
FramesSpec == FramesInit /\ [][FramesNext]_frameVars

(***************************************************************************)
(* Properties.                                                             *)
(***************************************************************************)
\* The reader returns exactly the messages and control frames that were written, in
\* their order, their empty trailing segments restored; nothing that was harmed, cut
\* off or aborted on its way is returned as a message.
DeliveredAsSent ==
    /\ Len(received) <= Len(sent)
    /\ \A i \in 1..Len(received): received[i] = sent[i]

\* A frame that the writer accepts under its limits is accepted by a reader with the
\* same limits: where nothing was harmed or cut off, reading never fails.
AcceptedIsReadable == failed # "" => harmed \/ cut \/ (failed = "exhausted" /\ tx.exhausted)

\* No nonce is used for two records, also when the counter reaches its end: a frame is
\* refused before its first record rather than in the middle.
NonceOnce == \A i, j \in 1..Len(nonces): i # j => nonces[i] # nonces[j]
=============================================================================
