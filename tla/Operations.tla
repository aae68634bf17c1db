----------------------------- MODULE Operations -----------------------------
(***************************************************************************)
(* Object operations, from the call to the request: the methods that build  *)
(* them (object.go, metadata.go, snapshot.go), the compound ReadOp and      *)
(* WriteOp that goroutines may share, the checks of the objecter            *)
(* (objecter/client.go, mutation.go), the request's encoding                *)
(* (osd/messages.go) and what the caller is told of the answer.             *)
(*                                                                         *)
(* Payloads are their lengths.  Routing and retries are in Objecter.        *)
(***************************************************************************)
EXTENDS Integers, Sequences, FiniteSets

CONSTANTS
    Goroutines,     \* those that share the compound operation
    Lengths,        \* the lengths a name, a value or a payload can have
    MaxByte,        \* the greatest uint8 (255)
    MaxOffset,      \* the greatest uint64
    MaxOperations,  \* limits.MaxOperations
    MaxBytes        \* limits.MaxBytes, less the fixed part of a request

VARIABLES
    context,        \* the pool's write snapshot context (WithWriteSnapshot)
    kind,           \* "ReadOp" or "WriteOp"
    operations, err, executed,  \* its fields
    given,          \* the index each successful add returned, with the operation
    refusals,       \* an add or a SetFlags failed before the operation was executed
    flagged,        \* SetFlags was called
    executing,      \* what each goroutine's ExecuteRead or ExecuteWrite is doing
    requests,       \* the requests that were encoded
    answers         \* what was answered and reported: [codes, results, err]

opVars == <<context, kind, operations, err, executed, given, refusals, flagged, executing, requests, answers>>

(***************************************************************************)
(* Operations.                                                             *)
(***************************************************************************)
Blank == [Code |-> "", Flags |-> {}, Offset |-> 0, Length |-> 0, Name |-> 0, Value |-> 0, Method |-> 0, Pattern |-> 0, Data |-> 0]
Op(code) == [Blank EXCEPT !.Code = code]
Extent(code, offset, length) == [Op(code) EXCEPT !.Offset = offset, !.Length = length]
Payload(code, offset, length) == [Extent(code, offset, length) EXCEPT !.Data = length]
Refused == [Blank EXCEPT !.Code = "refused"]

\* Methods that take a name: GetXAttr, RemoveXAttr and SetXAttr.
Named(code, name, value) ==
    IF name = 0 THEN Refused ELSE [Op(code) EXCEPT !.Name = name, !.Value = value, !.Data = name + value]
\* MUTANT of classOperation: the lengths of the names are not checked.
classOperationUnchecked(class, method, input) ==
    [Payload("Call", 0, class + method + input) EXCEPT !.Name = class % (MaxByte + 1), !.Method = method % (MaxByte + 1), !.Value = input]
classOperation(class, method, input) ==
    IF class = 0 \/ method = 0 \/ class > MaxByte \/ method > MaxByte THEN Refused
    ELSE [Payload("Call", 0, class + method + input) EXCEPT !.Name = class, !.Method = method, !.Value = input]
\* The lengths of the encoded arguments (osd/metadata.go): a string is 4 bytes longer.
EncodeOMAPListRequest(after) == 4 + after + 8 + 4
EncodeMetadataMap(keys) == 4 + 9 * keys
EncodeMetadataKeys(keys) == 4 + 5 * keys
EncodeOMAPRange(begin, end) == IF begin >= end THEN 0 ELSE 8 + begin + end
EncodeOMAPCompare(key, value) == 4 + 4 + key + 4 + value + 4
EncodeCopyFromSource(object, includeTruncate) == 4 + object + 34 + (IF includeTruncate THEN 12 ELSE 0)
Encoded(code, length) == IF length = 0 THEN Refused ELSE Payload(code, 0, length)
Offsets == {0, MaxOffset}

ReadMethods ==
    {Extent("Read", o, n): o \in Offsets, n \in Lengths}
    \cup {Op("Stat"), Op("AssertVer"), Op("OmapGetHeader"), Refused}
    \cup {Named("GetXattr", n, 0): n \in Lengths}
    \cup {Encoded("OmapGetValues", EncodeOMAPListRequest(n)): n \in Lengths}
    \cup {classOperation(c, m, 1): c, m \in Lengths}
WriteMethods ==
    {[Op("Create") EXCEPT !.Flags = f]: f \in {{}, {"exclusive"}}}
    \cup {Payload(code, o, n): code \in {"Write", "CompareExtent"}, o \in Offsets, n \in Lengths}
    \cup {Payload(code, 0, n): code \in {"WriteFull", "Append", "OmapSetHeader"}, n \in Lengths}
    \cup {Extent("Truncate", o, 0): o \in Offsets} \cup {Extent("Zero", o, n): o \in Offsets, n \in Lengths}
    \cup {Op("Delete"), Op("AssertVer"), Op("OmapClear")}
    \cup {Named("SetXattr", n, v): n, v \in Lengths} \cup {Named("RemoveXattr", n, 0): n \in Lengths}
    \cup {Encoded("OmapSetValues", EncodeMetadataMap(n)): n \in Lengths}
    \cup {Encoded("OmapRemoveKeys", EncodeMetadataKeys(n)): n \in Lengths}
    \cup {Encoded("OmapRemoveRange", EncodeOMAPRange(a, b)): a, b \in Lengths}
    \cup {Encoded("OmapCompare", EncodeOMAPCompare(a, b)): a, b \in Lengths}
    \cup {classOperation(c, m, 1): c, m \in Lengths}
\* The methods of ObjectRef that have no counterpart above; each sends one operation.
SparseRead(offset, length) == IF length > MaxOffset - offset THEN Refused ELSE Extent("SparseRead", offset, length)
Checksum(seed, length, chunk) ==
    IF seed # 4 \/ (chunk # 0 /\ (length = 0 \/ length % chunk # 0)) THEN Refused
    ELSE [Extent("Checksum", 0, length) EXCEPT !.Pattern = chunk, !.Data = seed]
WriteSame(offset, length, pattern) ==
    IF pattern = 0 \/ length = 0 \/ length % pattern # 0 \/ length > MaxOffset - offset THEN Refused
    ELSE [Extent("WriteSame", offset, length) EXCEPT !.Pattern = pattern, !.Data = pattern]
SetAllocationHint == [Op("SetAllocationHint") EXCEPT !.Flags = {"failok"}]
CopyFrom(object, includeTruncate) ==
    IF object = 0 THEN Refused
    ELSE Payload(IF includeTruncate THEN "CopyFrom2" ELSE "CopyFrom", 0, EncodeCopyFromSource(object, includeTruncate))
ObjectReads ==
    {SparseRead(o, n): o \in Offsets, n \in Lengths} \cup {Checksum(s, n, c): s \in {3, 4}, n, c \in Lengths}
    \cup {Op("GetXattrs"), Encoded("OmapGetValuesByKeys", EncodeMetadataKeys(1))}
ObjectWrites ==
    {WriteSame(o, n, p): o \in Offsets, n, p \in Lengths} \cup {SetAllocationHint, Op("Rollback")}
    \cup {CopyFrom(n, t): n \in Lengths, t \in BOOLEAN}

(***************************************************************************)
(* The objecter's checks.                                                  *)
(***************************************************************************)
Mutations == {"Write", "WriteFull", "Append", "Truncate", "Zero", "Delete", "Create", "Rollback", "CopyFrom", "CopyFrom2",
    "SetAllocationHint", "WriteSame", "OmapSetValues", "OmapSetHeader", "OmapClear", "OmapRemoveKeys", "OmapRemoveRange",
    "SetXattr", "RemoveXattr"}
isMutationOperation(code) == code \in Mutations \cup {"Call"}
isCompoundWriteOperation(code) == isMutationOperation(code) \/ code \in {"AssertVer", "CompareExtent", "OmapCompare"}
isReadOperation(code) ==
    code \in {"Read", "Stat", "SparseRead", "AssertVer", "OmapGetValues", "OmapGetValuesByKeys", "OmapGetHeader", "OmapCompare",
              "Checksum", "CompareExtent", "GetXattr", "GetXattrs"}
validCompoundPayload(o) ==
    CASE o.Code \in {"Write", "WriteFull", "Append", "CompareExtent", "OmapSetValues", "OmapSetHeader", "OmapRemoveKeys",
                     "OmapRemoveRange", "OmapCompare", "Call", "CopyFrom", "CopyFrom2"} -> o.Data = o.Length
      [] o.Code = "WriteSame" -> o.Pattern # 0 /\ o.Pattern = o.Data /\ o.Length # 0 /\ o.Length % o.Pattern = 0
      [] o.Code = "SetXattr" -> o.Name + o.Value = o.Data
      [] o.Code = "RemoveXattr" -> o.Value = 0 /\ o.Name = o.Data
      [] OTHER -> o.Data = 0
MutateOperations(ops) ==
    /\ Len(ops) \in 1..MaxOperations
    /\ \A i \in 1..Len(ops): /\ ops[i].Length <= MaxOffset - ops[i].Offset
                             /\ isCompoundWriteOperation(ops[i].Code) /\ validCompoundPayload(ops[i])
    /\ \E i \in 1..Len(ops): isMutationOperation(ops[i].Code)
ReadOperations(ops) ==
    /\ Len(ops) \in 1..MaxOperations
    /\ \A i \in 1..Len(ops): isReadOperation(ops[i].Code) \/ (ops[i].Code = "Call" /\ validCompoundPayload(ops[i]))

(***************************************************************************)
(* encodeRequest.                                                          *)
(***************************************************************************)
validateOperation(o) ==
    CASE o.Code = "Checksum" -> o.Data = 4 /\ o.Length <= MaxOffset - o.Offset /\ (o.Pattern # 0 => o.Length # 0 /\ o.Length % o.Pattern = 0)
      [] o.Code = "SetAllocationHint" -> o.Flags = {"failok"} /\ o.Data = 0
      [] o.Code = "WriteSame" -> o.Pattern # 0 /\ o.Pattern = o.Data /\ o.Length # 0 /\ o.Length % o.Pattern = 0 /\ o.Offset <= MaxOffset - o.Length
      [] o.Code \in {"CopyFrom", "CopyFrom2"} -> o.Data # 0
      [] o.Code \in {"GetXattr", "RemoveXattr"} -> o.Value = 0 /\ o.Name = o.Data
      [] o.Code = "SetXattr" -> o.Name + o.Value = o.Data
      [] o.Code = "Call" -> o.Name # 0 /\ o.Method # 0 /\ o.Name + o.Method + o.Value = o.Data
      [] OTHER -> TRUE
\* The snapshots descend and none is newer than the sequence.
validSnapshotContext ==
    \A i \in 1..Len(context.Snapshots):
        context.Snapshots[i] <= context.Sequence /\ (i > 1 => context.Snapshots[i] < context.Snapshots[i - 1])
\* encodeOperation: the bytes between an operation's flags and its payload length.
unionSize(code) ==
    CASE code \in {"GetXattr", "GetXattrs", "SetXattr", "RemoveXattr"} -> 4 + 4 + 1 + 1 + 18
      [] code = "AssertVer" -> 8 + 8 + 12
      [] code = "Call" -> 1 + 1 + 1 + 4 + 21
      [] code = "SetAllocationHint" -> 8 + 8 + 4 + 8
      [] code = "WriteSame" -> 8 + 8 + 8 + 4
      [] code = "Checksum" -> 8 + 8 + 4 + 1 + 7
      [] code \in {"CopyFrom", "CopyFrom2"} -> 8 + 8 + 1 + 4 + 7
      [] code = "Rollback" -> 8 + 20
      [] OTHER -> 8 + 8 + 8 + 4
Sum(s) == LET sum[i \in 0..Len(s)] == IF i = 0 THEN 0 ELSE sum[i - 1] + s[i] IN sum[Len(s)]
encodedOperations(ops) == Sum([i \in 1..Len(ops) |-> 2 + 4 + unionSize(ops[i].Code) + 4])
operationDescriptorSize == 38
requestFrontSize(ops) == Len(ops) * operationDescriptorSize + Len(context.Snapshots) * 8
dataLength(ops) == Sum([i \in 1..Len(ops) |-> ops[i].Data])
fits(ops) == dataLength(ops) <= MaxBytes /\ requestFrontSize(ops) <= MaxBytes - dataLength(ops)
encodes(ops) == validSnapshotContext /\ \A i \in 1..Len(ops): validateOperation(ops[i])

requestFlags(ops, write) ==
    (IF write \/ \E i \in 1..Len(ops): ops[i].Code \in Mutations THEN {"write", "ondisk"} ELSE {"read"})
    \cup (IF Len(ops) > 1 THEN {"returnvec"} ELSE {})
Request(ops, write) ==
    [operations |-> ops, flags |-> requestFlags(ops, write), front |-> encodedOperations(ops) + 8 * Len(context.Snapshots),
     data |-> dataLength(ops)]

\* A request's way through the objecter: how it ends, and the requests after it.
Submission(ops, write) ==
    IF ~(IF write THEN MutateOperations(ops) ELSE ReadOperations(ops)) THEN "malformed"
    ELSE IF ~fits(ops) THEN "limit"
    ELSE IF ~encodes(ops) THEN "unencodable"
    ELSE "sent"

(***************************************************************************)
(* ReadOp and WriteOp.                                                     *)
(***************************************************************************)
Open == IF executed THEN ~err ELSE Len(operations) < 2
\* Indexes count from 1 here.
add(o) ==
    IF executed THEN err' = TRUE /\ UNCHANGED <<operations, given, refusals>>
    ELSE /\ operations' = Append(operations, o) /\ given' = given \cup {[index |-> Len(operations) + 1, operation |-> o]}
         /\ UNCHANGED <<err, refusals>>
fail == err' = TRUE /\ refusals' = (refusals \/ ~executed) /\ UNCHANGED <<operations, given>>
\* Once the operation was executed all methods end alike: one stands for them.
Methods ==
    IF executed THEN {Refused, classOperation(1, 1, 1)} ELSE IF kind = "ReadOp" THEN ReadMethods ELSE WriteMethods
AddOperation ==
    /\ Open /\ answers = <<>>
    /\ \E o \in Methods: IF o = Refused THEN fail ELSE add(o)
    /\ UNCHANGED <<context, kind, executed, flagged, executing, requests, answers>>
setFlags(index) ==
    IF executed \/ index > Len(operations) THEN fail
    ELSE /\ operations' = [operations EXCEPT ![index].Flags = (@ \cap {"exclusive"}) \cup {"failok"}]
         /\ UNCHANGED <<err, given, refusals>>
SetFlags ==
    /\ ~flagged /\ flagged' = TRUE
    /\ \E index \in 1..2: setFlags(index)
    /\ UNCHANGED <<context, kind, executed, executing, requests, answers>>

freeze(g) ==
    /\ executed' = TRUE
    /\ executing' = [executing EXCEPT ![g] =
        IF executed \/ err \/ operations = <<>> THEN [state |-> "invalid"] ELSE [state |-> "frozen", operations |-> operations]]
Execute(g) ==
    /\ executing[g].state = "idle"
    /\ freeze(g)
    /\ UNCHANGED <<context, kind, operations, err, given, refusals, flagged, requests, answers>>
Submit(g) ==
    /\ executing[g].state = "frozen"
    /\ LET ops == executing[g].operations
           end == Submission(ops, kind = "WriteOp")
       IN /\ executing' = [executing EXCEPT ![g] = [state |-> end, operations |-> ops]]
          /\ requests' = IF end = "sent" THEN Append(requests, Request(ops, kind = "WriteOp")) ELSE requests
    /\ UNCHANGED <<context, kind, operations, err, executed, given, refusals, flagged, answers>>

\* The methods of ObjectRef that change the object: mutate looks at the snapshot context
\* first, executeWrite does not.
mutate == {"Write", "WriteFull", "Append", "Truncate", "Zero", "WriteSame", "SetAllocationHint", "CopyFrom", "CopyFrom2",
           "Delete", "Create", "Rollback"}
executeWrite == {"SetXattr", "RemoveXattr"}

\* A method of ObjectRef: its one operation is refused at once, or sent.
ObjectCall(g) ==
    /\ requests = <<>> /\ ~executed /\ operations = <<>> /\ ~flagged /\ ~err
    /\ \E write \in BOOLEAN: \E o \in IF write THEN ObjectWrites \cup WriteMethods ELSE ObjectReads \cup ReadMethods:
        /\ o # Refused
        /\ write => o.Code \in executeWrite \/ (o.Code \in mutate /\ validSnapshotContext)
        /\ Submission(<<o>>, write) \in {"sent", "unencodable"}
        /\ operations' = <<o>> /\ executed' = TRUE
        /\ given' = {[index |-> 1, operation |-> o]}
        /\ LET end == Submission(<<o>>, write)
           IN /\ executing' = [executing EXCEPT ![g] = [state |-> end, operations |-> <<o>>]]
              /\ requests' = IF end = "sent" THEN <<Request(<<o>>, write)>> ELSE <<>>
    /\ UNCHANGED <<context, kind, err, refusals, flagged, answers>>

(***************************************************************************)
(* The answer: a code for all and one for each operation; -4095 and below   *)
(* say where a comparison failed.                                          *)
(***************************************************************************)
maxErrno == 4095
Codes == {3, -4096}
Result(code) ==
    [Code |-> code, Err |-> code < 0, Value |-> IF code > 0 THEN code ELSE IF code <= -maxErrno THEN -maxErrno - code ELSE 0]
Fails(codes, ops) == \E i \in 1..Len(ops): codes[i] < 0 /\ "failok" \notin ops[i].Flags
Answer(g) ==
    /\ executing[g].state = "sent" /\ answers = <<>>
    /\ LET ops == executing[g].operations
       IN \E codes \in [1..Len(ops) -> Codes], result \in {0, -2}:
            /\ answers' = <<[codes |-> codes, operations |-> ops, results |-> [i \in 1..Len(ops) |-> Result(codes[i])],
                             err |-> result < 0 \/ Fails(codes, ops)]>>
            /\ executing' = [executing EXCEPT ![g] = [state |-> "answered"]]
    /\ UNCHANGED <<context, kind, operations, err, executed, given, refusals, flagged, requests>>

\* None, one in order, and one that is not.
Contexts == {[Sequence |-> 0, Snapshots |-> <<>>], [Sequence |-> 2, Snapshots |-> <<2, 1>>],
             [Sequence |-> 2, Snapshots |-> <<1, 2>>]}

OperationsInit ==
    /\ context \in Contexts
    /\ kind \in {"ReadOp", "WriteOp"}
    /\ operations = <<>> /\ err = FALSE /\ executed = FALSE
    /\ given = {} /\ refusals = FALSE /\ flagged = FALSE
    /\ executing = [g \in Goroutines |-> [state |-> "idle"]]
    /\ requests = <<>> /\ answers = <<>>
OperationsNext ==
    \/ AddOperation \/ SetFlags
    \/ \E g \in Goroutines: ObjectCall(g) \/ Execute(g) \/ Submit(g) \/ Answer(g)
OperationsSpec == OperationsInit /\ [][OperationsNext]_opVars

(***************************************************************************)
(* Properties.                                                             *)
(***************************************************************************)
\* What passes the checks of the method that built it and those of the objecter can
\* be encoded, with one exception: executeWrite and the reads do not look at the
\* pool's write snapshot context, and encodeRequest finds it out of order when a
\* mutation has been admitted and has its transaction.  No request leaves with it.
AdmittedIsEncodable ==
    /\ \A g \in Goroutines: executing[g].state = "unencodable" => ~validSnapshotContext
    /\ requests # <<>> => validSnapshotContext

\* A compound operation is sent at most once, however many goroutines execute it, and
\* then with every operation whose add returned an index, at that index; not at all
\* when one of its operations was refused.
SentAsBuilt ==
    /\ Len(requests) <= 1
    /\ requests # <<>> =>
        /\ ~refusals
        /\ \A a \in given: a.index <= Len(requests[1].operations) /\ requests[1].operations[a.index].Code = a.operation.Code
        /\ Len(requests[1].operations) = Cardinality(given)

\* The size computed for the front of a request is the size of what is encoded, so that
\* the limit is applied to what is really sent.
FrontSizeIsExact == \A i \in 1..Len(requests): requests[i].front = requestFrontSize(requests[i].operations)

\* A request with an operation that changes the object is sent as a durable write.
WritesAreFlagged ==
    \A i \in 1..Len(requests):
        (\E j \in 1..Len(requests[i].operations): requests[i].operations[j].Code \in Mutations) => {"write", "ondisk"} \subseteq requests[i].flags

\* An error of an operation is reported as such, unless it was to be passed over.
FailuresAreReported ==
    \A i \in 1..Len(answers): \A j \in 1..Len(answers[i].codes):
        answers[i].codes[j] < 0 => answers[i].results[j].Err /\ (answers[i].err \/ "failok" \in answers[i].operations[j].Flags)
=============================================================================
