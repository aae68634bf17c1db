------------------------------- MODULE MCWire ------------------------------
(***************************************************************************)
(* From an operation to bytes and back, on small instances: the operations  *)
(* of a request (Operations), the encodings of what the client sends and     *)
(* receives (WireChannel), the frames that carry them (Frames) and the       *)
(* memory that is reserved for what arrives (ReceiveBudget).  A behaviour   *)
(* is one of one of them, `part`; the variables of the others are unused.   *)
(***************************************************************************)
EXTENDS Integers, Sequences, TLC

CONSTANTS Goroutines, Lengths, MaxByte, MaxOffset, MaxOperations, MaxRequestBytes,
          MaxBytes, MaxCount, MaxAge, DamagePoints,
          Payloads, Controls, Block, Inline, LeasedPrefix, MaxSegmentBytes, MaxFrameBytes, Starts, MaxCounter, MaxFrames,
          Arriving, Sessions, MaxReserved, MinScratch, MaxScratch, Granule, Slots

VARIABLES
    part,
    context, kind, operations, err, executed, given, refusals, flagged, executing, requests, answers,
    sent, bytes, damage, received,
    mode, tx, rx, prefix, wire, cut, harmed, frameSent, refused, frameReceived, failed, nonces,
    phase, generation, reader, lease, idle, reserved, control, admitted

operationsVars == <<context, kind, operations, err, executed, given, refusals, flagged, executing, requests, answers>>
encodingVars == <<sent, bytes, damage, received>>
framesVars == <<mode, tx, rx, prefix, wire, cut, harmed, frameSent, refused, frameReceived, failed, nonces>>
budgetVars == <<phase, generation, reader, lease, idle, reserved, control, admitted>>
wireVars == <<part, operationsVars, encodingVars, framesVars, budgetVars>>

\* Messages with each of their segments empty or not, and control frames up to the inline size.
Payload(front, middle, data) == [Front |-> front, Middle |-> middle, Data |-> data]
MCPayloads == {Payload(<<>>, <<>>, <<>>), Payload(<<1>>, <<>>, <<>>), Payload(<<>>, <<>>, <<0>>),
               Payload(<<1, 0, 2>>, <<0>>, <<1, 0>>), Payload(<<1>>, <<1, 2>>, <<1, 0>>)}
MCControls == {<<>>, <<1, 0, 2, 1>>, <<1, 2, 2, 0, 1>>}
\* Frames that arrive: a control frame, and messages of two, three and five bytes.
Frame(isControl, first, rest) == [control |-> isControl, first |-> first, rest |-> rest]
MCArriving == {Frame(TRUE, 0, 0), Frame(FALSE, 1, 1), Frame(FALSE, 0, 3), Frame(FALSE, 0, 5)}

Op == INSTANCE Operations WITH MaxBytes <- MaxRequestBytes
W == INSTANCE WireChannel
F == INSTANCE Frames WITH sent <- frameSent, received <- frameReceived
\* Two sessions at a time that never reconnect; one at a time, the first with two transports.
B == INSTANCE ReceiveBudget WITH bytes <- reserved, Frames <- Arriving \ {Frame(FALSE, 0, 3)}, MaxBytes <- MaxReserved,
                                 MaxSessions <- 2, Generations <- <<1, 1>>
R == INSTANCE ReceiveBudget WITH bytes <- reserved, Frames <- Arriving, MaxBytes <- MaxReserved,
                                 MaxSessions <- 1, Generations <- <<2, 1>>

\* The variables of the parts that do not run.
Unused == "unused"
NoOperations ==
    /\ context = Unused /\ kind = Unused /\ operations = Unused /\ err = Unused /\ executed = Unused /\ given = Unused
    /\ refusals = Unused /\ flagged = Unused /\ executing = Unused /\ requests = Unused
    /\ answers = Unused
NoEncoding ==
    /\ sent = Unused /\ bytes = Unused /\ damage = Unused /\ received = Unused
NoFrames ==
    /\ mode = Unused /\ tx = Unused /\ rx = Unused /\ prefix = Unused /\ wire = Unused
    /\ cut = Unused /\ harmed = Unused /\ frameSent = Unused /\ refused = Unused
    /\ frameReceived = Unused /\ failed = Unused /\ nonces = Unused
NoBudget ==
    /\ phase = Unused /\ generation = Unused /\ reader = Unused /\ lease = Unused /\ idle = Unused /\ reserved = Unused
    /\ control = Unused /\ admitted = Unused

WireInit ==
    \/ part = "operations" /\ Op!OperationsInit /\ NoEncoding /\ NoFrames /\ NoBudget
    \/ part = "encoding" /\ W!WireInit /\ NoOperations /\ NoFrames /\ NoBudget
    \/ part = "frames" /\ F!FramesInit /\ NoOperations /\ NoEncoding /\ NoBudget
    \/ part = "budget" /\ B!Init /\ NoOperations /\ NoEncoding /\ NoFrames
    \/ part = "reconnects" /\ R!Init /\ NoOperations /\ NoEncoding /\ NoFrames
WireNext ==
    /\ UNCHANGED part
    /\ \/ part = "operations" /\ Op!OperationsNext /\ UNCHANGED <<encodingVars, framesVars, budgetVars>>
       \/ part = "encoding" /\ W!WireNext /\ UNCHANGED <<operationsVars, framesVars, budgetVars>>
       \/ part = "frames" /\ F!FramesNext /\ UNCHANGED <<operationsVars, encodingVars, budgetVars>>
       \/ part = "budget" /\ B!Next /\ UNCHANGED <<operationsVars, encodingVars, framesVars>>
       \/ part = "reconnects" /\ R!Next /\ UNCHANGED <<operationsVars, encodingVars, framesVars>>
WireSpec == WireInit /\ [][WireNext]_wireVars

\* A compound operation is sent once, as it was built, with the flags and the size it has;
\* what was admitted can be encoded but for a snapshot context, and the failure of an operation is reported.
RequestsSafe ==
    part = "operations" =>
        /\ Op!AdmittedIsEncodable /\ Op!SentAsBuilt /\ Op!FrontSizeIsExact
        /\ Op!WritesAreFlagged /\ Op!FailuresAreReported

\* What is decoded is what was encoded, of every age and at every limit; what was damaged
\* is refused or decoded without more memory than its bytes justify.
EncodingSafe == part = "encoding" => W!DecodedIsSent /\ W!AllocationBounded /\ W!RefusesDamaged

\* Frames arrive as they were written or not at all, what the writer accepts the reader
\* can read, and no nonce is used twice.
FramesSafe == part = "frames" => F!DeliveredAsSent /\ F!AcceptedIsReadable /\ F!NonceOnce

\* The budget is what is held, a buffer is never larger than what is reserved for it, the
\* first record of a frame fits unless a session has reconnected, and a closed transport
\* keeps nothing.
BudgetSafe ==
    /\ part = "budget" =>
          B!BudgetConserved /\ B!BackingReserved /\ B!AllowanceSuffices /\ B!ClosedKeepsNothing
    /\ part = "reconnects" =>
          R!BudgetConserved /\ R!BackingReserved /\ R!AllowanceSuffices /\ R!ClosedKeepsNothing
=============================================================================
