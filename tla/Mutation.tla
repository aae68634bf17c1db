------------------------------ MODULE Mutation ------------------------------
(***************************************************************************)
(* Admission of mutations and Flush (internal/objecter/mutation.go).       *)
(*                                                                         *)
(* Calls of MutateOperations and ClassOperations are admitted under the    *)
(* limits on their number and their bytes, run, and are completed.  Flush  *)
(* takes a watermark and waits for everything admitted up to it.  All of   *)
(* them share client.mu and the channel mutationChanged, which is closed   *)
(* and replaced to wake those who wait on it: they go from "blocked" to    *)
(* "woken", where the context may still win.                               *)
(***************************************************************************)
EXTENDS Integers, FiniteSets

CONSTANTS
  Calls,             \* calls that mutate
  Flushes,           \* calls of Flush
  Payloads,          \* how many bytes a call may bring
  MaxMutations,      \* Config.MaxMutations
  MaxMutationBytes,  \* Config.MaxMutationBytes
  MaxUint64          \* the largest uint64

ASSUME MutationAssumption ==
  /\ Payloads \subseteq Nat
  /\ MaxMutations \in Nat /\ MaxMutationBytes \in Nat
  /\ MaxUint64 \in Nat \ {0}

VARIABLES
  client,   \* the fields of Client that mutations share
  call,     \* where each mutation is
  flush,    \* where each Flush is
  history   \* what was admitted before each Flush, and how each call ended

vars == <<client, call, flush, history>>

Init ==
  /\ client = [closed |-> FALSE, mutationClosed |-> FALSE, nextMutation |-> 0,
               nextTransaction |-> 1, pendingMutations |-> {},
               retainedMutationBytes |-> 0, unknownMutation |-> 0]
  /\ call = [c \in Calls |-> [pc |-> "idle", bytes |-> 0, sequence |-> 0, transaction |-> 0]]
  /\ flush = [f \in Flushes |-> [pc |-> "idle", watermark |-> 0]]
  /\ history = [before |-> [f \in Flushes |-> {}], unknown |-> {}]

\* ++ on a uint64
Successor(n) == IF n = MaxUint64 THEN 0 ELSE n + 1

Woken(process) == IF process.pc = "blocked" THEN [process EXCEPT !.pc = "woken"] ELSE process

\* Mutant: those that wait to be admitted are not woken.
NotifyNoCalls == call

\* notifyMutationWaitersLocked closes the channel and makes a new one.
NotifyCalls == [c \in Calls |-> Woken(call[c])]

NotifyFlushes == [f \in Flushes |-> Woken(flush[f])]

-----------------------------------------------------------------------------
(***************************************************************************)
(* Admission and completion.                                               *)
(***************************************************************************)

\* A payload above the limit never fits and is refused at once.
BeginMutation(c) ==
  /\ call[c].pc = "idle"
  /\ \E bytes \in Payloads :
       call' = [call EXCEPT ![c].bytes = bytes,
                            ![c].pc = IF bytes > MaxMutationBytes THEN "limit" ELSE "admitting"]
  /\ UNCHANGED <<client, flush, history>>

Fits(c) ==
  /\ Cardinality(client.pendingMutations) < MaxMutations
  /\ call[c].bytes <= MaxMutationBytes - client.retainedMutationBytes

\* Mutant: only the sequence of mutations is checked for its end.
ExhaustedMutations == client.nextMutation = MaxUint64

Exhausted == client.nextMutation = MaxUint64 \/ client.nextTransaction = MaxUint64

\* takeTransactionIDLocked
TransactionID == IF client.nextTransaction = 0 THEN 1 ELSE client.nextTransaction

Admit(c) ==
  /\ client' = [client EXCEPT
       !.nextMutation = Successor(@),
       !.nextTransaction = Successor(TransactionID),
       !.pendingMutations = @ \cup {Successor(client.nextMutation)},
       !.retainedMutationBytes = @ + call[c].bytes]
  /\ call' = [call EXCEPT ![c] = [pc |-> "running", bytes |-> call[c].bytes,
                                  sequence |-> Successor(client.nextMutation),
                                  transaction |-> TransactionID]]

AdmitMutation(c) ==
  /\ call[c].pc \in {"admitting", "woken"}
  /\ IF client.closed \/ client.mutationClosed
     THEN UNCHANGED client /\ call' = [call EXCEPT ![c].pc = "closed"]
     ELSE IF Fits(c)
     THEN IF Exhausted
          THEN UNCHANGED client /\ call' = [call EXCEPT ![c].pc = "limit"]
          ELSE Admit(c)
     ELSE UNCHANGED client /\ call' = [call EXCEPT ![c].pc = "blocked"]
  /\ UNCHANGED <<flush, history>>

CancelAdmission(c) ==
  /\ call[c].pc \in {"blocked", "woken"}
  /\ call' = [call EXCEPT ![c].pc = "canceled"]
  /\ UNCHANGED <<client, flush, history>>

\* Mutant: the last unknown outcome is remembered, not the first.
LastUnknown(sequence, unknown) ==
  IF unknown THEN sequence ELSE client.unknownMutation

FirstUnknown(sequence, unknown) ==
  IF unknown /\ (client.unknownMutation = 0 \/ sequence < client.unknownMutation)
  THEN sequence ELSE client.unknownMutation

\* The operation has ended, and completeMutation is called with its error.
CompleteMutation(c, unknown) ==
  /\ call[c].pc = "running"
  /\ client' = [client EXCEPT
       !.pendingMutations = @ \ {call[c].sequence},
       !.retainedMutationBytes = @ - call[c].bytes,
       !.unknownMutation = FirstUnknown(call[c].sequence, unknown)]
  /\ call' = [NotifyCalls EXCEPT ![c].pc = "done"]
  /\ flush' = NotifyFlushes
  /\ history' = [history EXCEPT !.unknown = @ \cup (IF unknown THEN {c} ELSE {})]

\* Reads, and retries of a mutation under a new identity, take an id as well.
TakeTransaction ==
  /\ client.nextTransaction # MaxUint64
  /\ client' = [client EXCEPT !.nextTransaction = Successor(TransactionID)]
  /\ UNCHANGED <<call, flush, history>>

-----------------------------------------------------------------------------
(***************************************************************************)
(* Flush and the end of the client.                                        *)
(***************************************************************************)

Accepted == {c \in Calls : call[c].sequence # 0}

BeginFlush(f) ==
  /\ flush[f].pc = "idle"
  /\ flush' = [flush EXCEPT ![f] = [pc |-> "checking", watermark |-> client.nextMutation]]
  /\ history' = [history EXCEPT !.before[f] = Accepted]
  /\ UNCHANGED <<client, call>>

Unknown(f) == client.unknownMutation # 0 /\ client.unknownMutation <= flush[f].watermark

Waiting(f) == \E sequence \in client.pendingMutations : sequence <= flush[f].watermark

CheckFlush(f) ==
  /\ flush[f].pc \in {"checking", "woken"}
  /\ flush' = [flush EXCEPT ![f].pc =
                 IF Waiting(f) THEN "blocked" ELSE IF Unknown(f) THEN "unknown" ELSE "flushed"]
  /\ UNCHANGED <<client, call, history>>

CancelFlush(f) ==
  /\ flush[f].pc \in {"blocked", "woken"}
  /\ flush' = [flush EXCEPT ![f].pc = IF Unknown(f) THEN "unknown" ELSE "canceled"]
  /\ UNCHANGED <<client, call, history>>

BeginShutdown ==
  /\ ~client.mutationClosed
  /\ client' = [client EXCEPT !.mutationClosed = TRUE]
  /\ call' = NotifyCalls
  /\ flush' = NotifyFlushes
  /\ UNCHANGED history

Close ==
  /\ ~client.closed
  /\ client' = [client EXCEPT !.closed = TRUE, !.mutationClosed = TRUE]
  /\ call' = NotifyCalls
  /\ flush' = NotifyFlushes
  /\ UNCHANGED history

Next ==
  \/ \E c \in Calls : \/ BeginMutation(c) \/ AdmitMutation(c) \/ CancelAdmission(c)
                      \/ \E unknown \in BOOLEAN : CompleteMutation(c, unknown)
  \/ \E f \in Flushes : BeginFlush(f) \/ CheckFlush(f) \/ CancelFlush(f)
  \/ TakeTransaction \/ BeginShutdown \/ Close

Spec == Init /\ [][Next]_vars

\* Goroutines that can run do, and an operation that runs ends: it has a deadline
\* or its session settles it.  Nothing is cancelled, begun or closed by itself.
Fairness ==
  /\ \A c \in Calls : WF_vars(AdmitMutation(c)) /\ WF_vars(CompleteMutation(c, FALSE))
  /\ \A f \in Flushes : WF_vars(CheckFlush(f))

LiveSpec == Spec /\ Fairness

-----------------------------------------------------------------------------
(***************************************************************************)
(* Properties.                                                             *)
(***************************************************************************)

CallStates ==
  {"idle", "limit", "admitting", "blocked", "woken", "closed", "canceled", "running", "done"}

FlushStates == {"idle", "checking", "blocked", "woken", "flushed", "unknown", "canceled"}

ClientFields ==
  [closed : BOOLEAN, mutationClosed : BOOLEAN, nextMutation : 0..MaxUint64,
   nextTransaction : 0..MaxUint64, pendingMutations : SUBSET (1..MaxUint64),
   retainedMutationBytes : 0..MaxMutationBytes, unknownMutation : 0..MaxUint64]

CallFields ==
  [pc : CallStates, bytes : Nat, sequence : 0..MaxUint64, transaction : 0..MaxUint64]

FlushFields == [pc : FlushStates, watermark : 0..MaxUint64]

\* The fields hold what their Go types allow.
TypeOK ==
  /\ client \in ClientFields
  /\ call \in [Calls -> CallFields]
  /\ flush \in [Flushes -> FlushFields]
  /\ history \in [before : [Flushes -> SUBSET Calls], unknown : SUBSET Calls]

Running == {c \in Calls : call[c].pc = "running"}

\* A Flush that succeeds has waited for every mutation admitted before it, none of
\* which has an unknown outcome; one that reports an unknown outcome names a
\* mutation admitted before it.
FlushCovers ==
  \A f \in Flushes :
    /\ flush[f].pc = "flushed" =>
         history.before[f] \cap (Running \cup history.unknown) = {}
    /\ flush[f].pc = "unknown" => history.before[f] \cap history.unknown # {}

\* Nobody sleeps through what it waits for: a mutation that is blocked does not fit
\* and the client is open; a Flush that is blocked has a mutation to wait for.
NoLostWakeup ==
  /\ \A c \in Calls : call[c].pc = "blocked" => ~Fits(c) /\ ~client.mutationClosed
  /\ \A f \in Flushes : flush[f].pc = "blocked" => Waiting(f)

\* No two mutations are given the same transaction id, and none the id 0, which
\* would ask the session for another: the OSD takes an id it knows for a repetition.
DistinctTransactions ==
  /\ \A c \in Accepted : call[c].transaction # 0
  /\ \A c, d \in Accepted : c # d => call[c].transaction # call[d].transaction

Ended ==
  /\ \A f \in Flushes : flush[f].pc \in {"idle", "flushed", "unknown", "canceled"}
  /\ \A c \in Calls : call[c].pc \in {"idle", "limit", "closed", "canceled", "done"}

=============================================================================
