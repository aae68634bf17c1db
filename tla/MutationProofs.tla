--------------------------- MODULE MutationProofs ---------------------------
(***************************************************************************)
(* Proofs about module Mutation, for any number of calls and flushes and   *)
(* any limits.  The invariant says how the numbers that Flush compares     *)
(* (sequences, the watermark, the first unknown sequence) stand for sets   *)
(* of calls.                                                               *)
(***************************************************************************)
EXTENDS Mutation, FiniteSetTheorems, TLAPS

\* What the proofs need of the types: the fields there are, and which hold numbers.
Typed ==
  /\ DOMAIN client = {"closed", "mutationClosed", "nextMutation", "nextTransaction",
                      "pendingMutations", "retainedMutationBytes", "unknownMutation"}
  /\ client.nextMutation \in 0..MaxUint64 /\ client.nextTransaction \in 0..MaxUint64
  /\ client.unknownMutation \in Nat /\ client.retainedMutationBytes \in Int
  /\ client.pendingMutations \subseteq Nat
  /\ DOMAIN call = Calls
  /\ \A c \in Calls :
       /\ DOMAIN call[c] = {"pc", "bytes", "sequence", "transaction"}
       /\ call[c].bytes \in Nat /\ call[c].sequence \in Nat /\ call[c].transaction \in Nat
  /\ DOMAIN flush = Flushes
  /\ \A f \in Flushes : DOMAIN flush[f] = {"pc", "watermark"} /\ flush[f].watermark \in Nat
  /\ DOMAIN history = {"before", "unknown"}
  /\ DOMAIN history.before = Flushes /\ history.unknown \subseteq Calls

Finite == IsFiniteSet(client.pendingMutations)

\* Sequences are the order of admission; what runs is pending.
Sequenced ==
  /\ \A c \in Calls : /\ call[c].sequence <= client.nextMutation
                      /\ call[c].sequence # 0 <=> call[c].pc \in {"running", "done"}
                      /\ call[c].pc = "running" => call[c].sequence \in client.pendingMutations
  /\ \A c, d \in Accepted : c # d => call[c].sequence # call[d].sequence

\* unknownMutation is the first sequence of an unknown outcome.
Unknowns ==
  /\ \A c \in history.unknown :
       call[c].pc = "done" /\ client.unknownMutation \in 1..call[c].sequence
  /\ client.unknownMutation # 0 =>
       \E c \in history.unknown : call[c].sequence = client.unknownMutation

\* The watermark tells what was admitted before a Flush from what was not.
Watermarks ==
  \A f \in Flushes : flush[f].pc # "idle" =>
    /\ flush[f].watermark <= client.nextMutation
    /\ history.before[f] = {c \in Accepted : call[c].sequence <= flush[f].watermark}

\* Transaction ids are taken in order.
Transactions ==
  /\ client.nextTransaction # 0
  /\ \A c \in Accepted : call[c].transaction \in 1..(client.nextTransaction - 1)

Inv ==
  /\ Typed /\ Finite /\ Sequenced /\ Unknowns /\ Watermarks /\ Transactions
  /\ FlushCovers /\ NoLostWakeup /\ DistinctTransactions

-----------------------------------------------------------------------------
USE MutationAssumption DEF Typed

\* The invariant holds of a new client.
LEMMA InitInv == Init => Inv
<1> SUFFICES ASSUME Init PROVE Inv
  OBVIOUS
<1> USE DEF Init
<1>1. Typed /\ Finite
  BY FS_EmptySet DEF Finite
<1>2. Sequenced /\ Unknowns /\ Watermarks /\ Transactions
  BY DEF Sequenced, Unknowns, Watermarks, Transactions, Accepted
<1>3. FlushCovers /\ NoLostWakeup /\ DistinctTransactions
  BY DEF FlushCovers, NoLostWakeup, DistinctTransactions, Accepted
<1> QED
  BY <1>1, <1>2, <1>3 DEF Inv

\* A call that begins has no sequence yet.
LEMMA BeginMutationInv ==
  ASSUME NEW c \in Calls, Inv, BeginMutation(c)
  PROVE  Inv'
<1> USE DEF Inv, BeginMutation
<1>1. Typed' /\ Finite'
  BY DEF Finite
<1>2. Sequenced'
  BY DEF Sequenced, Accepted
<1>3. Unknowns'
  BY DEF Unknowns, Sequenced
<1>4. Watermarks'
  BY DEF Watermarks, Sequenced, Accepted
<1>5. Transactions' /\ DistinctTransactions'
  BY DEF Transactions, DistinctTransactions, Sequenced, Accepted
<1>6. FlushCovers'
  BY DEF FlushCovers, Sequenced, Unknowns, Watermarks, Running, Accepted
<1>7. NoLostWakeup'
  BY DEF NoLostWakeup, Fits, Waiting
<1> QED
  BY <1>1, <1>2, <1>3, <1>4, <1>5, <1>6, <1>7

\* A call that is cancelled before its admission leaves nothing behind.
LEMMA CancelAdmissionInv ==
  ASSUME NEW c \in Calls, Inv, CancelAdmission(c)
  PROVE  Inv'
<1> USE DEF Inv, CancelAdmission
<1>1. Typed' /\ Finite'
  BY DEF Finite
<1>2. Sequenced'
  BY DEF Sequenced, Accepted
<1>3. Unknowns'
  BY DEF Unknowns, Sequenced
<1>4. Watermarks'
  BY DEF Watermarks, Sequenced, Accepted
<1>5. Transactions' /\ DistinctTransactions'
  BY DEF Transactions, DistinctTransactions, Sequenced, Accepted
<1>6. FlushCovers'
  BY DEF FlushCovers, Sequenced, Unknowns, Watermarks, Running, Accepted
<1>7. NoLostWakeup'
  BY DEF NoLostWakeup, Fits, Waiting
<1> QED
  BY <1>1, <1>2, <1>3, <1>4, <1>5, <1>6, <1>7

\* A call that is refused, or blocked for want of room, changes nothing else.
LEMMA RefuseInv ==
  ASSUME NEW c \in Calls, Inv, call[c].pc \in {"admitting", "woken"},
         NEW pc \in {"closed", "limit", "blocked"},
         pc = "blocked" => ~Fits(c) /\ ~client.mutationClosed,
         call' = [call EXCEPT ![c].pc = pc], UNCHANGED <<client, flush, history>>
  PROVE  Inv'
<1> USE DEF Inv
<1>1. Typed' /\ Finite'
  BY DEF Finite
<1>2. Sequenced'
  BY DEF Sequenced, Accepted
<1>3. Unknowns'
  BY DEF Unknowns, Sequenced
<1>4. Watermarks'
  BY DEF Watermarks, Sequenced, Accepted
<1>5. Transactions' /\ DistinctTransactions'
  BY DEF Transactions, DistinctTransactions, Sequenced, Accepted
<1>6. FlushCovers'
  BY DEF FlushCovers, Sequenced, Unknowns, Watermarks, Running, Accepted
<1>7. NoLostWakeup'
  BY DEF NoLostWakeup, Fits, Waiting
<1> QED
  BY <1>1, <1>2, <1>3, <1>4, <1>5, <1>6, <1>7

\* A finite set does not shrink by an element.
LEMMA AddElement ==
  ASSUME NEW S, NEW x, IsFiniteSet(S)
  PROVE  /\ IsFiniteSet(S \cup {x})
         /\ Cardinality(S) \in Nat /\ Cardinality(S \cup {x}) \in Nat
         /\ Cardinality(S) <= Cardinality(S \cup {x})
<1>1. IsFiniteSet(S \cup {x}) /\ Cardinality(S) \in Nat /\ Cardinality(S \cup {x}) \in Nat
  BY FS_AddElement, FS_CardinalityType
<1>2. Cardinality(S \cup {x}) = IF x \in S THEN Cardinality(S) ELSE Cardinality(S) + 1
  BY FS_AddElement
<1> QED
  BY <1>1, <1>2

\* Admission gives the next sequence, which is above every watermark.
LEMMA AdmitInv ==
  ASSUME NEW c \in Calls, Inv, call[c].pc \in {"admitting", "woken"},
         ~Exhausted, Admit(c), UNCHANGED <<flush, history>>
  PROVE  Inv'
<1> DEFINE next == client.nextMutation + 1
           id == client.nextTransaction
<1> USE DEF Inv
<1>id. /\ next \in 1..MaxUint64 /\ id \in 1..MaxUint64 /\ id + 1 \in 1..MaxUint64
       /\ Successor(client.nextMutation) = next
       /\ TransactionID = id /\ Successor(id) = id + 1
  BY DEF Successor, Exhausted, TransactionID, Transactions
<1>step. /\ client' = [client EXCEPT
           !.nextMutation = next, !.nextTransaction = id + 1,
           !.pendingMutations = client.pendingMutations \cup {next},
           !.retainedMutationBytes = client.retainedMutationBytes + call[c].bytes]
      /\ call' = [call EXCEPT ![c] = [pc |-> "running", bytes |-> call[c].bytes,
                                      sequence |-> next, transaction |-> id]]
  BY <1>id, Zenon DEF Admit
<1> HIDE DEF next, id
<1>1. /\ client'.nextMutation = next /\ client'.nextTransaction = id + 1
      /\ client'.pendingMutations = client.pendingMutations \cup {next}
      /\ client'.retainedMutationBytes = client.retainedMutationBytes + call[c].bytes
      /\ client'.unknownMutation = client.unknownMutation
      /\ client'.mutationClosed = client.mutationClosed
  BY <1>id, <1>step
<1>2. /\ \A d \in Calls \ {c} : call'[d] = call[d]
      /\ call'[c].pc = "running" /\ call'[c].sequence = next
      /\ call'[c].transaction = id /\ call'[c].bytes = call[c].bytes
  BY <1>id, <1>step
<1>3. flush' = flush /\ history' = history
  OBVIOUS
<1>4. c \notin Accepted /\ Accepted' = Accepted \cup {c}
  BY <1>id, <1>step, <1>2 DEF Accepted, Sequenced
<1>5. Typed'
  BY <1>id, <1>step, <1>3
<1>6. /\ Finite'
      /\ Cardinality(client.pendingMutations) \in Nat
      /\ Cardinality(client'.pendingMutations) \in Nat
      /\ Cardinality(client.pendingMutations) <= Cardinality(client'.pendingMutations)
  <2>1. IsFiniteSet(client.pendingMutations)
    BY DEF Finite
  <2> DEFINE S == client.pendingMutations
  <2> HIDE DEF Inv
  <2>2. /\ IsFiniteSet(S \cup {next})
        /\ Cardinality(S) \in Nat /\ Cardinality(S \cup {next}) \in Nat
        /\ Cardinality(S) <= Cardinality(S \cup {next})
    BY <2>1, AddElement
  <2> QED
    BY <1>1, <2>2 DEF Finite
<1>7. Sequenced'
  BY <1>id, <1>step, <1>1, <1>2, <1>4 DEF Sequenced, Accepted, next
<1>8. Unknowns'
  BY <1>1, <1>2, <1>3 DEF Unknowns
<1>9. Watermarks'
  <2> SUFFICES ASSUME NEW f \in Flushes, flush[f].pc # "idle"
               PROVE  /\ flush[f].watermark <= next
                      /\ history.before[f] = {d \in Accepted' : call'[d].sequence <= flush[f].watermark}
    BY <1>1, <1>3 DEF Watermarks
  <2>1. /\ flush[f].watermark \in Nat /\ flush[f].watermark < next
        /\ history.before[f] = {d \in Accepted : call[d].sequence <= flush[f].watermark}
    BY DEF Watermarks, next
  <2>2. \A d \in Accepted : d # c /\ call'[d] = call[d]
    BY <1>2, <1>4 DEF Accepted
  <2> QED
    BY <2>1, <2>2, <1>id, <1>step, <1>2, <1>4
<1>10. Transactions' /\ DistinctTransactions'
  BY <1>id, <1>step, <1>1, <1>2, <1>4 DEF id, Transactions, DistinctTransactions, Accepted
<1>11. \A f \in Flushes : flush[f].pc # "idle" => c \notin history.before[f]
  BY <1>4 DEF Watermarks
<1>12. FlushCovers'
  BY <1>2, <1>3, <1>11 DEF FlushCovers, Running
<1>13. NoLostWakeup'
  BY <1>1, <1>2, <1>3, <1>6 DEF NoLostWakeup, Fits, Waiting
<1> QED
  BY <1>5, <1>6, <1>7, <1>8, <1>9, <1>10, <1>12, <1>13

\* The loop of admission.
LEMMA AdmitMutationInv ==
  ASSUME NEW c \in Calls, Inv, AdmitMutation(c)
  PROVE  Inv'
<1>1. CASE client.closed \/ client.mutationClosed
  BY <1>1, RefuseInv DEF AdmitMutation
<1>2. CASE ~(client.closed \/ client.mutationClosed) /\ ~Fits(c)
  BY <1>2, RefuseInv DEF AdmitMutation
<1>3. CASE ~(client.closed \/ client.mutationClosed) /\ Fits(c) /\ Exhausted
  BY <1>3, RefuseInv DEF AdmitMutation
<1>4. CASE ~(client.closed \/ client.mutationClosed) /\ Fits(c) /\ ~Exhausted
  BY <1>4, AdmitInv DEF AdmitMutation
<1> QED
  BY <1>1, <1>2, <1>3, <1>4

\* Waking up changes nothing but where processes are: nobody stays blocked.
LEMMA NotifyFacts ==
  ASSUME Typed
  PROVE  /\ DOMAIN NotifyCalls = Calls
         /\ \A c \in Calls :
              /\ DOMAIN NotifyCalls[c] = {"pc", "bytes", "sequence", "transaction"}
              /\ NotifyCalls[c].pc = IF call[c].pc = "blocked" THEN "woken" ELSE call[c].pc
              /\ NotifyCalls[c].bytes = call[c].bytes
              /\ NotifyCalls[c].sequence = call[c].sequence
              /\ NotifyCalls[c].transaction = call[c].transaction
         /\ DOMAIN NotifyFlushes = Flushes
         /\ \A f \in Flushes :
              /\ DOMAIN NotifyFlushes[f] = {"pc", "watermark"}
              /\ NotifyFlushes[f].pc = IF flush[f].pc = "blocked" THEN "woken" ELSE flush[f].pc
              /\ NotifyFlushes[f].watermark = flush[f].watermark
  BY DEF NotifyCalls, NotifyFlushes, Woken

\* Completion takes one sequence from what is pending and wakes everybody.
LEMMA CompleteMutationInv ==
  ASSUME NEW c \in Calls, NEW unknown \in BOOLEAN, Inv, CompleteMutation(c, unknown)
  PROVE  Inv'
<1> DEFINE sequence == call[c].sequence
<1> USE DEF Inv
<1>1. /\ client'.nextMutation = client.nextMutation
      /\ client'.nextTransaction = client.nextTransaction
      /\ client'.pendingMutations = client.pendingMutations \ {sequence}
      /\ client'.unknownMutation = FirstUnknown(sequence, unknown)
  BY DEF CompleteMutation
<1>2. /\ \A d \in Calls : /\ call'[d].sequence = call[d].sequence
                          /\ call'[d].transaction = call[d].transaction
                          /\ call'[d].bytes = call[d].bytes
      /\ \A d \in Calls \ {c} :
           call'[d].pc = IF call[d].pc = "blocked" THEN "woken" ELSE call[d].pc
      /\ call'[c].pc = "done" /\ call[c].pc = "running"
  BY NotifyFacts DEF CompleteMutation
<1>3. /\ \A f \in Flushes :
           /\ flush'[f].watermark = flush[f].watermark
           /\ flush'[f].pc = IF flush[f].pc = "blocked" THEN "woken" ELSE flush[f].pc
      /\ history'.before = history.before
      /\ history'.unknown = IF unknown THEN history.unknown \cup {c} ELSE history.unknown
  BY NotifyFacts DEF CompleteMutation
<1>4. Accepted' = Accepted
  BY <1>2 DEF Accepted
<1>5. sequence \in 1..MaxUint64
  BY <1>2 DEF Sequenced
<1>6. FirstUnknown(sequence, unknown) \in Nat
  BY <1>5 DEF FirstUnknown
<1>9. Typed'
  BY <1>6, NotifyFacts DEF CompleteMutation
<1>10. Finite'
  BY <1>1, FS_RemoveElement DEF Finite
<1>11. Sequenced'
  BY <1>1, <1>2, <1>4 DEF Sequenced, Accepted
<1>12. Unknowns'
  <2> DEFINE first == client'.unknownMutation
  <2>1. \A d \in history'.unknown : call'[d].pc = "done" /\ call'[d].sequence \in Nat \ {0}
    BY <1>2, <1>3, <1>5 DEF Unknowns
  <2>2. \A d \in history'.unknown : first \in 1..call'[d].sequence
    BY <1>1, <1>2, <1>3, <1>5, <1>6 DEF Unknowns, FirstUnknown
  <2>3. first # 0 => \E d \in history'.unknown : call'[d].sequence = first
    BY <1>1, <1>2, <1>3 DEF Unknowns, FirstUnknown
  <2> QED
    BY <2>1, <2>2, <2>3 DEF Unknowns
<1>13. Watermarks'
  <2> SUFFICES ASSUME NEW f \in Flushes, flush[f].pc # "idle"
               PROVE  /\ flush[f].watermark <= client.nextMutation
                      /\ history.before[f] = {d \in Accepted : call'[d].sequence <= flush[f].watermark}
    BY <1>1, <1>3, <1>4 DEF Watermarks
  <2>1. \A d \in Accepted : call'[d].sequence = call[d].sequence
    BY <1>2 DEF Accepted
  <2> QED
    BY <2>1 DEF Watermarks
<1>14. Transactions' /\ DistinctTransactions'
  BY <1>1, <1>2, <1>4 DEF Transactions, DistinctTransactions, Accepted
<1>15. FlushCovers'
  BY <1>2, <1>3 DEF FlushCovers, Running
<1>16. NoLostWakeup'
  BY <1>2, <1>3 DEF NoLostWakeup
<1> QED
  BY <1>9, <1>10, <1>11, <1>12, <1>13, <1>14, <1>15, <1>16

\* A Flush takes the last sequence for its watermark.
LEMMA BeginFlushInv ==
  ASSUME NEW f \in Flushes, Inv, BeginFlush(f)
  PROVE  Inv'
<1> USE DEF Inv, BeginFlush
<1>1. Typed' /\ Finite'
  BY DEF Finite, Accepted
<1>2. Sequenced'
  BY DEF Sequenced, Accepted
<1>3. Unknowns'
  BY DEF Unknowns, Sequenced
<1>4. Watermarks'
  BY DEF Watermarks, Sequenced, Accepted
<1>5. Transactions' /\ DistinctTransactions'
  BY DEF Transactions, DistinctTransactions, Sequenced, Accepted
<1>6. FlushCovers'
  BY DEF FlushCovers, Sequenced, Unknowns, Watermarks, Running, Accepted
<1>7. NoLostWakeup'
  BY DEF NoLostWakeup, Fits, Waiting
<1> QED
  BY <1>1, <1>2, <1>3, <1>4, <1>5, <1>6, <1>7

\* A Flush that finds nothing pending up to its watermark covers what came before it.
LEMMA CheckFlushInv ==
  ASSUME NEW f \in Flushes, Inv, CheckFlush(f)
  PROVE  Inv'
<1> USE DEF Inv, CheckFlush, Waiting, Unknown
<1>1. Typed' /\ Finite'
  BY DEF Finite
<1>2. Sequenced'
  BY DEF Sequenced, Accepted
<1>3. Unknowns'
  BY DEF Unknowns, Sequenced
<1>4. Watermarks'
  BY DEF Watermarks, Sequenced, Accepted
<1>5. Transactions' /\ DistinctTransactions'
  BY DEF Transactions, DistinctTransactions, Sequenced, Accepted
<1>6. FlushCovers'
  BY DEF FlushCovers, Sequenced, Unknowns, Watermarks, Running, Accepted
<1>7. NoLostWakeup'
  BY DEF NoLostWakeup, Fits, Waiting
<1> QED
  BY <1>1, <1>2, <1>3, <1>4, <1>5, <1>6, <1>7

\* A Flush that is cancelled reports an unknown outcome only if there is one.
LEMMA CancelFlushInv ==
  ASSUME NEW f \in Flushes, Inv, CancelFlush(f)
  PROVE  Inv'
<1> USE DEF Inv, CancelFlush, Unknown
<1>1. Typed' /\ Finite'
  BY DEF Finite
<1>2. Sequenced'
  BY DEF Sequenced, Accepted
<1>3. Unknowns'
  BY DEF Unknowns, Sequenced
<1>4. Watermarks'
  BY DEF Watermarks, Sequenced, Accepted
<1>5. Transactions' /\ DistinctTransactions'
  BY DEF Transactions, DistinctTransactions, Sequenced, Accepted
<1>6. FlushCovers'
  BY DEF FlushCovers, Sequenced, Unknowns, Watermarks, Running, Accepted
<1>7. NoLostWakeup'
  BY DEF NoLostWakeup, Fits, Waiting
<1> QED
  BY <1>1, <1>2, <1>3, <1>4, <1>5, <1>6, <1>7

\* An id that somebody else takes lies above those of the mutations.
LEMMA TakeTransactionInv ==
  ASSUME Inv, TakeTransaction
  PROVE  Inv'
<1> USE DEF Inv
<1>1. /\ client' = [client EXCEPT !.nextTransaction = client.nextTransaction + 1]
      /\ client.nextTransaction + 1 \in 1..MaxUint64
  BY DEF TakeTransaction, Transactions, Successor, TransactionID
<1>2. call' = call /\ flush' = flush /\ history' = history
  BY DEF TakeTransaction
<1>3. Typed' /\ Finite'
  BY <1>1, <1>2 DEF Finite
<1>4. Sequenced'
  BY <1>1, <1>2 DEF Sequenced, Accepted
<1>5. Unknowns'
  BY <1>1, <1>2 DEF Unknowns
<1>6. Watermarks'
  BY <1>1, <1>2 DEF Watermarks, Accepted
<1>7. Transactions' /\ DistinctTransactions'
  BY <1>1, <1>2 DEF Transactions, DistinctTransactions, Accepted
<1>8. FlushCovers'
  BY <1>1, <1>2 DEF FlushCovers, Running
<1>9. NoLostWakeup'
  BY <1>1, <1>2 DEF NoLostWakeup, Fits, Waiting
<1> QED
  BY <1>3, <1>4, <1>5, <1>6, <1>7, <1>8, <1>9

\* The end of the client wakes everybody.
LEMMA ShutdownInv ==
  ASSUME Inv, BeginShutdown \/ Close
  PROVE  Inv'
<1> USE DEF Inv
<1>1. /\ DOMAIN client' = DOMAIN client
      /\ client'.nextMutation = client.nextMutation
      /\ client'.nextTransaction = client.nextTransaction
      /\ client'.pendingMutations = client.pendingMutations
      /\ client'.retainedMutationBytes = client.retainedMutationBytes
      /\ client'.unknownMutation = client.unknownMutation
  BY DEF BeginShutdown, Close
<1>2. call' = NotifyCalls /\ flush' = NotifyFlushes /\ history' = history
  BY DEF BeginShutdown, Close
<1>3. Typed' /\ Finite'
  BY <1>1, <1>2, NotifyFacts DEF Finite
<1>4. Sequenced'
  BY <1>1, <1>2, NotifyFacts DEF Sequenced, Accepted
<1>5. Unknowns'
  BY <1>1, <1>2, NotifyFacts DEF Unknowns
<1>6. Watermarks'
  BY <1>1, <1>2, NotifyFacts DEF Watermarks, Accepted
<1>7. Transactions' /\ DistinctTransactions'
  BY <1>1, <1>2, NotifyFacts DEF Transactions, DistinctTransactions, Accepted
<1>8. FlushCovers'
  BY <1>1, <1>2, NotifyFacts DEF FlushCovers, Running
<1>9. NoLostWakeup'
  BY <1>1, <1>2, NotifyFacts DEF NoLostWakeup
<1> QED
  BY <1>3, <1>4, <1>5, <1>6, <1>7, <1>8, <1>9

\* Every step keeps the invariant.
LEMMA NextInv == Inv /\ [Next]_vars => Inv'
<1> SUFFICES ASSUME Inv, [Next]_vars PROVE Inv'
  OBVIOUS
<1>1. ASSUME NEW c \in Calls,
             BeginMutation(c) \/ AdmitMutation(c) \/ CancelAdmission(c)
             \/ \E unknown \in BOOLEAN : CompleteMutation(c, unknown)
      PROVE  Inv'
  BY <1>1, BeginMutationInv, AdmitMutationInv, CancelAdmissionInv, CompleteMutationInv
<1>2. ASSUME NEW f \in Flushes, BeginFlush(f) \/ CheckFlush(f) \/ CancelFlush(f)
      PROVE  Inv'
  BY <1>2, BeginFlushInv, CheckFlushInv, CancelFlushInv
<1>3. CASE UNCHANGED vars
  BY <1>3 DEF vars, Inv, Typed, Finite, Sequenced, Unknowns, Watermarks, Transactions,
     FlushCovers, NoLostWakeup, DistinctTransactions, Accepted, Running, Fits, Waiting
<1> QED
  BY <1>1, <1>2, <1>3, TakeTransactionInv, ShutdownInv DEF Next

\* Every reachable state of the client satisfies the invariant.
LEMMA Invariance == Spec => []Inv
  BY InitInv, NextInv, PTL DEF Spec

\* A Flush that succeeds covers every mutation admitted before it, and one that
\* reports an unknown outcome has such a mutation, for any number of callers.
THEOREM FlushIsComplete == Spec => []FlushCovers
<1>1. Inv => FlushCovers
  BY DEF Inv
<1> QED
  BY <1>1, Invariance, PTL

\* No caller that waits for room, and no Flush, misses the change it waits for.
THEOREM WakeupsAreNotLost == Spec => []NoLostWakeup
<1>1. Inv => NoLostWakeup
  BY DEF Inv
<1> QED
  BY <1>1, Invariance, PTL

\* Mutations never share a transaction id, up to the last id there is.
THEOREM TransactionsAreDistinct == Spec => []DistinctTransactions
<1>1. Inv => DistinctTransactions
  BY DEF Inv
<1> QED
  BY <1>1, Invariance, PTL

=============================================================================
