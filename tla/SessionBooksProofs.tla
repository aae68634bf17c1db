------------------------- MODULE SessionBooksProofs -------------------------
(***************************************************************************)
(* The books of the session owner (module Session), for every number of    *)
(* calls, every limit and every peer: its counters are the sizes of its    *)
(* lists, an error that claims a message was not sent is true, no two      *)
(* pending requests share a transaction id, and a delayed acknowledgment   *)
(* has its place in the queue.                                             *)
(*                                                                         *)
(* Few of the owner's methods write in the books: those that settle        *)
(* requests, prepare a replay, admit a request or hand one to the write    *)
(* pump.  The others are put together from these and from steps that leave *)
(* the books as they are (Page).                                           *)
(***************************************************************************)
EXTENDS SessionProofs, FiniteSetTheorems, WellFoundedInduction

Controls(o) == {r \in o.pending : IsControl(o, r)}
Plain(o) == o.pending \ Controls(o)

\* The counters are the sizes of the lists, and these are within their limits.
Counted(o) ==
  /\ o.sent \subseteq o.pending
  /\ o.inFlight = Cardinality(Plain(o) \cap o.sent)
  /\ o.controlCount = Cardinality(Controls(o))
  /\ o.retainedBytes = Cardinality(Plain(o))
  /\ o.inFlight <= MaxInFlightTransactions
  /\ o.controlCount <= MaxControlMessages
  /\ o.retainedBytes <= MaxQueuedMessages
  /\ o.retainedBytes <= MaxRetainedBytes

\* What the caller of a request that was handed to a write pump may be told.
Truthful(o, r, x) ==
  \/ x.err = "none"
  \/ x.unknown = TRUE
  \/ x.err = "invalidated" /\ o.scope[r] # 0
  \/ x.err = "canceled" /\ ~IsControl(o, r)

\* What was handed to a write pump is known to have been as long as it is pending,
\* and its caller is told so afterwards.
Honest(o, called) ==
  /\ o.handed \subseteq called
  /\ o.handed \cap o.pending \subseteq o.mayHaveExecuted
  /\ \A r \in o.handed \ o.pending : \E x : o.result[r] = <<x>> /\ Truthful(o, r, x)

Distinct(o) ==
  /\ o.nextTID \in Nat
  /\ DOMAIN o.tid = Requests
  /\ \A r, q \in o.pending : r # q => o.tid[r] # o.tid[q]

Books(o, called) ==
  /\ IsOwner(o)
  /\ DOMAIN o.kind = Requests /\ DOMAIN o.scope = Requests
  /\ Answers(o, called) /\ Counted(o) /\ Honest(o, called) /\ Distinct(o)

\* The fields that the books are about.
Page(o) ==
  <<o.pending, o.sent, o.mayHaveExecuted, o.kind, o.scope, o.tid, o.result,
    o.retainedBytes, o.controlCount, o.inFlight, o.handed>>

\* p differs from o in nothing the books are about, but for where takeTID starts.
SamePage(o, p) ==
  /\ IsOwner(p)
  /\ Page(p) = Page(o)
  /\ p.nextTID = o.nextTID \/ p.nextTID \in Nat

\* A queue, of whatever it may hold.
Queue(s) == \E S : s \in Seq(S)

\* A delayed acknowledgment is the last message's, and has its place in the queue.
Reserve(o) ==
  /\ Queue(o.controlQueue)
  /\ o.pendingAck # 0 => /\ o.state = "Ready"
                         /\ o.pendingAck = o.lastInbound
                         /\ Len(o.controlQueue) < MaxQueuedMessages

-----------------------------------------------------------------------------
(***************************************************************************)
(* Sizes of sets of requests, queues, and least elements.                  *)
(***************************************************************************)

\* A set of requests has a size.
LEMMA Sizes ==
  ASSUME NEW S \in SUBSET Requests
  PROVE  IsFiniteSet(S) /\ Cardinality(S) \in Nat
<1>1. IsFiniteSet(Requests)
  BY RequestsAssumption, FS_Interval DEF Requests
<1>2. IsFiniteSet(S)
  BY <1>1, FS_Subset
<1> QED BY <1>2, FS_CardinalityType

\* Requests that leave a list reduce its size by their number.
LEMMA SizeWithout ==
  ASSUME NEW S \in SUBSET Requests, NEW T \in SUBSET S
  PROVE  /\ Cardinality(S \ T) = Cardinality(S) - Cardinality(T)
         /\ Cardinality(S \ T) <= Cardinality(S)
<1> DEFINE s == Cardinality(S)
           t == Cardinality(T)
           u == Cardinality(S \ T)
<1>1. IsFiniteSet(S) /\ s \in Nat /\ t \in Nat
  BY Sizes
<1>2. S \cap T = T
  OBVIOUS
<1>3. u = s - t
  BY <1>1, <1>2, FS_Difference, Zenon
<1> HIDE DEF s, t, u
<1>4. u = s - t /\ u <= s
  BY <1>1, <1>3
<1> QED BY <1>4 DEF s, t, u

\* One request more, or one less.
LEMMA SizeWith ==
  ASSUME NEW S \in SUBSET Requests, NEW r \in Requests
  PROVE  /\ r \notin S => Cardinality(S \cup {r}) = Cardinality(S) + 1
         /\ r \in S => Cardinality(S \ {r}) = Cardinality(S) - 1
         /\ Cardinality(S) \in Nat
<1>1. IsFiniteSet(S) /\ Cardinality(S) \in Nat
  BY Sizes
<1> QED BY <1>1, FS_AddElement, FS_RemoveElement

\* A queue is empty, grows by one at its end, or shrinks by one at its head.
LEMMA Queues ==
  /\ Queue(<<>>) /\ Len(<<>>) = 0
  /\ \A s : Queue(s) => Len(s) \in Nat
  /\ \A s, f : Queue(s) => Queue(Append(s, f)) /\ Len(Append(s, f)) = Len(s) + 1
  /\ \A s : Queue(s) /\ s # <<>> => Queue(Tail(s)) /\ Len(Tail(s)) = Len(s) - 1
<1>1. Queue(<<>>) /\ Len(<<>>) = 0
  BY DEF Queue
<1>2. ASSUME NEW s, NEW f, Queue(s)
      PROVE  Len(s) \in Nat /\ Queue(Append(s, f)) /\ Len(Append(s, f)) = Len(s) + 1
  <2>1. PICK S : s \in Seq(S)
    BY <1>2 DEF Queue
  <2> DEFINE T == S \cup {f}
  <2>2. s \in Seq(T) /\ f \in T
    BY <2>1
  <2> HIDE DEF T
  <2>3. Append(s, f) \in Seq(T) /\ Len(Append(s, f)) = Len(s) + 1 /\ Len(s) \in Nat
    BY <2>2
  <2> QED BY <2>3 DEF Queue
<1>3. ASSUME NEW s, Queue(s), s # <<>> PROVE Queue(Tail(s)) /\ Len(Tail(s)) = Len(s) - 1
  <2>1. PICK S : s \in Seq(S)
    BY <1>3 DEF Queue
  <2>2. Tail(s) \in Seq(S) /\ Len(Tail(s)) = Len(s) - 1
    BY <1>3, <2>1
  <2> QED BY <2>2 DEF Queue
<1> QED BY <1>1, <1>2, <1>3

\* The natural numbers are well ordered.
LEMMA Least ==
  ASSUME NEW S \in SUBSET Nat, S # {}
  PROVE  \E n \in S : \A m \in S : n <= m
<1> DEFINE R == OpToRel(<, Nat)
<1>1. IsWellFoundedOn(R, Nat)
  BY NatLessThanWellFounded
<1>2. \A x \in Nat, y \in Nat : x < y => <<x, y>> \in R
  BY DEF OpToRel
<1> HIDE DEF R
<1>3. PICK x \in S : \A y \in S : <<y, x>> \notin R
  BY <1>1, WFMin
<1>4. ASSUME NEW m \in S PROVE x <= m
  <2>1. x \in Nat /\ m \in Nat
    OBVIOUS
  <2>2. ~(m < x)
    BY <1>2, <1>3, <2>1
  <2> QED BY <2>1, <2>2
<1> QED BY <1>4

-----------------------------------------------------------------------------
(***************************************************************************)
(* The steps that write in the books.                                      *)
(***************************************************************************)

\* A step that leaves the fields of the books alone leaves them right.
LEMMA PageBooks ==
  ASSUME NEW o, NEW p, NEW called, Books(o, called), SamePage(o, p)
  PROVE  Books(p, called)
<1>1. /\ p.pending = o.pending /\ p.sent = o.sent /\ p.mayHaveExecuted = o.mayHaveExecuted
      /\ p.kind = o.kind /\ p.scope = o.scope /\ p.tid = o.tid /\ p.result = o.result
      /\ p.retainedBytes = o.retainedBytes /\ p.controlCount = o.controlCount
      /\ p.inFlight = o.inFlight /\ p.handed = o.handed
      /\ IsOwner(p) /\ (p.nextTID = o.nextTID \/ p.nextTID \in Nat)
  BY DEF Page, SamePage
<1>2. Answers(p, called)
  BY <1>1 DEF Books, Answers
<1>3. Counted(p)
  BY <1>1 DEF Books, Counted, Plain, Controls, IsControl
<1>4. Honest(p, called)
  BY <1>1 DEF Books, Honest, Truthful, IsControl
<1>5. Distinct(p)
  BY <1>1 DEF Books, Distinct
<1> QED BY <1>1, <1>2, <1>3, <1>4, <1>5 DEF Books

\* Requests that are removed, by removePending or in one loop, are subtracted from the counters.
LEMMA CountedWithout ==
  ASSUME NEW o, NEW p, o.pending \subseteq Requests, Counted(o), NEW failed \in SUBSET o.pending,
         p.pending = o.pending \ failed, p.sent = o.sent \ failed, p.kind = o.kind,
         NEW C, C = {r \in failed : IsControl(o, r)},
         p.inFlight = o.inFlight - Cardinality((failed \ C) \cap o.sent),
         p.controlCount = o.controlCount - Cardinality(C),
         p.retainedBytes = o.retainedBytes - Cardinality(failed \ C)
  PROVE  Counted(p)
<1> DEFINE M == failed \ C
           N == M \cap o.sent
<1>1. /\ C \in SUBSET Controls(o) /\ Controls(o) \in SUBSET Requests
      /\ Controls(p) = Controls(o) \ C
  BY DEF Controls, IsControl
<1>2. /\ M \in SUBSET Plain(o) /\ Plain(o) \in SUBSET Requests
      /\ Plain(p) = Plain(o) \ M
  BY DEF Plain, Controls, IsControl
<1>3. /\ N \in SUBSET (Plain(o) \cap o.sent) /\ Plain(o) \cap o.sent \in SUBSET Requests
      /\ Plain(p) \cap p.sent = (Plain(o) \cap o.sent) \ N
  <2>1. \A r : r \in Plain(p) <=> r \in Plain(o) /\ r \notin M
    BY <1>2
  <2>2. \A r : r \in p.sent <=> r \in o.sent /\ r \notin failed
    OBVIOUS
  <2>3. \A r : r \in Plain(o) => (r \in failed <=> r \in M)
    BY DEF Plain, Controls
  <2> HIDE DEF M
  <2> QED BY <1>2, <2>1, <2>2, <2>3
<1>4. /\ p.inFlight = o.inFlight - Cardinality(N)
      /\ p.controlCount = o.controlCount - Cardinality(C)
      /\ p.retainedBytes = o.retainedBytes - Cardinality(M)
  OBVIOUS
<1> HIDE DEF M, N
<1>5. /\ p.controlCount = Cardinality(Controls(p))
      /\ p.controlCount <= MaxControlMessages
  <2>1. /\ Cardinality(Controls(p)) = Cardinality(Controls(o)) - Cardinality(C)
        /\ Cardinality(Controls(p)) <= Cardinality(Controls(o))
    BY <1>1, SizeWithout
  <2>2. Cardinality(Controls(p)) \in Nat /\ Cardinality(Controls(o)) \in Nat
    BY <1>1, Sizes
  <2> QED BY <1>4, <2>1, <2>2, ConfigAssumption DEF Counted
<1>6. /\ p.retainedBytes = Cardinality(Plain(p))
      /\ p.retainedBytes <= MaxQueuedMessages /\ p.retainedBytes <= MaxRetainedBytes
  <2>1. /\ Cardinality(Plain(p)) = Cardinality(Plain(o)) - Cardinality(M)
        /\ Cardinality(Plain(p)) <= Cardinality(Plain(o))
    BY <1>2, SizeWithout
  <2>2. Cardinality(Plain(p)) \in Nat /\ Cardinality(Plain(o)) \in Nat
    BY <1>2, Sizes
  <2> QED BY <1>4, <2>1, <2>2, ConfigAssumption DEF Counted
<1>7. /\ p.inFlight = Cardinality(Plain(p) \cap p.sent)
      /\ p.inFlight <= MaxInFlightTransactions
  <2> DEFINE A == Plain(o) \cap o.sent
             B == Plain(p) \cap p.sent
  <2>1. A \in SUBSET Requests /\ N \in SUBSET A /\ B = A \ N
    BY <1>3
  <2>2. o.inFlight = Cardinality(A) /\ o.inFlight <= MaxInFlightTransactions
    BY DEF Counted
  <2> HIDE DEF A, B
  <2>3. /\ Cardinality(B) = Cardinality(A) - Cardinality(N)
        /\ Cardinality(B) <= Cardinality(A)
    BY <2>1, SizeWithout
  <2>4. Cardinality(A) \in Nat /\ Cardinality(B) \in Nat
    BY <2>1, Sizes
  <2>5. p.inFlight = Cardinality(B) /\ p.inFlight <= MaxInFlightTransactions
    BY <1>4, <2>2, <2>3, <2>4, ConfigAssumption
  <2> QED BY <2>5 DEF B
<1>8. p.sent \subseteq p.pending
  BY DEF Counted
<1> QED BY <1>5, <1>6, <1>7, <1>8 DEF Counted

\* Requests are settled, each with one result that is true of what was handed to a write pump.
LEMMA SettledBooks ==
  ASSUME NEW o, NEW p, NEW called, Books(o, called), NEW failed \in SUBSET o.pending,
         IsOwner(p), Counted(p),
         p.pending = o.pending \ failed,
         (o.mayHaveExecuted \cap o.pending) \ failed \subseteq p.mayHaveExecuted,
         p.kind = o.kind, p.scope = o.scope, p.handed = o.handed,
         p.nextTID = o.nextTID, DOMAIN p.tid = Requests, \A r \in p.pending : p.tid[r] = o.tid[r],
         DOMAIN p.result = Requests,
         \A r \in Requests \ failed : p.result[r] = o.result[r],
         \A r \in failed : \E x : /\ p.result[r] = <<x>>
                                  /\ r \in o.handed => Truthful(o, r, x)
  PROVE  Books(p, called)
<1>1. Answers(p, called)
  BY DEF Books, Answers
<1>2. Honest(p, called)
  <2>1. p.handed \subseteq called /\ p.handed \cap p.pending \subseteq p.mayHaveExecuted
    BY DEF Books, Honest
  <2>2. ASSUME NEW r \in p.handed \ p.pending
        PROVE  \E x : p.result[r] = <<x>> /\ Truthful(p, r, x)
    <3>1. r \in Requests
      BY <2>1 DEF Books, Answers
    <3>2. CASE r \in failed
      BY <3>2 DEF Truthful, IsControl
    <3>3. CASE r \notin failed
      <4>1. p.result[r] = o.result[r] /\ r \in o.handed \ o.pending
        BY <3>1, <3>3
      <4>2. PICK x : o.result[r] = <<x>> /\ Truthful(o, r, x)
        BY <4>1 DEF Books, Honest
      <4>3. Truthful(p, r, x)
        BY <4>2 DEF Truthful, IsControl
      <4> QED BY <4>1, <4>2, <4>3
    <3> QED BY <3>2, <3>3
  <2> QED BY <2>1, <2>2 DEF Honest
<1>3. Distinct(p)
  BY DEF Books, Distinct
<1> QED BY <1>1, <1>2, <1>3 DEF Books

\* The fields that Reserve is about.
Acks(o) == <<o.controlQueue, o.pendingAck, o.state, o.lastInbound>>

\* A step that leaves the queue of control frames alone keeps the place in it.
LEMMA SameReserve ==
  ASSUME NEW o, NEW p, Reserve(o), Acks(p) = Acks(o)
  PROVE  Reserve(p)
  BY DEF Reserve, Acks

\* Settle: removePending, and one result.
LEMMA SettleBooks ==
  ASSUME NEW o, NEW called, Books(o, called), NEW r \in o.pending, NEW x,
         r \in o.handed => Truthful(o, r, x)
  PROVE  LET p == Settle(o, r, x)
         IN  /\ Books(p, called) /\ Acks(p) = Acks(o)
             /\ p.controlGeneration = o.controlGeneration
<1> DEFINE q == RemovePending(o, r)
           p == [q EXCEPT !.result[r] = Append(@, x)]
           F == {r}
           C == {f \in F : IsControl(o, f)}
<1>1. /\ IsOwner(q)
      /\ q.pending = o.pending \ F /\ q.sent = o.sent \ F
      /\ q.mayHaveExecuted = o.mayHaveExecuted \ F
      /\ q.inFlight = IF r \in o.sent /\ ~IsControl(o, r) THEN o.inFlight - 1 ELSE o.inFlight
      /\ q.controlCount = IF IsControl(o, r) THEN o.controlCount - 1 ELSE o.controlCount
      /\ q.retainedBytes = IF IsControl(o, r) THEN o.retainedBytes ELSE o.retainedBytes - 1
  BY DEF Books, IsOwner, Fields, RemovePending
<1>2. /\ q.kind = o.kind /\ q.scope = o.scope /\ q.handed = o.handed /\ q.result = o.result
      /\ q.tid = [o.tid EXCEPT ![r] = 0] /\ Acks(q) = Acks(o)
      /\ q.controlGeneration = o.controlGeneration /\ q.nextTID = o.nextTID
  BY DEF Books, IsOwner, Fields, RemovePending, Acks
<1> HIDE DEF q
<1>3. /\ IsOwner(p) /\ p.pending = q.pending /\ p.sent = q.sent
      /\ p.mayHaveExecuted = q.mayHaveExecuted /\ p.inFlight = q.inFlight
      /\ p.controlCount = q.controlCount /\ p.retainedBytes = q.retainedBytes
      /\ p.kind = q.kind /\ p.scope = q.scope /\ p.handed = q.handed /\ p.tid = q.tid
      /\ p.result = [q.result EXCEPT ![r] = Append(@, x)]
      /\ Acks(p) = Acks(q) /\ p.controlGeneration = q.controlGeneration
      /\ p.nextTID = q.nextTID
  BY <1>1 DEF IsOwner, Fields, Acks
<1> HIDE DEF p
<1>4. r \in Requests /\ o.pending \subseteq Requests /\ o.result[r] = <<>>
      /\ DOMAIN o.result = Requests /\ DOMAIN o.tid = Requests
  BY DEF Books, Answers, Distinct
<1>5. Counted(p)
  <2>1. Cardinality({}) = 0 /\ Cardinality(F) = 1
    BY FS_EmptySet, FS_Singleton
  <2>2. /\ o.inFlight \in Nat /\ o.controlCount \in Nat /\ o.retainedBytes \in Nat
    <3>1. Plain(o) \in SUBSET Requests /\ Plain(o) \cap o.sent \in SUBSET Requests
          /\ Controls(o) \in SUBSET Requests
      BY <1>4 DEF Plain, Controls
    <3> QED BY <3>1, Sizes DEF Books, Counted
  <2>6. /\ o.pending \subseteq Requests /\ Counted(o) /\ F \in SUBSET o.pending
        /\ p.pending = o.pending \ F /\ p.sent = o.sent \ F /\ p.kind = o.kind
        /\ C = {f \in F : IsControl(o, f)}
    BY <1>1, <1>2, <1>3, <1>4 DEF Books
  <2>3. CASE IsControl(o, r)
    <3>1. C = F /\ F \ C = {} /\ (F \ C) \cap o.sent = {}
      BY <2>3
    <3>2. /\ p.inFlight = o.inFlight - Cardinality((F \ C) \cap o.sent)
          /\ p.controlCount = o.controlCount - Cardinality(C)
          /\ p.retainedBytes = o.retainedBytes - Cardinality(F \ C)
      <4> DEFINE a == Cardinality((F \ C) \cap o.sent)
                 b == Cardinality(C)
                 d == Cardinality(F \ C)
      <4>1. a = 0 /\ b = 1 /\ d = 0
        <5> HIDE DEF C, F
        <5> QED BY <2>1, <3>1, Zenon
      <4> HIDE DEF a, b, d
      <4>2. p.inFlight = o.inFlight - a /\ p.controlCount = o.controlCount - b
            /\ p.retainedBytes = o.retainedBytes - d
        BY <1>1, <1>3, <2>2, <2>3, <4>1
      <4> QED BY <4>2 DEF a, b, d
    <3> QED BY <2>6, <3>2, CountedWithout, Zenon
  <2>4. CASE ~IsControl(o, r) /\ r \in o.sent
    <3>1. C = {} /\ F \ C = F /\ (F \ C) \cap o.sent = F
      BY <2>4
    <3>2. /\ p.inFlight = o.inFlight - Cardinality((F \ C) \cap o.sent)
          /\ p.controlCount = o.controlCount - Cardinality(C)
          /\ p.retainedBytes = o.retainedBytes - Cardinality(F \ C)
      <4> DEFINE a == Cardinality((F \ C) \cap o.sent)
                 b == Cardinality(C)
                 d == Cardinality(F \ C)
      <4>1. a = 1 /\ b = 0 /\ d = 1
        <5> HIDE DEF C, F
        <5> QED BY <2>1, <3>1, Zenon
      <4> HIDE DEF a, b, d
      <4>2. p.inFlight = o.inFlight - a /\ p.controlCount = o.controlCount - b
            /\ p.retainedBytes = o.retainedBytes - d
        BY <1>1, <1>3, <2>2, <2>4, <4>1
      <4> QED BY <4>2 DEF a, b, d
    <3> QED BY <2>6, <3>2, CountedWithout, Zenon
  <2>5. CASE ~IsControl(o, r) /\ r \notin o.sent
    <3>1. C = {} /\ F \ C = F /\ (F \ C) \cap o.sent = {}
      BY <2>5
    <3>2. /\ p.inFlight = o.inFlight - Cardinality((F \ C) \cap o.sent)
          /\ p.controlCount = o.controlCount - Cardinality(C)
          /\ p.retainedBytes = o.retainedBytes - Cardinality(F \ C)
      <4> DEFINE a == Cardinality((F \ C) \cap o.sent)
                 b == Cardinality(C)
                 d == Cardinality(F \ C)
      <4>1. a = 0 /\ b = 0 /\ d = 1
        <5> HIDE DEF C, F
        <5> QED BY <2>1, <3>1, Zenon
      <4> HIDE DEF a, b, d
      <4>2. p.inFlight = o.inFlight - a /\ p.controlCount = o.controlCount - b
            /\ p.retainedBytes = o.retainedBytes - d
        BY <1>1, <1>3, <2>2, <2>5, <4>1
      <4> QED BY <4>2 DEF a, b, d
    <3> QED BY <2>6, <3>2, CountedWithout, Zenon
  <2> QED BY <2>3, <2>4, <2>5
<1>6. p.result[r] = <<x>> /\ DOMAIN p.result = Requests
  BY <1>2, <1>3, <1>4, AppendEmpty
<1>7. \A f \in Requests \ F : p.result[f] = o.result[f]
  BY <1>2, <1>3, <1>4
<1>8. /\ \A f \in F : \E y : p.result[f] = <<y>> /\ (f \in o.handed => Truthful(o, f, y))
      /\ F \in SUBSET o.pending /\ p.pending = o.pending \ F
      /\ (o.mayHaveExecuted \cap o.pending) \ F \subseteq p.mayHaveExecuted
  BY <1>1, <1>3, <1>6
<1>9. /\ DOMAIN p.tid = Requests /\ \A f \in p.pending : p.tid[f] = o.tid[f]
      /\ IsOwner(p) /\ p.kind = o.kind /\ p.scope = o.scope /\ p.handed = o.handed
      /\ p.nextTID = o.nextTID
  BY <1>1, <1>2, <1>3, <1>4
<1> HIDE DEF F
<1>10. Books(p, called)
  BY <1>5, <1>6, <1>7, <1>8, <1>9, SettledBooks
<1> QED BY <1>2, <1>3, <1>10 DEF Settle, p, q

\* Requests settled in one loop, with a result that is true of each of them.
LEMMA SettleAllBooks ==
  ASSUME NEW o, NEW called, Books(o, called), NEW failed \in SUBSET o.pending, NEW x,
         \A r \in failed \cap o.handed : Truthful(o, r, x)
  PROVE  LET p == SettleAll(o, failed, x)
         IN  Books(p, called) /\ Acks(p) = Acks(o)
<1> DEFINE p == SettleAll(o, failed, x)
<1>1. /\ IsOwner(p)
      /\ p.pending = o.pending \ failed /\ p.sent = o.sent \ failed
      /\ p.mayHaveExecuted = o.mayHaveExecuted \ failed
      /\ p.inFlight = o.inFlight
           - Cardinality((failed \ {r \in failed : IsControl(o, r)}) \cap o.sent)
      /\ p.controlCount = o.controlCount - Cardinality({r \in failed : IsControl(o, r)})
      /\ p.retainedBytes = o.retainedBytes
           - Cardinality(failed \ {r \in failed : IsControl(o, r)})
  BY DEF Books, IsOwner, Fields, SettleAll
<1>2. /\ p.kind = o.kind /\ p.scope = o.scope /\ p.handed = o.handed
      /\ p.tid = [r \in Requests |-> IF r \in failed THEN 0 ELSE o.tid[r]]
      /\ p.result = [r \in Requests |-> IF r \in failed THEN Append(o.result[r], x)
                                                        ELSE o.result[r]]
      /\ Acks(p) = Acks(o) /\ p.nextTID = o.nextTID
  BY DEF Books, IsOwner, Fields, SettleAll, Acks
<1> HIDE DEF p
<1>3. o.pending \subseteq Requests
  BY DEF Books, Answers
<1>4. Counted(p)
  <2> DEFINE C == {r \in failed : IsControl(o, r)}
  <2>1. /\ C = {r \in failed : IsControl(o, r)}
        /\ p.inFlight = o.inFlight - Cardinality((failed \ C) \cap o.sent)
        /\ p.controlCount = o.controlCount - Cardinality(C)
        /\ p.retainedBytes = o.retainedBytes - Cardinality(failed \ C)
    BY <1>1
  <2> HIDE DEF C
  <2>2. /\ Counted(o) /\ o.pending \subseteq Requests /\ failed \in SUBSET o.pending
        /\ p.pending = o.pending \ failed /\ p.sent = o.sent \ failed /\ p.kind = o.kind
    BY <1>1, <1>2, <1>3 DEF Books
  <2> QED BY <2>1, <2>2, CountedWithout, Zenon
<1>5. ASSUME NEW r \in failed PROVE p.result[r] = <<x>>
  <2>1. o.result[r] = <<>>
    BY <1>5 DEF Books, Answers
  <2>2. p.result[r] = Append(o.result[r], x)
    BY <1>2, <1>3, <1>5
  <2> QED BY <2>1, <2>2, AppendEmpty
<1>6. /\ DOMAIN p.result = Requests /\ DOMAIN p.tid = Requests
      /\ \A r \in Requests \ failed : p.result[r] = o.result[r]
      /\ \A r \in p.pending : p.tid[r] = o.tid[r]
  BY <1>1, <1>2, <1>3
<1>7. Books(p, called)
  BY <1>1, <1>2, <1>4, <1>5, <1>6, SettledBooks
<1> QED BY <1>2, <1>7 DEF p

\* failAll clears the lists and the counters, whatever they held.
LEMMA FailAllBooks ==
  ASSUME NEW o, NEW called, Books(o, called), NEW err
  PROVE  LET p == FailAll(o, err)
         IN  Books(p, called) /\ Acks(p) = Acks(o)
<1> DEFINE p == FailAll(o, err)
           X(r) == IF r \in o.mayHaveExecuted THEN OutcomeUnknown(err) ELSE Failure(err)
<1>1. /\ IsOwner(p)
      /\ p.pending = {} /\ p.sent = {} /\ p.mayHaveExecuted = {}
      /\ p.inFlight = 0 /\ p.controlCount = 0 /\ p.retainedBytes = 0
      /\ p.kind = o.kind /\ p.scope = o.scope /\ p.handed = o.handed
      /\ p.tid = [r \in Requests |-> 0]
      /\ p.result = [r \in Requests |-> IF r \notin o.pending THEN o.result[r]
                                        ELSE Append(o.result[r], X(r))]
      /\ Acks(p) = Acks(o) /\ p.nextTID = o.nextTID
  BY DEF Books, IsOwner, Fields, FailAll, Acks
<1> HIDE DEF p
<1>2. o.pending \subseteq Requests
  BY DEF Books, Answers
<1>3. Counted(p)
  <2>1. Plain(p) \cap p.sent = {} /\ Plain(p) = {} /\ Controls(p) = {}
    BY <1>1 DEF Plain, Controls
  <2> QED BY <1>1, <2>1, FS_EmptySet, ConfigAssumption DEF Counted
<1>4. ASSUME NEW r \in o.pending
      PROVE  p.result[r] = <<X(r)>> /\ (r \in o.handed => Truthful(o, r, X(r)))
  <2>1. p.result[r] = <<X(r)>>
    <3> HIDE DEF X
    <3>1. o.result[r] = <<>>
      BY <1>4 DEF Books, Answers
    <3>2. p.result[r] = Append(o.result[r], X(r))
      BY <1>1, <1>2, <1>4
    <3> QED BY <3>1, <3>2, AppendEmpty
  <2>2. ASSUME r \in o.handed PROVE Truthful(o, r, X(r))
    <3>1. r \in o.mayHaveExecuted
      BY <1>4, <2>2 DEF Books, Honest
    <3> QED BY <3>1 DEF Truthful, OutcomeUnknown
  <2> QED BY <2>1, <2>2
<1>5. \A r \in Requests \ o.pending : p.result[r] = o.result[r]
  BY <1>1
<1>6. DOMAIN p.result = Requests /\ DOMAIN p.tid = Requests
  BY <1>1
<1>7. o.pending \in SUBSET o.pending /\ p.pending = o.pending \ o.pending
      /\ (o.mayHaveExecuted \cap o.pending) \ o.pending \subseteq p.mayHaveExecuted
  BY <1>1
<1> HIDE DEF X
<1>8. Books(p, called)
  BY <1>1, <1>3, <1>4, <1>5, <1>6, <1>7, SettledBooks
<1> QED BY <1>1, <1>8 DEF p

\* The requests a lossy or unknown peer may have executed fail as such.
LEMMA FailSentUnknownBooks ==
  ASSUME NEW o, NEW called, Books(o, called), NEW err
  PROVE  LET p == FailSentUnknown(o, err)
         IN  Books(p, called) /\ Acks(p) = Acks(o)
<1> DEFINE q == SettleAll(o, o.pending \cap o.sent, OutcomeUnknown(err))
           p == [q EXCEPT !.replay = <<>>]
<1>1. Books(q, called) /\ Acks(q) = Acks(o)
  <2>1. \A r \in (o.pending \cap o.sent) \cap o.handed : Truthful(o, r, OutcomeUnknown(err))
    BY DEF Truthful, OutcomeUnknown
  <2> QED BY <2>1, SettleAllBooks
<1> HIDE DEF q
<1>2. SamePage(q, p) /\ Acks(p) = Acks(q)
  BY <1>1 DEF Books, IsOwner, Fields, SamePage, Page, Acks
<1> HIDE DEF p
<1>3. Books(p, called)
  BY <1>1, <1>2, PageBooks
<1> QED BY <1>1, <1>2, <1>3 DEF FailSentUnknown, p, q

\* Scoped controls are told that their transport is gone.
LEMMA InvalidateControlsBooks ==
  ASSUME NEW o, NEW called, Books(o, called)
  PROVE  LET p == InvalidateControls(o)
         IN  Books(p, called) /\ Acks(p) = Acks(o)
<1> DEFINE S == {r \in o.pending : o.scope[r] # 0}
           q == SettleAll(o, S, Failure("invalidated"))
           p == [q EXCEPT !.receiveQueue = <<>>, !.controlGeneration = @ + 1]
<1>1. Books(q, called) /\ Acks(q) = Acks(o)
  <2>1. \A r \in S \cap o.handed : Truthful(o, r, Failure("invalidated"))
    BY DEF Truthful, Failure
  <2> QED BY <2>1, SettleAllBooks
<1> HIDE DEF q
<1>2. SamePage(q, p) /\ Acks(p) = Acks(q)
  BY <1>1 DEF Books, IsOwner, Fields, SamePage, Page, Acks
<1> HIDE DEF p
<1>3. Books(p, called)
  BY <1>1, <1>2, PageBooks
<1> QED BY <1>1, <1>2, <1>3 DEF InvalidateControls, p, q

\* What is written again is not in flight until it is.
LEMMA PrepareReplayBooks ==
  ASSUME NEW o, NEW called, Books(o, called)
  PROVE  LET p == PrepareReplay(o)
         IN  Books(p, called) /\ Acks(p) = Acks(o)
<1> DEFINE again == {r \in o.pending \cap o.sent : InReplay(o, r)}
           N == {r \in again : ~IsControl(o, r)}
           p == PrepareReplay(o)
<1>1. /\ IsOwner(p) /\ p.sent = o.sent \ again /\ p.inFlight = o.inFlight - Cardinality(N)
      /\ p.pending = o.pending /\ p.mayHaveExecuted = o.mayHaveExecuted
      /\ p.kind = o.kind /\ p.scope = o.scope /\ p.tid = o.tid /\ p.result = o.result
      /\ p.retainedBytes = o.retainedBytes /\ p.controlCount = o.controlCount
      /\ p.handed = o.handed /\ p.nextTID = o.nextTID /\ Acks(p) = Acks(o)
  BY DEF Books, IsOwner, Fields, PrepareReplay, Acks
<1> HIDE DEF p
<1>2. Controls(p) = Controls(o) /\ Plain(p) = Plain(o) /\ Plain(o) \subseteq o.pending
  BY <1>1 DEF Controls, Plain, IsControl
<1>3. Counted(p)
  <2> DEFINE A == Plain(o) \cap o.sent
             B == Plain(p) \cap p.sent
  <2>1. N \in SUBSET A /\ A \in SUBSET Requests
    BY <1>2 DEF Plain, Controls, Books, Answers
  <2>2. \A r : r \in Plain(o) => (r \in again <=> r \in N)
    BY DEF Plain, Controls
  <2> HIDE DEF N, again
  <2>3. B = A \ N
    BY <1>1, <1>2, <2>1, <2>2
  <2>4. o.inFlight = Cardinality(A) /\ o.inFlight <= MaxInFlightTransactions
    BY DEF Books, Counted
  <2> HIDE DEF A, B
  <2>5. /\ Cardinality(B) = Cardinality(A) - Cardinality(N)
        /\ Cardinality(B) <= Cardinality(A)
    BY <2>1, <2>3, SizeWithout
  <2>6. Cardinality(A) \in Nat /\ Cardinality(B) \in Nat
    BY <2>1, <2>3, Sizes
  <2>7. p.inFlight = Cardinality(B) /\ p.inFlight <= MaxInFlightTransactions
    BY <1>1, <2>4, <2>5, <2>6, ConfigAssumption
  <2>8. p.inFlight = Cardinality(Plain(p) \cap p.sent)
    BY <2>7 DEF B
  <2>9. p.sent \subseteq p.pending
    BY <1>1 DEF Books, Counted
  <2> QED BY <1>1, <1>2, <2>7, <2>8, <2>9 DEF Books, Counted
<1>4. Answers(p, called) /\ Distinct(p)
  BY <1>1 DEF Books, Answers, Distinct
<1>5. Honest(p, called)
  BY <1>1 DEF Books, Honest, Truthful, IsControl
<1>6. Books(p, called)
  BY <1>1, <1>3, <1>4, <1>5 DEF Books
<1> QED BY <1>1, <1>6 DEF p

-----------------------------------------------------------------------------
(***************************************************************************)
(* Losing the transport, and control frames.                               *)
(***************************************************************************)

\* The owner's books and its queue are in order.
Good(o, called) == Books(o, called) /\ Reserve(o)

\* No acknowledgment is delayed.
Calm(o) == o.pendingAck = 0 /\ Queue(o.controlQueue)

\* Without a delayed acknowledgment nothing has to be kept free.
LEMMA CalmReserve == ASSUME NEW o, Calm(o) PROVE Reserve(o)
  BY DEF Calm, Reserve

\* A delayed acknowledgment is forgotten, controls are invalidated and the transport is closed.
LEMMA LostBooks ==
  ASSUME NEW o, NEW called, Books(o, called)
  PROVE  LET p == CloseTransport(InvalidateControls(ClearPendingAcknowledgment(o)))
         IN  Books(p, called) /\ Calm(p)
<1> DEFINE a == ClearPendingAcknowledgment(o)
           b == InvalidateControls(a)
           p == CloseTransport(b)
<1>1. SamePage(o, a) /\ a.pendingAck = 0
  BY DEF Books, IsOwner, Fields, SamePage, Page, ClearPendingAcknowledgment
<1> HIDE DEF a
<1>2. Books(b, called) /\ b.pendingAck = 0
  BY <1>1, PageBooks, InvalidateControlsBooks DEF Acks
<1> HIDE DEF b
<1>3. SamePage(b, p) /\ p.pendingAck = 0 /\ p.controlQueue = <<>>
  BY <1>2 DEF Books, IsOwner, Fields, SamePage, Page, CloseTransport
<1> HIDE DEF p
<1>4. Books(p, called) /\ Calm(p)
  BY <1>2, <1>3, PageBooks, Queues DEF Calm
<1> QED BY <1>4 DEF p, b, a

\* failTerminal settles everything.
LEMMA FailTerminalBooks ==
  ASSUME NEW o, NEW called, Books(o, called)
  PROVE  LET p == FailTerminal(o) IN Books(p, called) /\ Calm(p)
<1> DEFINE a == CloseTransport(InvalidateControls(ClearPendingAcknowledgment(o)))
           b == FailAll(a, "terminal")
           p == [b EXCEPT !.generation = @ + 1, !.terminal = TRUE, !.connectPending = FALSE,
                          !.state = "Disconnected"]
<1>1. Books(a, called) /\ Calm(a)
  BY LostBooks
<1> HIDE DEF a
<1>2. Books(b, called) /\ Acks(b) = Acks(a)
  BY <1>1, FailAllBooks
<1>3. Calm(b)
  BY <1>1, <1>2 DEF Calm, Acks
<1> HIDE DEF b
<1>4. SamePage(b, p) /\ p.pendingAck = b.pendingAck /\ p.controlQueue = b.controlQueue
  BY <1>2 DEF Books, IsOwner, Fields, SamePage, Page
<1> HIDE DEF p
<1>5. Books(p, called) /\ Calm(p)
  BY <1>2, <1>3, <1>4, PageBooks DEF Calm
<1> QED BY <1>5 DEF FailTerminal, p, b, a

\* beginReconnect asks the connector, or gives up.
LEMMA BeginReconnectBooks ==
  ASSUME NEW o, NEW called, Books(o, called), Calm(o)
  PROVE  LET p == BeginReconnect(o) IN Books(p, called) /\ Calm(p)
<1> DEFINE p == [o EXCEPT !.reconnectAttempts = @ + 1, !.connectPending = TRUE,
                          !.generation = @ + 1, !.connecting = o.generation + 1,
                          !.stuck = @ \/ o.connecting # 0 \/ o.terminal]
<1>1. SamePage(o, p) /\ p.pendingAck = o.pendingAck /\ p.controlQueue = o.controlQueue
  BY DEF Books, IsOwner, Fields, SamePage, Page
<1>2. BeginReconnect(o) = FailTerminal(o) \/ BeginReconnect(o) = p
  BY DEF BeginReconnect
<1> HIDE DEF p
<1>3. Books(p, called) /\ Calm(p)
  BY <1>1, PageBooks DEF Calm
<1> QED BY <1>2, <1>3, FailTerminalBooks

\* resetForNewIdentity settles everything and starts the numbers again.
LEMMA ResetForNewIdentityBooks ==
  ASSUME NEW o, NEW called, Books(o, called), Queue(o.controlQueue)
  PROVE  LET p == ResetForNewIdentity(o) IN Books(p, called) /\ Calm(p)
<1> DEFINE a == ClearPendingAcknowledgment(o)
           b == FailAll(a, "disconnected")
           p == [b EXCEPT !.serverCookie = 0, !.lossy = FALSE, !.connectSeq = 0,
                          !.lastInbound = 0, !.nextOutbound = 1, !.sequenceExhausted = FALSE,
                          !.nextTID = 1, !.tidExhausted = FALSE]
<1>1. SamePage(o, a) /\ a.pendingAck = 0 /\ a.controlQueue = o.controlQueue
  BY DEF Books, IsOwner, Fields, SamePage, Page, ClearPendingAcknowledgment
<1> HIDE DEF a
<1>2. Books(b, called) /\ b.pendingAck = 0 /\ b.controlQueue = o.controlQueue
  BY <1>1, PageBooks, FailAllBooks DEF Acks
<1> HIDE DEF b
<1>3. SamePage(b, p) /\ p.pendingAck = 0 /\ p.controlQueue = o.controlQueue
  BY <1>2 DEF Books, IsOwner, Fields, SamePage, Page
<1> HIDE DEF p
<1>4. Books(p, called) /\ Calm(p)
  BY <1>2, <1>3, PageBooks DEF Calm
<1> QED BY <1>4 DEF ResetForNewIdentity, p, b, a

\* handleFault settles what its policy says and asks for a transport.
LEMMA HandleFaultBooks ==
  ASSUME NEW o, NEW called, Good(o, called)
  PROVE  Good(HandleFault(o), called)
<1> DEFINE closed == CloseTransport(InvalidateControls(ClearPendingAcknowledgment(o)))
           settled == IF closed.lossy
                      THEN ResetForNewIdentity(FailSentUnknown(closed, "disconnected"))
                      ELSE IF ReconnectPolicy = "FailPending"
                      THEN FailAll(closed, "disconnected")
                      ELSE IF closed.serverCookie = 0
                      THEN FailSentUnknown(closed, "disconnected")
                      ELSE PrepareReplay(closed)
           p == [settled EXCEPT !.state = "Disconnected"]
<1>1. HandleFault(o) = o \/ HandleFault(o) = BeginReconnect(p)
  BY DEF HandleFault
<1>2. Books(closed, called) /\ Calm(closed)
  BY LostBooks DEF Good
<1> HIDE DEF closed
<1>3. Books(FailSentUnknown(closed, "disconnected"), called)
      /\ Calm(FailSentUnknown(closed, "disconnected"))
  BY <1>2, FailSentUnknownBooks DEF Calm, Acks
<1>4. Books(FailAll(closed, "disconnected"), called) /\ Calm(FailAll(closed, "disconnected"))
  BY <1>2, FailAllBooks DEF Calm, Acks
<1>5. Books(PrepareReplay(closed), called) /\ Calm(PrepareReplay(closed))
  BY <1>2, PrepareReplayBooks DEF Calm, Acks
<1>6. /\ Books(ResetForNewIdentity(FailSentUnknown(closed, "disconnected")), called)
      /\ Calm(ResetForNewIdentity(FailSentUnknown(closed, "disconnected")))
  BY <1>3, ResetForNewIdentityBooks DEF Calm
<1>7. Books(settled, called) /\ Calm(settled)
  BY <1>3, <1>4, <1>5, <1>6
<1> HIDE DEF settled
<1>8. SamePage(settled, p) /\ p.pendingAck = settled.pendingAck
      /\ p.controlQueue = settled.controlQueue
  BY <1>7 DEF Books, IsOwner, Fields, SamePage, Page
<1> HIDE DEF p
<1>9. Books(p, called) /\ Calm(p)
  BY <1>7, <1>8, PageBooks DEF Calm
<1> QED BY <1>1, <1>9, BeginReconnectBooks, CalmReserve DEF Good

\* queueControl keeps the place of a delayed acknowledgment free, or faults.
LEMMA QueueControlBooks ==
  ASSUME NEW o, NEW called, NEW frame, Good(o, called)
  PROVE  Good(QueueControl(o, frame), called)
<1> DEFINE p == [o EXCEPT !.controlQueue = Append(@, frame)]
           n == Len(o.controlQueue) + (IF o.pendingAck # 0 THEN 1 ELSE 0)
<1>1. QueueControl(o, frame) = IF n >= MaxQueuedMessages THEN HandleFault(o) ELSE p
  BY DEF QueueControl
<1>2. SamePage(o, p) /\ p.controlQueue = Append(o.controlQueue, frame)
      /\ p.pendingAck = o.pendingAck /\ p.state = o.state /\ p.lastInbound = o.lastInbound
  BY DEF Good, Books, IsOwner, Fields, SamePage, Page
<1> HIDE DEF p
<1>3. Queue(p.controlQueue) /\ Len(p.controlQueue) = Len(o.controlQueue) + 1
      /\ Len(o.controlQueue) \in Nat
  BY <1>2, Queues DEF Good, Reserve
<1>4. ASSUME ~(n >= MaxQueuedMessages) PROVE Reserve(p)
  <2>1. o.pendingAck # 0 => Len(p.controlQueue) < MaxQueuedMessages
    BY <1>3, <1>4, ConfigAssumption
  <2> QED BY <1>2, <1>3, <2>1 DEF Good, Reserve
<1>5. Books(p, called)
  BY <1>2, PageBooks DEF Good
<1>6. CASE n >= MaxQueuedMessages
  BY <1>1, <1>6, HandleFaultBooks
<1>7. CASE ~(n >= MaxQueuedMessages)
  BY <1>1, <1>4, <1>5, <1>7 DEF Good
<1> QED BY <1>6, <1>7

\* The ack timer, or dispatch before a renewal: the delayed acknowledgment takes its place.
LEMMA FlushBooks ==
  ASSUME NEW o, NEW called, Good(o, called)
  PROVE  Good(FlushPendingAcknowledgment(o), called)
<1> DEFINE p == ClearPendingAcknowledgment(o)
<1>1. SamePage(o, p) /\ p.pendingAck = 0 /\ p.controlQueue = o.controlQueue
  BY DEF Good, Books, IsOwner, Fields, SamePage, Page, ClearPendingAcknowledgment
<1> HIDE DEF p
<1>2. Good(p, called)
  BY <1>1, PageBooks, CalmReserve DEF Good, Reserve, Calm
<1>3. FlushPendingAcknowledgment(o) = o
      \/ FlushPendingAcknowledgment(o) = QueueControl(p, AckFrame(o.pendingAck))
  BY DEF FlushPendingAcknowledgment, p
<1> QED BY <1>2, <1>3, QueueControlBooks

\* An acknowledgment is delayed only when the queue has a place for it.
LEMMA QueueAcknowledgmentBooks ==
  ASSUME NEW o, NEW called, Books(o, called), Queue(o.controlQueue), o.state = "Ready",
         o.pendingAck # 0 => Len(o.controlQueue) < MaxQueuedMessages
  PROVE  Good(QueueAcknowledgment(o, o.lastInbound), called)
<1> DEFINE p == [o EXCEPT !.pendingAck = o.lastInbound]
           full == o.pendingAck = 0 /\ Len(o.controlQueue) >= MaxQueuedMessages
<1>1. QueueAcknowledgment(o, o.lastInbound) = IF full THEN HandleFault(o) ELSE p
  BY DEF QueueAcknowledgment
<1>2. SamePage(o, p) /\ p.controlQueue = o.controlQueue
      /\ p.pendingAck = o.lastInbound /\ p.state = o.state /\ p.lastInbound = o.lastInbound
  BY DEF Books, IsOwner, Fields, SamePage, Page
<1> HIDE DEF p
<1>3. CASE full
  BY <1>1, <1>3, HandleFaultBooks, CalmReserve DEF Good, Calm
<1>4. CASE ~full
  <2>1. Len(o.controlQueue) \in Nat
    BY Queues
  <2>2. Len(o.controlQueue) < MaxQueuedMessages
    BY <1>4, <2>1, ConfigAssumption
  <2>3. Books(p, called) /\ Reserve(p)
    BY <1>2, <2>2, PageBooks DEF Reserve
  <2> QED BY <1>1, <1>4, <2>3 DEF Good
<1> QED BY <1>3, <1>4

\* SESSION_RECONNECT is the first frame of its transport.
LEMMA SendReconnectBooks ==
  ASSUME NEW o, NEW called, Books(o, called), o.pendingAck = 0
  PROVE  Good(SendReconnect(o), called)
<1> DEFINE p == [o EXCEPT !.controlQueue = <<>>]
<1>1. SamePage(o, p) /\ p.pendingAck = 0 /\ p.controlQueue = <<>>
  BY DEF Books, IsOwner, Fields, SamePage, Page
<1> HIDE DEF p
<1>2. Good(p, called)
  BY <1>1, PageBooks, CalmReserve, Queues DEF Good, Calm
<1> QED BY <1>2, QueueControlBooks DEF SendReconnect, p

\* handleConnected: whatever the connector answers, the books stay right.
LEMMA HandleConnectedBooks ==
  ASSUME NEW o, NEW called, NEW outcome, Good(o, called), o.pendingAck = 0
  PROVE  Good(HandleConnected(o, outcome), called)
<1> DEFINE idle == [o EXCEPT !.connecting = 0]
           taken == [idle EXCEPT !.connectPending = FALSE]
           opened == [taken EXCEPT !.transitions = 0]
           fresh == [opened EXCEPT !.connectedOnce = TRUE,
                                   !.globalSeq = IF o.connectedOnce THEN @ + 1 ELSE @]
           known == IF outcome = "newIdentity" /\ o.connectedOnce
                    THEN ResetForNewIdentity(fresh) ELSE fresh
           renamed == [RefreshClientCookie(known) EXCEPT !.connectSeq = 0]
           counted == [known EXCEPT !.connectSeq = @ + 1]
           greeting == StartTransport(renamed, "Connecting")
           resuming == StartTransport(counted, "Reconnecting")
<1>1. \/ HandleConnected(o, outcome) = idle
      \/ HandleConnected(o, outcome) = BeginReconnect(taken)
      \/ HandleConnected(o, outcome) = FailTerminal(opened)
      \/ HandleConnected(o, outcome) = FailTerminal(fresh)
      \/ HandleConnected(o, outcome) = QueueClientIdent(greeting)
      \/ HandleConnected(o, outcome) = FailTerminal(known)
      \/ HandleConnected(o, outcome) = SendReconnect(resuming)
  BY DEF HandleConnected
<1>2. Books(o, called) /\ Calm(o)
  BY DEF Good, Reserve, Calm
<1>3. Books(idle, called) /\ Calm(idle)
  <2>1. SamePage(o, idle) /\ idle.pendingAck = o.pendingAck
        /\ idle.controlQueue = o.controlQueue
    BY <1>2 DEF Books, IsOwner, Fields, SamePage, Page
  <2> HIDE DEF idle
  <2> QED BY <1>2, <2>1, PageBooks DEF Calm
<1> HIDE DEF idle
<1>4. Books(taken, called) /\ Calm(taken)
  <2>1. SamePage(idle, taken) /\ taken.pendingAck = idle.pendingAck
        /\ taken.controlQueue = idle.controlQueue
    BY <1>3 DEF Books, IsOwner, Fields, SamePage, Page
  <2> HIDE DEF taken
  <2> QED BY <1>3, <2>1, PageBooks DEF Calm
<1> HIDE DEF taken
<1>5. Books(opened, called) /\ Calm(opened)
  <2>1. SamePage(taken, opened) /\ opened.pendingAck = taken.pendingAck
        /\ opened.controlQueue = taken.controlQueue
    BY <1>4 DEF Books, IsOwner, Fields, SamePage, Page
  <2> HIDE DEF opened
  <2> QED BY <1>4, <2>1, PageBooks DEF Calm
<1> HIDE DEF opened
<1>6. Books(fresh, called) /\ Calm(fresh)
  <2>1. SamePage(opened, fresh) /\ fresh.pendingAck = opened.pendingAck
        /\ fresh.controlQueue = opened.controlQueue
    BY <1>5 DEF Books, IsOwner, Fields, SamePage, Page
  <2> HIDE DEF fresh
  <2> QED BY <1>5, <2>1, PageBooks DEF Calm
<1> HIDE DEF fresh
<1>7. Books(known, called) /\ Calm(known)
  BY <1>6, ResetForNewIdentityBooks DEF Calm
<1> HIDE DEF known
<1>8. Books(greeting, called) /\ Calm(greeting)
  <2>1. SamePage(known, greeting) /\ greeting.pendingAck = known.pendingAck
        /\ greeting.controlQueue = known.controlQueue
    BY <1>7 DEF Books, IsOwner, Fields, SamePage, Page, RefreshClientCookie, StartTransport
  <2> HIDE DEF greeting
  <2> QED BY <1>7, <2>1, PageBooks DEF Calm
<1>9. Books(resuming, called) /\ resuming.pendingAck = 0
  <2>1. SamePage(known, resuming) /\ resuming.pendingAck = known.pendingAck
    BY <1>7 DEF Books, IsOwner, Fields, SamePage, Page, StartTransport
  <2> HIDE DEF resuming
  <2> QED BY <1>7, <2>1, PageBooks DEF Calm
<1> HIDE DEF greeting, resuming
<1>10. Good(idle, called) /\ Good(BeginReconnect(taken), called)
  BY <1>3, <1>4, BeginReconnectBooks, CalmReserve DEF Good
<1>11. /\ Good(FailTerminal(opened), called) /\ Good(FailTerminal(fresh), called)
       /\ Good(FailTerminal(known), called)
  BY <1>5, <1>6, <1>7, FailTerminalBooks, CalmReserve DEF Good
<1>12. Good(QueueClientIdent(greeting), called)
  BY <1>8, QueueControlBooks, CalmReserve DEF Good, QueueClientIdent
<1>13. Good(SendReconnect(resuming), called)
  BY <1>9, SendReconnectBooks
<1> QED BY <1>1, <1>10, <1>11, <1>12, <1>13

-----------------------------------------------------------------------------
(***************************************************************************)
(* Frames from the peer.                                                   *)
(***************************************************************************)

\* Trimming the replay list touches no book.
LEMMA TrimReplayPage ==
  ASSUME NEW o, NEW s, IsOwner(o)
  PROVE  SamePage(o, TrimReplay(o, s)) /\ Acks(TrimReplay(o, s)) = Acks(o)
         /\ TrimReplay(o, s).controlGeneration = o.controlGeneration
  BY DEF IsOwner, Fields, SamePage, Page, Acks, TrimReplay

\* A message is acknowledged, and answers its request or waits for the application.
LEMMA HandleMessageBooks ==
  ASSUME NEW o, NEW called, NEW frame, Good(o, called), o.state = "Ready"
  PROVE  Good(HandleMessage(o, frame), called)
<1> DEFINE seen == [o EXCEPT !.lastInbound = frame.sequence]
           trimmed == TrimReplay(seen, frame.ack)
           r == CHOOSE r \in Answered(o, frame.transaction) : TRUE
           settled == Settle(trimmed, r, Success(frame.payload))
           acked == QueueAcknowledgment(trimmed, frame.sequence)
           queued == [acked EXCEPT !.receiveQueue = Append(@, o.controlGeneration)]
<1>1. HandleMessage(o, frame) =
        IF ~AcceptsAcknowledgment(o, frame.ack) THEN HandleFault(o)
        ELSE IF frame.sequence <= o.lastInbound THEN o
        ELSE IF Answered(o, frame.transaction) # {}
        THEN QueueAcknowledgment(settled, frame.sequence)
        ELSE IF acked.controlGeneration # o.controlGeneration THEN acked
        ELSE IF Len(acked.receiveQueue) >= MaxQueuedMessages THEN FailTerminal(acked)
        ELSE queued
  BY DEF HandleMessage
<1>2. /\ SamePage(o, seen) /\ seen.lastInbound = frame.sequence
      /\ seen.pendingAck = o.pendingAck /\ seen.controlQueue = o.controlQueue
      /\ seen.state = "Ready" /\ seen.pending = o.pending
  BY DEF Good, Books, IsOwner, Fields, SamePage, Page
<1> HIDE DEF seen
<1>3. /\ Books(trimmed, called) /\ trimmed.lastInbound = frame.sequence
      /\ trimmed.pendingAck = o.pendingAck /\ trimmed.controlQueue = o.controlQueue
      /\ trimmed.state = "Ready" /\ trimmed.pending = o.pending
  <2>1. Books(seen, called) /\ IsOwner(seen)
    BY <1>2, PageBooks DEF Good, SamePage
  <2>2. SamePage(seen, trimmed) /\ Acks(trimmed) = Acks(seen)
    BY <2>1, TrimReplayPage
  <2> HIDE DEF trimmed
  <2> QED BY <1>2, <2>1, <2>2, PageBooks DEF Acks, SamePage, Page
<1> HIDE DEF trimmed
<1>4. Queue(o.controlQueue) /\ (o.pendingAck # 0 => Len(o.controlQueue) < MaxQueuedMessages)
  BY DEF Good, Reserve
<1>5. Good(acked, called)
  BY <1>3, <1>4, QueueAcknowledgmentBooks
<1>6. ASSUME Answered(o, frame.transaction) # {}
      PROVE  Good(QueueAcknowledgment(settled, frame.sequence), called)
  <2>1. r \in trimmed.pending
    BY <1>3, <1>6 DEF Answered
  <2> HIDE DEF r
  <2>2. Truthful(trimmed, r, Success(frame.payload))
    BY DEF Truthful, Success
  <2>3. Books(settled, called) /\ Acks(settled) = Acks(trimmed)
    BY <1>3, <2>1, <2>2, SettleBooks
  <2> HIDE DEF settled
  <2>4. /\ settled.lastInbound = frame.sequence /\ settled.state = "Ready"
        /\ settled.pendingAck = o.pendingAck /\ settled.controlQueue = o.controlQueue
    BY <1>3, <2>3 DEF Acks
  <2> QED BY <1>4, <2>3, <2>4, QueueAcknowledgmentBooks
<1> HIDE DEF acked, settled
<1>7. Good(FailTerminal(acked), called)
  BY <1>5, FailTerminalBooks, CalmReserve DEF Good
<1>8. Good(queued, called)
  <2>1. SamePage(acked, queued) /\ Acks(queued) = Acks(acked)
    BY <1>5 DEF Good, Books, IsOwner, Fields, SamePage, Page, Acks
  <2> HIDE DEF queued
  <2> QED BY <1>5, <2>1, PageBooks, SameReserve DEF Good
<1> HIDE DEF queued
<1>9. Good(HandleFault(o), called)
  BY HandleFaultBooks
<1> QED BY <1>1, <1>5, <1>6, <1>7, <1>8, <1>9

\* A reset of the session invalidates its controls and introduces the client again.
LEMMA HandleResetBooks ==
  ASSUME NEW o, NEW called, NEW full, Good(o, called)
  PROVE  Good(HandleReset(o, full), called)
<1> DEFINE n == ClearPendingAcknowledgment(o)
           a == InvalidateControls(n)
           cleared == [a EXCEPT !.serverCookie = 0, !.lossy = FALSE,
                                !.connectSeq = 0, !.lastInbound = 0]
           named == RefreshClientCookie(cleared)
           fresh == [named EXCEPT !.nextOutbound = 1, !.sequenceExhausted = FALSE,
                                  !.nextTID = 1, !.tidExhausted = FALSE]
           settled == IF full THEN FailAll(fresh, "disconnected") ELSE PrepareReplay(cleared)
           p == [settled EXCEPT !.state = "Connecting"]
<1>1. HandleReset(o, full) = QueueClientIdent(p)
  BY DEF HandleReset
<1>2. SamePage(o, n) /\ n.pendingAck = 0 /\ n.controlQueue = o.controlQueue
  BY DEF Good, Books, IsOwner, Fields, SamePage, Page, ClearPendingAcknowledgment
<1> HIDE DEF n
<1>3. Books(a, called) /\ Calm(a)
  BY <1>2, PageBooks, InvalidateControlsBooks DEF Good, Reserve, Calm, Acks
<1> HIDE DEF a
<1>4. Books(cleared, called) /\ Calm(cleared)
  <2>1. SamePage(a, cleared) /\ cleared.pendingAck = a.pendingAck
        /\ cleared.controlQueue = a.controlQueue
    BY <1>3 DEF Books, IsOwner, Fields, SamePage, Page
  <2> HIDE DEF cleared
  <2> QED BY <1>3, <2>1, PageBooks DEF Calm
<1> HIDE DEF cleared
<1>5. Books(fresh, called) /\ Calm(fresh)
  <2>1. SamePage(cleared, fresh) /\ fresh.pendingAck = cleared.pendingAck
        /\ fresh.controlQueue = cleared.controlQueue
    BY <1>4 DEF Books, IsOwner, Fields, SamePage, Page, RefreshClientCookie
  <2> HIDE DEF fresh
  <2> QED BY <1>4, <2>1, PageBooks DEF Calm
<1> HIDE DEF fresh
<1>6. Books(settled, called) /\ Calm(settled)
  BY <1>4, <1>5, FailAllBooks, PrepareReplayBooks DEF Calm, Acks
<1> HIDE DEF settled
<1>7. Good(p, called)
  <2>1. SamePage(settled, p) /\ p.pendingAck = settled.pendingAck
        /\ p.controlQueue = settled.controlQueue
    BY <1>6 DEF Books, IsOwner, Fields, SamePage, Page
  <2> HIDE DEF p
  <2> QED BY <1>6, <2>1, PageBooks, CalmReserve DEF Calm, Good
<1> QED BY <1>1, <1>7, QueueControlBooks DEF QueueClientIdent

\* Frames of a ready session.
LEMMA HandleReadyControlBooks ==
  ASSUME NEW o, NEW called, NEW frame, Good(o, called), frame.tag \in ReadyTags
  PROVE  Good(HandleReadyControl(o, frame), called)
<1>1. Good(HandleFault(o), called)
  BY HandleFaultBooks
<1>2. o.state = "Ready" => Good(HandleMessage(o, frame), called)
  BY HandleMessageBooks
<1>3. Good(TrimReplay(o, frame.sequence), called)
  <2>1. SamePage(o, TrimReplay(o, frame.sequence))
        /\ Acks(TrimReplay(o, frame.sequence)) = Acks(o)
    BY TrimReplayPage DEF Good, Books
  <2> QED BY <2>1, PageBooks, SameReserve DEF Good
<1>4. Good(QueueControl(o, [NoFrame EXCEPT !.tag = "Keepalive2Ack"]), called)
  BY QueueControlBooks
<1> QED BY <1>1, <1>2, <1>3, <1>4 DEF HandleReadyControl, ReadyTags

\* Frames that answer SESSION_RECONNECT.
LEMMA HandleReconnectControlBooks ==
  ASSUME NEW o, NEW called, NEW frame, Good(o, called), frame.tag \in ReconnectTags
  PROVE  Good(HandleReconnectControl(o, frame), called)
<1> DEFINE counted == [o EXCEPT !.transitions = @ + 1]
           latest == IF frame.sequence > o.globalSeq THEN frame.sequence ELSE o.globalSeq
           retry == [counted EXCEPT !.connectSeq = frame.connect + 1]
           global == [counted EXCEPT !.globalSeq = latest + 1]
           trimmed == TrimReplay(counted, frame.sequence)
           ready == PrepareReplay(trimmed)
           joined == [ready EXCEPT !.reconnectAttempts = 0, !.state = "Ready"]
<1>1. CASE o.state # "Reconnecting"
  BY <1>1, HandleFaultBooks DEF HandleReconnectControl
<1>2. CASE o.state = "Reconnecting"
  <2>1. \/ HandleReconnectControl(o, frame) = HandleFault(counted)
        \/ HandleReconnectControl(o, frame) = HandleReset(counted, FALSE)
        \/ HandleReconnectControl(o, frame) = HandleReset(counted, TRUE)
        \/ HandleReconnectControl(o, frame) = FailTerminal(counted)
        \/ HandleReconnectControl(o, frame) = SendReconnect(retry)
        \/ HandleReconnectControl(o, frame) = SendReconnect(global)
        \/ HandleReconnectControl(o, frame) = joined
    BY <1>2 DEF HandleReconnectControl, ReconnectTags
  <2>2. Books(counted, called) /\ Calm(counted)
    <3>1. SamePage(o, counted) /\ counted.pendingAck = o.pendingAck
          /\ counted.controlQueue = o.controlQueue
      BY DEF Good, Books, IsOwner, Fields, SamePage, Page
    <3> HIDE DEF counted
    <3> QED BY <1>2, <3>1, PageBooks DEF Good, Reserve, Calm
  <2>3. Good(counted, called) /\ IsOwner(counted)
    BY <2>2, CalmReserve DEF Good, Books
  <2> HIDE DEF counted
  <2>4. Books(retry, called) /\ retry.pendingAck = 0
    <3>1. SamePage(counted, retry) /\ retry.pendingAck = counted.pendingAck
      BY <2>3 DEF IsOwner, Fields, SamePage, Page
    <3> HIDE DEF retry
    <3> QED BY <2>2, <3>1, PageBooks DEF Calm
  <2>5. Books(global, called) /\ global.pendingAck = 0
    <3>1. SamePage(counted, global) /\ global.pendingAck = counted.pendingAck
      BY <2>3 DEF IsOwner, Fields, SamePage, Page
    <3> HIDE DEF global
    <3> QED BY <2>2, <3>1, PageBooks DEF Calm
  <2> HIDE DEF retry, global
  <2>6. Books(trimmed, called) /\ Calm(trimmed)
    BY <2>2, <2>3, TrimReplayPage, PageBooks DEF Calm, Acks
  <2> HIDE DEF trimmed
  <2>7. Books(ready, called) /\ Calm(ready)
    BY <2>6, PrepareReplayBooks DEF Calm, Acks
  <2> HIDE DEF ready
  <2>8. Good(joined, called)
    <3>1. SamePage(ready, joined) /\ joined.pendingAck = ready.pendingAck
          /\ joined.controlQueue = ready.controlQueue
      BY <2>7 DEF Books, IsOwner, Fields, SamePage, Page
    <3> HIDE DEF joined
    <3> QED BY <2>7, <3>1, PageBooks, CalmReserve DEF Calm, Good
  <2> HIDE DEF joined
  <2>9. Good(FailTerminal(counted), called)
    BY <2>2, FailTerminalBooks, CalmReserve DEF Good
  <2>10. Good(SendReconnect(retry), called) /\ Good(SendReconnect(global), called)
    BY <2>4, <2>5, SendReconnectBooks
  <2>11. Good(HandleFault(counted), called) /\ Good(HandleReset(counted, FALSE), called)
         /\ Good(HandleReset(counted, TRUE), called)
    BY <2>3, HandleFaultBooks, HandleResetBooks
  <2> QED BY <2>1, <2>8, <2>9, <2>10, <2>11
<1> QED BY <1>1, <1>2

\* A server that has no session of ours: what was sent may have executed.
LEMMA HandleServerIdentBooks ==
  ASSUME NEW o, NEW called, NEW frame, Good(o, called)
  PROVE  Good(HandleServerIdent(o, frame), called)
<1> DEFINE counted == [o EXCEPT !.transitions = @ + 1]
           identified == [counted EXCEPT !.serverCookie = frame.cookie,
                                         !.lossy = frame.tag = "ServerIdentLossy",
                                         !.reconnectAttempts = 0]
           settled == FailSentUnknown(identified, "disconnected")
           joined == [settled EXCEPT !.state = "Ready"]
<1>1. CASE o.state # "Connecting"
  BY <1>1, HandleFaultBooks DEF HandleServerIdent
<1>2. CASE o.state = "Connecting"
  <2>1. \/ HandleServerIdent(o, frame) = HandleFault(counted)
        \/ HandleServerIdent(o, frame) = FailTerminal(counted)
        \/ HandleServerIdent(o, frame) = joined
    BY <1>2 DEF HandleServerIdent
  <2>2. Books(counted, called) /\ Calm(counted)
    <3>1. SamePage(o, counted) /\ counted.pendingAck = o.pendingAck
          /\ counted.controlQueue = o.controlQueue
      BY DEF Good, Books, IsOwner, Fields, SamePage, Page
    <3> HIDE DEF counted
    <3> QED BY <1>2, <3>1, PageBooks DEF Good, Reserve, Calm
  <2> HIDE DEF counted
  <2>3. Books(identified, called) /\ Calm(identified)
    <3>1. SamePage(counted, identified) /\ identified.pendingAck = counted.pendingAck
          /\ identified.controlQueue = counted.controlQueue
      BY <2>2 DEF Books, IsOwner, Fields, SamePage, Page
    <3> HIDE DEF identified
    <3> QED BY <2>2, <3>1, PageBooks DEF Calm
  <2> HIDE DEF identified
  <2>4. Books(settled, called) /\ Calm(settled)
    BY <2>3, FailSentUnknownBooks DEF Calm, Acks
  <2> HIDE DEF settled
  <2>5. Good(joined, called)
    <3>1. SamePage(settled, joined) /\ joined.pendingAck = settled.pendingAck
          /\ joined.controlQueue = settled.controlQueue
      BY <2>4 DEF Books, IsOwner, Fields, SamePage, Page
    <3> HIDE DEF joined
    <3> QED BY <2>4, <3>1, PageBooks, CalmReserve DEF Calm, Good
  <2> HIDE DEF joined
  <2>6. Good(FailTerminal(counted), called) /\ Good(HandleFault(counted), called)
    BY <2>2, FailTerminalBooks, HandleFaultBooks, CalmReserve DEF Good
  <2> QED BY <2>1, <2>5, <2>6
<1> QED BY <1>1, <1>2

\* Whatever the transport yields, the books stay right.
LEMMA HandleFrameBooks ==
  ASSUME NEW o, NEW called, NEW frame, Good(o, called), frame.tag \in Tags
  PROVE  Good(HandleFrame(o, frame), called)
<1> DEFINE counted == [o EXCEPT !.transitions = @ + 1]
<1>1. CASE frame.tag \in ReadyTags
  BY <1>1, HandleReadyControlBooks DEF HandleFrame, ReadyTags, ReconnectTags, IdentTags
<1>2. CASE frame.tag \in ReconnectTags
  BY <1>2, HandleReconnectControlBooks DEF HandleFrame, ReadyTags, ReconnectTags, IdentTags
<1>3. CASE frame.tag \in IdentTags
  BY <1>3, HandleServerIdentBooks DEF HandleFrame, ReadyTags, ReconnectTags, IdentTags
<1>4. CASE frame.tag = "Wait"
  <2>1. Good(counted, called)
    <3>1. SamePage(o, counted) /\ Acks(counted) = Acks(o)
      BY DEF Good, Books, IsOwner, Fields, SamePage, Page, Acks
    <3> HIDE DEF counted
    <3> QED BY <3>1, PageBooks, SameReserve DEF Good
  <2>2. Good(HandleFault(counted), called) /\ Good(HandleFault(o), called)
    BY <2>1, HandleFaultBooks
  <2>3. HandleFrame(o, frame) = HandleFault(counted) \/ HandleFrame(o, frame) = HandleFault(o)
    BY <1>4 DEF HandleFrame, ReadyTags, ReconnectTags, IdentTags
  <2> QED BY <2>2, <2>3
<1>5. CASE frame.tag \in {"Malformed", "Error"}
  <2>1. HandleFrame(o, frame) = HandleFault(o)
    BY <1>5 DEF HandleFrame, ReadyTags, ReconnectTags, IdentTags
  <2> QED BY <2>1, HandleFaultBooks
<1>6. CASE frame.tag \in {"OverBudget", "IdentMissingFeatures"}
  <2>1. HandleFrame(o, frame) = FailTerminal(o)
    BY <1>6 DEF HandleFrame, ReadyTags, ReconnectTags, IdentTags
  <2> QED BY <2>1, FailTerminalBooks, CalmReserve DEF Good
<1> QED BY <1>1, <1>2, <1>3, <1>4, <1>5, <1>6 DEF Tags

-----------------------------------------------------------------------------
(***************************************************************************)
(* Commands of the callers.                                                *)
(***************************************************************************)

\* A call that is refused has its result, and nothing of it was handed to a write pump.
LEMMA RefusedBooks ==
  ASSUME NEW o, NEW called, NEW r \in Requests \ called, NEW x, Good(o, called)
  PROVE  Good([o EXCEPT !.result[r] = Append(@, x)], called \cup {r})
<1> DEFINE p == [o EXCEPT !.result[r] = Append(@, x)]
<1>1. /\ IsOwner(p) /\ p.result = [o.result EXCEPT ![r] = Append(@, x)]
      /\ p.pending = o.pending /\ p.sent = o.sent /\ p.mayHaveExecuted = o.mayHaveExecuted
      /\ p.kind = o.kind /\ p.scope = o.scope /\ p.tid = o.tid /\ p.handed = o.handed
      /\ p.retainedBytes = o.retainedBytes /\ p.controlCount = o.controlCount
      /\ p.inFlight = o.inFlight /\ p.nextTID = o.nextTID /\ Acks(p) = Acks(o)
  BY DEF Good, Books, IsOwner, Fields, Acks
<1> HIDE DEF p
<1>2. Answers(p, called \cup {r})
  BY <1>1, AppendEmpty DEF Good, Books, Answers
<1>3. Counted(p)
  BY <1>1 DEF Good, Books, Counted, Plain, Controls, IsControl
<1>4. Honest(p, called \cup {r})
  <2>1. \A q \in Requests \ {r} : p.result[q] = o.result[q]
    BY <1>1 DEF Good, Books, Answers
  <2>2. r \notin o.handed /\ o.handed \subseteq Requests
    BY DEF Good, Books, Honest, Answers
  <2> QED BY <1>1, <2>1, <2>2 DEF Good, Books, Honest, Truthful, IsControl
<1>5. Distinct(p)
  BY <1>1 DEF Good, Books, Distinct
<1>6. Good(p, called \cup {r})
  BY <1>1, <1>2, <1>3, <1>4, <1>5, SameReserve DEF Good, Books
<1> QED BY <1>6 DEF p

\* A request is admitted: it has its place in the counters, and its id is its own.
LEMMA AdmittedBooks ==
  ASSUME NEW o, NEW called, NEW r \in Requests \ called, NEW kind, NEW scope, NEW t,
         Good(o, called),
         IF kind = "control" THEN o.controlCount < MaxControlMessages
         ELSE /\ Cardinality(o.pending) - o.controlCount < MaxQueuedMessages
              /\ o.retainedBytes < MaxRetainedBytes,
         \A q \in o.pending : o.tid[q] # t
  PROVE  Good([o EXCEPT !.pending = @ \cup {r}, !.kind[r] = kind, !.scope[r] = scope,
                        !.tid[r] = t,
                        !.controlCount = IF kind = "control" THEN @ + 1 ELSE @,
                        !.retainedBytes = IF kind = "control" THEN @ ELSE @ + 1],
              called \cup {r})
<1> DEFINE p == [o EXCEPT !.pending = @ \cup {r}, !.kind[r] = kind, !.scope[r] = scope,
                          !.tid[r] = t,
                          !.controlCount = IF kind = "control" THEN @ + 1 ELSE @,
                          !.retainedBytes = IF kind = "control" THEN @ ELSE @ + 1]
<1>1. /\ IsOwner(p) /\ p.pending = o.pending \cup {r} /\ p.sent = o.sent
      /\ p.mayHaveExecuted = o.mayHaveExecuted /\ p.handed = o.handed
      /\ p.kind = [o.kind EXCEPT ![r] = kind] /\ p.scope = [o.scope EXCEPT ![r] = scope]
      /\ p.tid = [o.tid EXCEPT ![r] = t] /\ p.result = o.result
      /\ p.controlCount = (IF kind = "control" THEN o.controlCount + 1 ELSE o.controlCount)
      /\ p.retainedBytes = (IF kind = "control" THEN o.retainedBytes ELSE o.retainedBytes + 1)
      /\ p.inFlight = o.inFlight /\ p.nextTID = o.nextTID /\ Acks(p) = Acks(o)
  BY DEF Good, Books, IsOwner, Fields, Acks
<1> HIDE DEF p
<1>2. /\ o.pending \subseteq Requests /\ r \notin o.pending /\ r \notin o.handed
      /\ o.handed \subseteq called /\ called \subseteq Requests
      /\ DOMAIN o.kind = Requests /\ DOMAIN o.scope = Requests /\ DOMAIN o.tid = Requests
  BY DEF Good, Books, Answers, Honest, Distinct
<1>3. /\ \A q \in Requests \ {r} : /\ IsControl(p, q) <=> IsControl(o, q)
                                   /\ p.scope[q] = o.scope[q] /\ p.tid[q] = o.tid[q]
      /\ IsControl(p, r) <=> kind = "control"
      /\ p.tid[r] = t
  BY <1>1, <1>2 DEF IsControl
<1>4. Answers(p, called \cup {r})
  BY <1>1, <1>2, SMTT(30) DEF Good, Books, Answers
<1>5. Honest(p, called \cup {r})
  <2>1. p.handed \subseteq called \cup {r} /\ p.handed \cap p.pending \subseteq p.mayHaveExecuted
    BY <1>1, <1>2 DEF Good, Books, Honest
  <2>2. ASSUME NEW q \in p.handed \ p.pending
        PROVE  \E x : p.result[q] = <<x>> /\ Truthful(p, q, x)
    <3>1. q \in o.handed \ o.pending /\ q \in Requests \ {r}
      BY <1>1, <1>2
    <3>2. PICK x : o.result[q] = <<x>> /\ Truthful(o, q, x)
      BY <3>1 DEF Good, Books, Honest
    <3>3. Truthful(p, q, x)
      BY <1>3, <3>1, <3>2 DEF Truthful
    <3> QED BY <1>1, <3>2, <3>3
  <2> QED BY <2>1, <2>2 DEF Honest
<1>6. Distinct(p)
  <2>1. DOMAIN p.tid = Requests /\ p.nextTID \in Nat
    BY <1>1, <1>2 DEF Good, Books, Distinct
  <2>2. ASSUME NEW a \in p.pending, NEW b \in p.pending, a # b PROVE p.tid[a] # p.tid[b]
    BY <1>1, <1>2, <1>3, <2>2, SMTT(30) DEF Good, Books, Distinct
  <2> QED BY <2>1, <2>2 DEF Distinct
<1>7. Counted(p)
  <2> DEFINE C == Controls(o)
             M == Plain(o)
  <2>1. /\ C \in SUBSET Requests /\ M \in SUBSET Requests /\ r \notin C /\ r \notin M
        /\ C \in SUBSET o.pending /\ M = o.pending \ C
    BY <1>2 DEF Controls, Plain
  <2>2. r \notin o.sent /\ o.sent \subseteq o.pending
    BY <1>2 DEF Good, Books, Counted
  <2>3. /\ \A q : q \in Plain(p) <=> q \in M \/ (q = r /\ kind # "control")
        /\ \A q : q \in Controls(p) <=> q \in C \/ (q = r /\ kind = "control")
    BY <1>1, <1>2, <1>3 DEF Controls, Plain
  <2>4. Plain(p) \cap p.sent = M \cap o.sent
    BY <1>1, <2>2, <2>3
  <2>5. /\ o.inFlight = Cardinality(M \cap o.sent) /\ o.controlCount = Cardinality(C)
        /\ o.retainedBytes = Cardinality(M)
        /\ o.inFlight <= MaxInFlightTransactions /\ o.controlCount <= MaxControlMessages
        /\ o.retainedBytes <= MaxQueuedMessages /\ o.retainedBytes <= MaxRetainedBytes
    BY DEF Good, Books, Counted
  <2> HIDE DEF C, M
  <2>6. /\ Cardinality(M) = Cardinality(o.pending) - Cardinality(C)
        /\ Cardinality(M) \in Nat /\ Cardinality(C) \in Nat
        /\ Cardinality(M \cup {r}) = Cardinality(M) + 1
        /\ Cardinality(C \cup {r}) = Cardinality(C) + 1
    BY <1>2, <2>1, SizeWithout, SizeWith
  <2>7. CASE kind = "control"
    <3>1. Plain(p) = M /\ Controls(p) = C \cup {r}
      BY <2>3, <2>7
    <3>2. /\ p.controlCount = Cardinality(Controls(p)) /\ p.retainedBytes = Cardinality(Plain(p))
          /\ p.controlCount <= MaxControlMessages
      BY <1>1, <2>5, <2>6, <2>7, <3>1, ConfigAssumption, SMTT(30)
    <3>3. p.retainedBytes = o.retainedBytes /\ p.sent \subseteq p.pending
      BY <1>1, <2>2, <2>7
    <3> QED BY <1>1, <2>4, <2>5, <3>2, <3>3 DEF Counted
  <2>8. CASE kind # "control"
    <3>1. Plain(p) = M \cup {r} /\ Controls(p) = C
      BY <2>3, <2>8
    <3>2. /\ p.controlCount = Cardinality(Controls(p)) /\ p.retainedBytes = Cardinality(Plain(p))
          /\ p.retainedBytes <= MaxQueuedMessages /\ p.retainedBytes <= MaxRetainedBytes
      BY <1>1, <2>5, <2>6, <2>8, <3>1, ConfigAssumption, SMTT(30)
    <3>3. p.controlCount = o.controlCount /\ p.sent \subseteq p.pending
      BY <1>1, <2>2, <2>8
    <3> QED BY <1>1, <2>4, <2>5, <3>2, <3>3 DEF Counted
  <2> QED BY <2>7, <2>8
<1>8. Good(p, called \cup {r})
  BY <1>1, <1>2, <1>4, <1>5, <1>6, <1>7, SameReserve DEF Good, Books
<1> QED BY <1>8 DEF p

\* takeTID takes an id that no pending request has.
LEMMA TakenTIDIsFree ==
  ASSUME NEW o, o.nextTID \in Nat, FreeTIDs(o) # {}
  PROVE  \A q \in o.pending : o.tid[q] # TakenTID(o)
<1>1. FreeTIDs(o) \in SUBSET Nat
  BY RequestsAssumption DEF FreeTIDs
<1>2. \E t \in FreeTIDs(o) : \A u \in FreeTIDs(o) : t <= u
  BY <1>1, Least
<1>3. TakenTID(o) \in FreeTIDs(o)
  BY <1>2 DEF TakenTID
<1> QED BY <1>3 DEF FreeTIDs

\* submit refuses a call with its one result, admits it, or ends the session.
LEMMA SubmitBooks ==
  ASSUME NEW o, NEW called, NEW kind, NEW scope, NEW tid, NEW gone,
         NEW r \in Requests \ called, Good(o, called)
  PROVE  Good(Submit(o, r, kind, scope, tid, gone), called \cup {r})
<1> DEFINE Refused(err) == [o EXCEPT !.result[r] = Append(@, Failure(err))]
           full == IF kind = "control" THEN o.controlCount >= MaxControlMessages
                   ELSE \/ Cardinality(o.pending) - o.controlCount >= MaxQueuedMessages
                        \/ o.retainedBytes >= MaxRetainedBytes
           room == IF kind = "control" THEN o.controlCount < MaxControlMessages
                   ELSE /\ Cardinality(o.pending) - o.controlCount < MaxQueuedMessages
                        /\ o.retainedBytes < MaxRetainedBytes
           Admitted(p, t) == [p EXCEPT
             !.pending = @ \cup {r},
             !.kind[r] = kind,
             !.scope[r] = scope,
             !.tid[r] = t,
             !.controlCount = IF kind = "control" THEN @ + 1 ELSE @,
             !.retainedBytes = IF kind = "control" THEN @ ELSE @ + 1]
           exhausted == [o EXCEPT !.tidExhausted = TRUE, !.nextTID = 0]
           failed == FailTerminal(exhausted)
           last == [failed EXCEPT !.result[r] = Append(@, Failure("terminal"))]
           p == Submit(o, r, kind, scope, tid, gone)
<1>1. \/ \E err : p = Refused(err)
      \/ ~full /\ (\A q \in o.pending : o.tid[q] # tid) /\ p = Admitted(o, tid)
      \/ ~full /\ FreeTIDs(o) # {} /\ p = Admitted(TakeTID(o), TakenTID(o))
      \/ p = last
  BY DEF Submit
<1>2. ~full => room
  <2>1. /\ Controls(o) \in SUBSET Requests /\ Plain(o) \in SUBSET Requests
        /\ o.pending \in SUBSET Requests
    BY DEF Good, Books, Answers, Controls, Plain
  <2>2. Cardinality(Controls(o)) \in Nat /\ Cardinality(Plain(o)) \in Nat
        /\ Cardinality(o.pending) \in Nat
    BY <2>1, Sizes
  <2>3. o.controlCount \in Nat /\ o.retainedBytes \in Nat
    BY <2>2 DEF Good, Books, Counted
  <2> QED BY <2>2, <2>3, ConfigAssumption
<1> HIDE DEF full, p
<1>3. ASSUME NEW err, p = Refused(err) PROVE Good(p, called \cup {r})
  <2>1. Good(Refused(err), called \cup {r})
    BY RefusedBooks
  <2> HIDE DEF Refused
  <2> QED BY <1>3, <2>1
<1>4. ASSUME ~full, \A q \in o.pending : o.tid[q] # tid, p = Admitted(o, tid)
      PROVE  Good(p, called \cup {r})
  <2>1. Good(Admitted(o, tid), called \cup {r})
    BY <1>2, <1>4, AdmittedBooks
  <2> HIDE DEF Admitted
  <2> QED BY <1>4, <2>1
<1>5. ASSUME ~full, FreeTIDs(o) # {}, p = Admitted(TakeTID(o), TakenTID(o))
      PROVE  Good(p, called \cup {r})
  <2> DEFINE t == TakeTID(o)
  <2>1. /\ IsOwner(t) /\ Page(t) = Page(o) /\ Acks(t) = Acks(o)
        /\ t.nextTID = 0 \/ t.nextTID = TakenTID(o) + 1
    BY DEF Good, Books, IsOwner, Fields, Page, Acks, TakeTID
  <2>2. o.nextTID \in Nat /\ FreeTIDs(o) \in SUBSET Nat
    BY RequestsAssumption DEF Good, Books, Distinct, FreeTIDs
  <2>3. TakenTID(o) \in Nat
    <3>1. \E n \in FreeTIDs(o) : \A u \in FreeTIDs(o) : n <= u
      BY <1>5, <2>2, Least
    <3>2. TakenTID(o) \in FreeTIDs(o)
      BY <3>1 DEF TakenTID
    <3> QED BY <2>2, <3>2
  <2>4. t.nextTID \in Nat
    BY <2>1, <2>3
  <2>5. \A q \in o.pending : o.tid[q] # TakenTID(o)
    BY <1>5, <2>2, TakenTIDIsFree
  <2> HIDE DEF t
  <2>6. SamePage(o, t)
    BY <2>1, <2>4 DEF SamePage
  <2>7. Good(t, called)
    BY <2>1, <2>6, PageBooks, SameReserve DEF Good
  <2>8. /\ t.pending = o.pending /\ t.tid = o.tid
        /\ t.controlCount = o.controlCount /\ t.retainedBytes = o.retainedBytes
    BY <2>1 DEF Page
  <2>9. \A q \in t.pending : t.tid[q] # TakenTID(o)
    BY <2>5, <2>8
  <2>10. IF kind = "control" THEN t.controlCount < MaxControlMessages
         ELSE /\ Cardinality(t.pending) - t.controlCount < MaxQueuedMessages
              /\ t.retainedBytes < MaxRetainedBytes
    BY <1>2, <1>5, <2>8
  <2>11. Good(Admitted(t, TakenTID(o)), called \cup {r})
    BY <2>7, <2>9, <2>10, AdmittedBooks
  <2> QED BY <1>5, <2>11 DEF t
<1>6. ASSUME p = last PROVE Good(p, called \cup {r})
  <2>1. SamePage(o, exhausted)
    BY DEF Good, Books, IsOwner, Fields, SamePage, Page
  <2> HIDE DEF exhausted
  <2>2. Good(failed, called)
    BY <2>1, PageBooks, FailTerminalBooks, CalmReserve DEF Good
  <2> HIDE DEF failed
  <2>3. Good(last, called \cup {r})
    BY <2>2, RefusedBooks
  <2> HIDE DEF last
  <2> QED BY <1>6, <2>3
<1> HIDE DEF Refused, Admitted, last, failed
<1>7. Good(p, called \cup {r})
  BY <1>1, <1>3, <1>4, <1>5, <1>6
<1> QED BY <1>7 DEF p

\* cancel says that the outcome is unknown when the request may have executed.
LEMMA CancelBooks ==
  ASSUME NEW o, NEW called, NEW r, Good(o, called)
  PROVE  Good(Cancel(o, r), called)
<1> DEFINE x == IF r \in o.mayHaveExecuted THEN OutcomeUnknown("canceled")
                                           ELSE Failure("canceled")
<1>1. Cancel(o, r) = o \/ (r \in o.pending /\ Cancel(o, r) = Settle(o, r, x))
  BY DEF Cancel
<1>2. r \in o.pending /\ r \in o.handed => Truthful(o, r, x)
  <2>1. r \in o.pending /\ r \in o.handed => r \in o.mayHaveExecuted
    BY DEF Good, Books, Honest
  <2> QED BY <2>1 DEF Truthful, OutcomeUnknown
<1> HIDE DEF x
<1> QED BY <1>1, <1>2, SettleBooks, SameReserve DEF Good

\* stop settles everything.
LEMMA StopBooks ==
  ASSUME NEW o, NEW called, Good(o, called)
  PROVE  Good(Stop(o), called)
<1> DEFINE a == InvalidateControls(o)
           b == [a EXCEPT !.state = "Stopped"]
           c == FailAll(b, "closed")
           p == [c EXCEPT !.transport = FALSE, !.renewalArmed = FALSE, !.connecting = 0,
                          !.writing = {}, !.pendingAck = 0]
<1>1. Stop(o) = p
  BY DEF Stop
<1>2. Books(a, called) /\ a.controlQueue = o.controlQueue
  BY InvalidateControlsBooks DEF Good, Acks
<1> HIDE DEF a
<1>3. SamePage(a, b) /\ b.controlQueue = a.controlQueue
  BY <1>2 DEF Books, IsOwner, Fields, SamePage, Page
<1> HIDE DEF b
<1>4. Books(c, called) /\ c.controlQueue = o.controlQueue
  BY <1>2, <1>3, PageBooks, FailAllBooks DEF Acks
<1> HIDE DEF c
<1>5. SamePage(c, p) /\ p.controlQueue = c.controlQueue /\ p.pendingAck = 0
  BY <1>4 DEF Books, IsOwner, Fields, SamePage, Page
<1> HIDE DEF p
<1>6. Good(p, called)
  BY <1>4, <1>5, PageBooks, CalmReserve DEF Good, Reserve, Calm
<1> QED BY <1>1, <1>6

-----------------------------------------------------------------------------
(***************************************************************************)
(* What the owner writes.                                                  *)
(***************************************************************************)

\* A task for the write pump is in no book.
LEMMA SendWriteBooks ==
  ASSUME NEW o, NEW called, NEW request, NEW frame, Good(o, called)
  PROVE  Good(SendWrite(o, request, frame), called)
<1> DEFINE p == SendWrite(o, request, frame)
<1>1. SamePage(o, p) /\ Acks(p) = Acks(o)
  BY DEF Good, Books, IsOwner, Fields, SamePage, Page, Acks, SendWrite
<1> HIDE DEF p
<1>2. Good(p, called)
  BY <1>1, PageBooks, SameReserve DEF Good
<1> QED BY <1>2 DEF p

\* A request handed to the write pump counts as in flight and as possibly executed.
LEMMA MarkedBooks ==
  ASSUME NEW o, NEW called, NEW p, NEW r \in o.pending \ o.sent, Books(o, called),
         ~IsControl(o, r) => o.inFlight < MaxInFlightTransactions,
         IsOwner(p), p.sent = o.sent \cup {r},
         p.mayHaveExecuted = o.mayHaveExecuted \cup {r}, p.handed = o.handed \cup {r},
         p.inFlight = IF IsControl(o, r) THEN o.inFlight ELSE o.inFlight + 1,
         p.pending = o.pending, p.kind = o.kind, p.scope = o.scope, p.tid = o.tid,
         p.result = o.result, p.retainedBytes = o.retainedBytes,
         p.controlCount = o.controlCount, p.nextTID = o.nextTID
  PROVE  Books(p, called)
<1>1. Answers(p, called) /\ Distinct(p)
  BY SMTT(30) DEF Books, Answers, Distinct
<1>2. Honest(p, called)
  BY DEF Books, Answers, Honest, Truthful, IsControl
<1>3. Counted(p)
  <2> DEFINE A == Plain(o) \cap o.sent
             B == Plain(p) \cap p.sent
  <2>1. Plain(p) = Plain(o) /\ Controls(p) = Controls(o) /\ p.sent \subseteq p.pending
    BY DEF Plain, Controls, IsControl, Books, Counted
  <2>2. r \in Requests /\ A \in SUBSET Requests /\ r \notin A
        /\ (r \in Plain(o) <=> ~IsControl(o, r))
    BY DEF Plain, Controls, Books, Answers
  <2>3. o.inFlight = Cardinality(A) /\ o.inFlight <= MaxInFlightTransactions
    BY DEF Books, Counted
  <2>4. CASE IsControl(o, r)
    <3>1. B = A
      BY <2>1, <2>2, <2>4
    <3> HIDE DEF A, B
    <3>2. p.inFlight = Cardinality(B) /\ p.inFlight <= MaxInFlightTransactions
      BY <2>3, <2>4, <3>1
    <3> QED BY <2>1, <3>2 DEF B, Books, Counted
  <2>5. CASE ~IsControl(o, r)
    <3>1. B = A \cup {r}
      BY <2>1, <2>2, <2>5
    <3> HIDE DEF A, B
    <3>2. Cardinality(B) = Cardinality(A) + 1 /\ Cardinality(A) \in Nat
      BY <2>2, <3>1, SizeWith
    <3>3. p.inFlight = Cardinality(B) /\ p.inFlight <= MaxInFlightTransactions
      BY <2>3, <2>5, <3>2, ConfigAssumption
    <3> QED BY <2>1, <3>3 DEF B, Books, Counted
  <2> QED BY <2>4, <2>5
<1> QED BY <1>1, <1>2, <1>3 DEF Books

\* The owner numbers a request, marks it and hands it to the write pump.
LEMMA WriteRequestBooks ==
  ASSUME NEW o, NEW called, NEW r \in o.pending \ o.sent, Good(o, called),
         ~IsControl(o, r) => o.inFlight < MaxInFlightTransactions
  PROVE  Good(WriteRequest(o, r), called)
<1> DEFINE allocated == AllocateSequence(o)
           numbered == IF o.seq[r] # 0 THEN o
                       ELSE [allocated EXCEPT !.seq[r] = NextSequence(o)]
           cleared == ClearPendingAcknowledgment(numbered)
           counted == [cleared EXCEPT
                        !.inFlight = IF IsControl(o, r) THEN @ ELSE @ + 1,
                        !.sent = @ \cup {r},
                        !.mayHaveExecuted = @ \cup {r},
                        !.handed = @ \cup {r},
                        !.wire = Append(@, [request |-> r, sequence |-> numbered.seq[r]])]
           marked == AddReplay(counted, r)
           frame == [NoFrame EXCEPT !.tag = "Message", !.sequence = marked.seq[r],
                       !.transaction = o.tid[r], !.ack = o.lastInbound, !.payload = r]
<1>1. WriteRequest(o, r) = SendWrite(marked, r, frame)
  BY DEF WriteRequest
<1>2. IsOwner(allocated) /\ Page(allocated) = Page(o)
      /\ allocated.nextTID = o.nextTID /\ allocated.controlQueue = o.controlQueue
  BY DEF Good, Books, IsOwner, Fields, Page, AllocateSequence
<1> HIDE DEF allocated
<1>3. IsOwner(numbered) /\ Page(numbered) = Page(o)
      /\ numbered.nextTID = o.nextTID /\ numbered.controlQueue = o.controlQueue
  BY <1>2 DEF Good, Books, IsOwner, Fields, Page
<1> HIDE DEF numbered
<1>4. IsOwner(cleared) /\ Page(cleared) = Page(o) /\ cleared.pendingAck = 0
      /\ cleared.nextTID = o.nextTID /\ cleared.controlQueue = o.controlQueue
  BY <1>3 DEF IsOwner, Fields, Page, ClearPendingAcknowledgment
<1> HIDE DEF cleared
<1>5. /\ cleared.pending = o.pending /\ cleared.sent = o.sent
      /\ cleared.mayHaveExecuted = o.mayHaveExecuted
      /\ cleared.kind = o.kind /\ cleared.scope = o.scope /\ cleared.tid = o.tid
      /\ cleared.result = o.result /\ cleared.retainedBytes = o.retainedBytes
      /\ cleared.controlCount = o.controlCount
      /\ cleared.inFlight = o.inFlight /\ cleared.handed = o.handed
  BY <1>4 DEF Page
<1>6. /\ IsOwner(counted) /\ counted.sent = o.sent \cup {r}
      /\ counted.mayHaveExecuted = o.mayHaveExecuted \cup {r}
      /\ counted.handed = o.handed \cup {r}
      /\ counted.inFlight = (IF IsControl(o, r) THEN o.inFlight ELSE o.inFlight + 1)
      /\ counted.pending = o.pending /\ counted.kind = o.kind /\ counted.scope = o.scope
      /\ counted.tid = o.tid /\ counted.result = o.result
      /\ counted.retainedBytes = o.retainedBytes /\ counted.controlCount = o.controlCount
      /\ counted.nextTID = o.nextTID
      /\ counted.pendingAck = 0 /\ counted.controlQueue = o.controlQueue
  BY <1>4, <1>5 DEF IsOwner, Fields
<1> HIDE DEF counted
<1>7. Books(counted, called)
  BY <1>6, MarkedBooks DEF Good
<1>8. SamePage(counted, marked) /\ marked.pendingAck = 0 /\ marked.controlQueue = o.controlQueue
  BY <1>6 DEF IsOwner, Fields, SamePage, Page, AddReplay
<1> HIDE DEF marked
<1>9. Good(marked, called)
  BY <1>7, <1>8, PageBooks, CalmReserve DEF Good, Reserve, Calm
<1> QED BY <1>1, <1>9, SendWriteBooks

\* The tail of dispatch: a renewal, a request that is settled instead, or one that is written.
LEMMA DispatchRequestBooks ==
  ASSUME NEW o, NEW called, NEW gone, Good(o, called)
  PROVE  Good(DispatchRequest(o, gone), called)
<1> DEFINE next == NextPendingWrite(o)
           r == CHOOSE r \in next : TRUE
           renewed == [o EXCEPT !.renewalPending = FALSE]
<1>1. next \subseteq o.pending \ o.sent
  BY DEF NextPendingWrite
<1>2. Good(HandleFault(renewed), called)
  <2>1. SamePage(o, renewed) /\ Acks(renewed) = Acks(o)
    BY DEF Good, Books, IsOwner, Fields, SamePage, Page, Acks
  <2> HIDE DEF renewed
  <2> QED BY <2>1, PageBooks, SameReserve, HandleFaultBooks DEF Good
<1>3. Good(FailTerminal(o), called)
  BY FailTerminalBooks, CalmReserve DEF Good
<1>4. next # {} => r \in o.pending \ o.sent
  BY <1>1
<1>5. \/ DispatchRequest(o, gone) = HandleFault(renewed)
      \/ DispatchRequest(o, gone) = o
      \/ DispatchRequest(o, gone) = FailTerminal(o)
      \/ next # {} /\ o.scope[r] # 0
         /\ DispatchRequest(o, gone) = Settle(o, r, Failure("invalidated"))
      \/ DispatchRequest(o, gone) = Cancel(o, r)
      \/ next # {} /\ ~IsControl(o, r)
         /\ DispatchRequest(o, gone) = Settle(o, r, Failure("canceled"))
      \/ next # {} /\ (~IsControl(o, r) => ~(o.inFlight >= MaxInFlightTransactions))
         /\ DispatchRequest(o, gone) = WriteRequest(o, r)
  BY DEF DispatchRequest
<1> HIDE DEF r, next, renewed
<1>6. ASSUME next # {}, o.scope[r] # 0
      PROVE  Good(Settle(o, r, Failure("invalidated")), called)
  <2>1. Truthful(o, r, Failure("invalidated"))
    BY <1>6 DEF Truthful, Failure
  <2> QED BY <1>4, <1>6, <2>1, SettleBooks, SameReserve DEF Good
<1>7. ASSUME next # {}, ~IsControl(o, r)
      PROVE  Good(Settle(o, r, Failure("canceled")), called)
  <2>1. Truthful(o, r, Failure("canceled"))
    BY <1>7 DEF Truthful, Failure
  <2> QED BY <1>4, <1>7, <2>1, SettleBooks, SameReserve DEF Good
<1>8. ASSUME next # {}, ~IsControl(o, r) => ~(o.inFlight >= MaxInFlightTransactions)
      PROVE  Good(WriteRequest(o, r), called)
  <2>1. Plain(o) \cap o.sent \in SUBSET Requests
    BY DEF Plain, Good, Books, Answers
  <2>2. o.inFlight \in Nat
    BY <2>1, Sizes DEF Good, Books, Counted
  <2>3. ~IsControl(o, r) => o.inFlight < MaxInFlightTransactions
    BY <1>8, <2>2, ConfigAssumption
  <2> QED BY <1>4, <1>8, <2>3, WriteRequestBooks
<1>9. Good(Cancel(o, r), called)
  BY CancelBooks
<1> QED BY <1>2, <1>3, <1>5, <1>6, <1>7, <1>8, <1>9

\* dispatch writes a control frame, or goes on to the requests.
LEMMA DispatchBooks ==
  ASSUME NEW o, NEW called, NEW gone, Good(o, called)
  PROVE  Good(Dispatch(o, gone), called)
<1> DEFINE flushed == IF o.renewalPending /\ o.inFlight = 0
                      THEN FlushPendingAcknowledgment(o) ELSE o
           taken == [flushed EXCEPT !.controlQueue = Tail(@)]
<1>1. \/ Dispatch(o, gone) = o
      \/ flushed.controlQueue # <<>>
         /\ Dispatch(o, gone) = SendWrite(taken, 0, Head(flushed.controlQueue))
      \/ Dispatch(o, gone) = flushed
      \/ Dispatch(o, gone) = DispatchRequest(flushed, gone)
  BY DEF Dispatch
<1>2. Good(flushed, called)
  BY FlushBooks
<1> HIDE DEF flushed
<1>3. ASSUME flushed.controlQueue # <<>> PROVE Good(taken, called)
  <2>1. /\ SamePage(flushed, taken) /\ taken.controlQueue = Tail(flushed.controlQueue)
        /\ taken.pendingAck = flushed.pendingAck /\ taken.state = flushed.state
        /\ taken.lastInbound = flushed.lastInbound
    BY <1>2 DEF Good, Books, IsOwner, Fields, SamePage, Page
  <2> HIDE DEF taken
  <2>2. /\ Queue(taken.controlQueue) /\ Len(flushed.controlQueue) \in Nat
        /\ Len(taken.controlQueue) = Len(flushed.controlQueue) - 1
    BY <1>2, <1>3, <2>1, Queues DEF Good, Reserve
  <2>3. flushed.pendingAck # 0 => Len(taken.controlQueue) < MaxQueuedMessages
    BY <1>2, <2>2, ConfigAssumption DEF Good, Reserve
  <2>4. Reserve(taken)
    BY <1>2, <2>1, <2>2, <2>3 DEF Good, Reserve
  <2> QED BY <1>2, <2>1, <2>4, PageBooks DEF Good
<1> HIDE DEF taken
<1> QED BY <1>1, <1>2, <1>3, SendWriteBooks, DispatchRequestBooks

\* handleWritten completes a one-way request, or faults.
LEMMA HandleWrittenBooks ==
  ASSUME NEW o, NEW called, NEW w, Good(o, called)
  PROVE  Good(HandleWritten(o, w), called)
<1> DEFINE idle == [o EXCEPT !.writeBusy = FALSE]
<1>1. \/ HandleWritten(o, w) = o
      \/ HandleWritten(o, w) = HandleFault(idle)
      \/ w.request \in o.pending /\ HandleWritten(o, w) = Settle(idle, w.request, Success(0))
      \/ HandleWritten(o, w) = idle
  BY DEF HandleWritten
<1>2. SamePage(o, idle) /\ Acks(idle) = Acks(o)
  BY DEF Good, Books, IsOwner, Fields, SamePage, Page, Acks
<1> HIDE DEF idle
<1>3. Good(idle, called) /\ idle.pending = o.pending
  BY <1>2, PageBooks, SameReserve DEF Good, SamePage, Page
<1>4. ASSUME w.request \in o.pending PROVE Good(Settle(idle, w.request, Success(0)), called)
  <2>1. Truthful(idle, w.request, Success(0))
    BY DEF Truthful, Success
  <2> QED BY <1>3, <1>4, <2>1, SettleBooks, SameReserve DEF Good
<1> QED BY <1>1, <1>3, <1>4, HandleFaultBooks

\* The books of a new session are empty.
LEMMA NewOwnerBooks == Good(BeginReconnect(NewOwner), {})
<1> DEFINE o == NewOwner
<1>1. IsOwner(o)
  BY DEF NewOwner, IsOwner, Fields
<1>2. /\ o.pending = {} /\ o.sent = {} /\ o.handed = {}
      /\ o.result = [r \in Requests |-> <<>>]
      /\ o.kind = [r \in Requests |-> "request"] /\ o.scope = [r \in Requests |-> 0]
      /\ o.tid = [r \in Requests |-> 0] /\ o.nextTID = 1
      /\ o.inFlight = 0 /\ o.controlCount = 0 /\ o.retainedBytes = 0
      /\ o.pendingAck = 0 /\ o.controlQueue = <<>>
  BY DEF NewOwner
<1> HIDE DEF o
<1>3. Answers(o, {}) /\ Honest(o, {}) /\ Distinct(o)
  BY <1>2 DEF Answers, Honest, Distinct
<1>4. Counted(o)
  <2>1. Plain(o) \cap o.sent = {} /\ Plain(o) = {} /\ Controls(o) = {}
    BY <1>2 DEF Plain, Controls
  <2> QED BY <1>2, <2>1, FS_EmptySet, ConfigAssumption DEF Counted
<1>5. Books(o, {}) /\ Calm(o)
  BY <1>1, <1>2, <1>3, <1>4, Queues DEF Books, Calm
<1> QED BY <1>5, BeginReconnectBooks, CalmReserve DEF Good, o

-----------------------------------------------------------------------------
(***************************************************************************)
(* The session.                                                            *)
(***************************************************************************)

SBooks == Good(owner, Called)

\* One iteration of run keeps the books if the case of its select does.
LEMMA IterateBooks ==
  ASSUME NEW o, Good(o, Called'), Iterate(o)
  PROVE  SBooks'
  BY DispatchBooks DEF Iterate, SBooks

\* Every step of a caller, a pump or a timer keeps the books.
LEMMA StepBooks == ASSUME SInv, SBooks, [Next]_vars PROVE SBooks'
<1> USE DEF SBooks
<1>1. ASSUME UNCHANGED caller PROVE Called' = Called
  BY <1>1 DEF Called
<1>2. ASSUME NEW r \in Requests, CallSubmit(r) PROVE SBooks'
  <2>1. PICK kind, tid, scope :
          Iterate(Submit(owner, r, kind, scope, tid, r \in canceled))
    BY <1>2 DEF CallSubmit
  <2>2. Called' = Called \cup {r} /\ r \notin Called
    BY <1>2 DEF CallSubmit, IsNext, Called, SInv
  <2>3. Good(Submit(owner, r, kind, scope, tid, r \in canceled), Called')
    BY <2>2, SubmitBooks
  <2> QED BY <2>1, <2>3, IterateBooks
<1>3. ASSUME NEW r \in Requests, CallRefused(r) PROVE SBooks'
  BY <1>3 DEF CallRefused, IsNext, Called, SInv
<1>4. ASSUME NEW r \in Requests, ContextDone(r) PROVE SBooks'
  BY <1>1, <1>4 DEF ContextDone
<1>5. ASSUME NEW r \in Requests, CallCancel(r) PROVE SBooks'
  <2>1. Called' = Called
    BY <1>5 DEF CallCancel, Called, SInv
  <2>2. Good(Cancel(owner, r), Called')
    BY <2>1, CancelBooks
  <2> QED BY <1>5, <2>2, IterateBooks DEF CallCancel
<1>6. ASSUME NEW r \in Requests, CallReturn(r) PROVE SBooks'
  BY <1>6 DEF CallReturn, Called, SInv
<1>7. ASSUME CallSnapshot PROVE SBooks'
  BY <1>1, <1>7, IterateBooks DEF CallSnapshot
<1>8. ASSUME NEW p, SamePage(owner, p), Acks(p) = Acks(owner) PROVE Good(p, Called)
  BY <1>8, PageBooks, SameReserve DEF Good
<1>9. ASSUME Deliver PROVE SBooks'
  <2> DEFINE p == [owner EXCEPT !.receiveQueue = Tail(@)]
  <2>1. SamePage(owner, p) /\ Acks(p) = Acks(owner)
    BY DEF Good, Books, IsOwner, Fields, SamePage, Page, Acks
  <2>2. Iterate(p)
    BY <1>9 DEF Deliver
  <2> HIDE DEF p
  <2> QED BY <1>1, <1>8, <1>9, <2>1, <2>2, IterateBooks DEF Deliver
<1>10. ASSUME CallStop PROVE SBooks'
  BY <1>1, <1>10, StopBooks, IterateBooks DEF CallStop
<1>11. ASSUME NEW tag \in PeerTags, NEW frame \in PeerFrame(tag), TakeFrame(frame)
       PROVE  SBooks'
  <2>1. frame.tag \in Tags
    BY EnvironmentAssumption DEF PeerFrame
  <2>2. Good(HandleFrame(owner, frame), Called)
    BY <2>1, HandleFrameBooks
  <2> QED BY <1>1, <1>11, <2>2, IterateBooks DEF TakeFrame
<1>12. ASSUME ReadPump(NoFrame) PROVE SBooks'
  BY <1>1, <1>12 DEF ReadPump
<1>13. ASSUME NEW task \in owner.writing, NEW ok \in BOOLEAN, WritePump(task, ok)
       PROVE  SBooks'
  <2> DEFINE p == [owner EXCEPT !.writing = @ \ {task}]
  <2>1. SamePage(owner, p) /\ Acks(p) = Acks(owner)
    BY DEF Good, Books, IsOwner, Fields, SamePage, Page, Acks
  <2>2. owner' = p /\ Called' = Called
    BY <1>13 DEF WritePump, Called
  <2> HIDE DEF p
  <2> QED BY <1>8, <2>1, <2>2
<1>14. ASSUME TakeWritten PROVE SBooks'
  BY <1>1, <1>14, HandleWrittenBooks, IterateBooks DEF TakeWritten
<1>15. ASSUME RenewalDue PROVE SBooks'
  <2> DEFINE p == [owner EXCEPT !.renewalArmed = FALSE, !.renewalPending = TRUE]
  <2>1. SamePage(owner, p) /\ Acks(p) = Acks(owner)
    BY DEF Good, Books, IsOwner, Fields, SamePage, Page, Acks
  <2>2. Iterate(p)
    BY <1>15 DEF RenewalDue
  <2> HIDE DEF p
  <2> QED BY <1>1, <1>8, <1>15, <2>1, <2>2, IterateBooks DEF RenewalDue
<1>16. ASSUME NEW outcome \in ConnectOutcomes, Connected(outcome) PROVE SBooks'
  <2>1. owner.state # "Ready"
    BY <1>16 DEF Connected, SInv, Inv, Linked, OpenStates
  <2>2. owner.pendingAck = 0
    BY <2>1 DEF Good, Reserve
  <2>3. Good(HandleConnected(owner, outcome), Called)
    BY <2>2, HandleConnectedBooks
  <2> QED BY <1>1, <1>16, <2>3, IterateBooks DEF Connected
<1>17. ASSUME AckTimer PROVE SBooks'
  BY <1>1, <1>17, FlushBooks, IterateBooks DEF AckTimer
<1>18. ASSUME UNCHANGED vars PROVE SBooks'
  BY <1>1, <1>18 DEF vars
<1> HIDE DEF SBooks
<1>19. ASSUME ClientNext PROVE SBooks'
  BY <1>2, <1>3, <1>4, <1>5, <1>6, <1>7, <1>9, <1>10, <1>14, <1>15, <1>16, <1>17, <1>19
     DEF ClientNext
<1> QED BY <1>11, <1>12, <1>13, <1>18, <1>19 DEF Next

\* The books are right for ever.
THEOREM BooksInvariant == Spec => []SBooks
<1>1. Init => SBooks
  <2> SUFFICES ASSUME Init PROVE SBooks
    OBVIOUS
  <2>1. Called = {}
    BY DEF Init, Called
  <2> QED BY <2>1, NewOwnerBooks DEF Init, SBooks
<1>2. SInv /\ SBooks /\ [Next]_vars => SBooks'
  BY StepBooks
<1> QED BY <1>1, <1>2, SessionInvariant, PTL DEF Spec

\* The counters that admission and dispatch rely on agree with the lists, and stay within
\* their limits, through every fault, replay, reset and cancellation.
THEOREM AccountingAlways == Spec => []Accounting
<1>1. SBooks => Accounting
  BY DEF SBooks, Good, Books, Counted, Plain, Controls, Accounting
<1> QED BY <1>1, BooksInvariant, PTL

\* Who is told of an error without ErrOutcomeUnknown after a message was handed to a write
\* pump is a scoped control whose transport is gone, or one whose context is done.
THEOREM DefiniteFailuresAlways == Spec => []DefiniteFailures
<1>1. SBooks => DefiniteFailures
  <2> SUFFICES ASSUME SBooks, NEW r \in owner.handed, Definite(r)
               PROVE  \/ Reports(r, "invalidated") /\ owner.scope[r] # 0
                      \/ Reports(r, "canceled") /\ ~IsControl(owner, r)
    BY DEF DefiniteFailures
  <2>1. Honest(owner, Called) /\ Answers(owner, Called)
    BY DEF SBooks, Good, Books
  <2>2. r \notin owner.pending
    <3>1. CASE r \in owner.pending
      <4>1. owner.result[r] = <<>>
        BY <2>1, <3>1 DEF Answers
      <4> QED BY <4>1 DEF Definite
    <3> QED BY <3>1
  <2>3. PICK x : owner.result[r] = <<x>> /\ Truthful(owner, r, x)
    BY <2>1, <2>2 DEF Honest
  <2>4. Len(owner.result[r]) = 1 /\ owner.result[r][1] = x
    BY <2>3
  <2>5. x.err # "none" /\ ~x.unknown
    BY <2>4 DEF Definite
  <2>6. \A err : x.err = err => Reports(r, err)
    BY <2>4 DEF Reports
  <2> QED BY <2>3, <2>5, <2>6 DEF Truthful
<1> QED BY <1>1, BooksInvariant, PTL

\* A delayed acknowledgment is for the last message accepted on this transport, and its
\* place in the control queue is free when its timer fires.
THEOREM AckReserveAlways == Spec => []AckReserve
<1>1. SBooks => AckReserve
  BY DEF SBooks, Good, Reserve, AckReserve
<1> QED BY <1>1, BooksInvariant, PTL

\* No two pending requests share a transaction id, whether the callers brought theirs or
\* takeTID gave them one: a reply has one request to complete.
THEOREM DistinctTIDsAlways == Spec => []DistinctTIDs
<1>1. SBooks => DistinctTIDs
  BY DEF SBooks, Good, Books, Distinct, DistinctTIDs
<1> QED BY <1>1, BooksInvariant, PTL

=============================================================================
