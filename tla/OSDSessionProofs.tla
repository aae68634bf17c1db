-------------------------- MODULE OSDSessionProofs --------------------------
(***************************************************************************)
(* No request is forgotten and no acknowledgment is misplaced by the       *)
(* session of an OSD (module OSDSession), for any callers, objects, ranges,*)
(* backoff ids and limits.                                                 *)
(*                                                                         *)
(* The hard part is that blocks and unblocks are in flight while requests  *)
(* are dropped: which blocks of the OSD the client knows, or will know once*)
(* it has read what is on its way, follows from the order of the messages. *)
(* Ordered states it of a sequence of messages, a set of known backoffs and*)
(* the OSD's blocks, and a lemma for each step says how it is kept.        *)
(***************************************************************************)
EXTENDS OSDSession, SequenceTheorems, TLAPS

-----------------------------------------------------------------------------
(***************************************************************************)
(* The order of the messages: q is what is on its way, g the present       *)
(* generation, K the backoffs the client knows and B the OSD's blocks.     *)
(***************************************************************************)

Block(m, g) == m.kind = "block" /\ m.generation = g
Unblock(m, g, id) == m.kind = "unblock" /\ m.generation = g /\ m.id = id

\* The block of id was ended somewhere behind position i.
EndedAfter(q, g, id, i) == \E j \in 1..Len(q) : i < j /\ Unblock(q[j], g, id)

\* Between two blocks of an id is its unblock; a block of a known id follows its unblock.
Alternate(q, g, K) ==
  /\ \A i, j \in 1..Len(q) :
       i < j /\ Block(q[i], g) /\ Block(q[j], g) /\ q[i].id = q[j].id =>
         \E k \in 1..Len(q) : i < k /\ k < j /\ Unblock(q[k], g, q[i].id)
  /\ \A b \in K, j \in 1..Len(q) :
       b.generation = g /\ Block(q[j], g) /\ b.id = q[j].id =>
         \E k \in 1..Len(q) : k < j /\ Unblock(q[k], g, b.id)

\* What the OSD blocks is known or on its way, and its end is not.
Announced(q, g, K, B) ==
  \A b \in B :
    /\ Block(b, g)
    /\ \/ b \in K /\ ~EndedAfter(q, g, b.id, 0)
       \/ \E i \in 1..Len(q) : q[i] = b /\ ~EndedAfter(q, g, b.id, i)
    /\ \A c \in B : b.id = c.id => b = c

\* What the OSD does not block any more has its end on its way.
Retracted(q, g, K, B) ==
  /\ \A i \in 1..Len(q) : Block(q[i], g) =>
       (\E b \in B : b.id = q[i].id) \/ EndedAfter(q, g, q[i].id, i)
  /\ \A k \in K : k.generation = g =>
       (\E b \in B : b.id = k.id) \/ EndedAfter(q, g, k.id, 0)

Ordered(q, g, K, B) == Alternate(q, g, K) /\ Announced(q, g, K, B) /\ Retracted(q, g, K, B)

\* Positions of a sequence and of what is left when its head is taken.
LEMMA TailAt ==
  ASSUME NEW M, NEW q \in Seq(M), q # <<>>
  PROVE  /\ Len(q) \in Nat \ {0} /\ Head(q) = q[1] /\ Tail(q) \in Seq(M) /\ Len(Tail(q)) = Len(q) - 1
         /\ \A i \in 1..Len(Tail(q)) : i + 1 \in 1..Len(q) /\ Tail(q)[i] = q[i + 1]
         /\ \A i \in 1..Len(q) : i # 1 => i - 1 \in 1..Len(Tail(q)) /\ Tail(q)[i - 1] = q[i]
<1>1. Len(q) \in Nat \ {0} /\ Len(Tail(q)) = Len(q) - 1 /\ Tail(q) \in Seq(M)
  OBVIOUS
<1>2. \A i \in 1..Len(Tail(q)) : Tail(q)[i] = q[i + 1]
  BY <1>1
<1>. QED
  BY <1>1, <1>2

\* An unblock that is behind position i is there still when the head is taken.
LEMMA EndedTail ==
  ASSUME NEW M, NEW q \in Seq(M), q # <<>>, NEW g, NEW id, NEW i \in Nat
  PROVE  /\ EndedAfter(Tail(q), g, id, i) => EndedAfter(q, g, id, i + 1)
         /\ EndedAfter(q, g, id, i + 1) => EndedAfter(Tail(q), g, id, i)
         /\ ~Unblock(Head(q), g, id) /\ EndedAfter(q, g, id, 0) => EndedAfter(Tail(q), g, id, 0)
<1> DEFINE t == Tail(q)
<1>1. /\ Len(q) \in Nat \ {0} /\ Head(q) = q[1] /\ Len(t) = Len(q) - 1
      /\ \A j \in 1..Len(t) : j + 1 \in 1..Len(q) /\ t[j] = q[j + 1]
      /\ \A j \in 1..Len(q) : j # 1 => j - 1 \in 1..Len(t) /\ t[j - 1] = q[j]
  BY TailAt
<1> HIDE DEF t
<1>2. EndedAfter(t, g, id, i) => EndedAfter(q, g, id, i + 1)
  <2> SUFFICES ASSUME NEW j \in 1..Len(t), i < j, Unblock(t[j], g, id) PROVE EndedAfter(q, g, id, i + 1)
    BY DEF EndedAfter
  <2>1. j + 1 \in 1..Len(q) /\ i + 1 < j + 1 /\ Unblock(q[j + 1], g, id)
    BY <1>1
  <2>. QED
    BY <2>1 DEF EndedAfter
<1>3. ASSUME NEW j \in 1..Len(q), j # 1, i + 1 < j \/ i = 0, Unblock(q[j], g, id) PROVE EndedAfter(t, g, id, i)
  <2>1. j - 1 \in 1..Len(t) /\ i < j - 1 /\ Unblock(t[j - 1], g, id)
    BY <1>1, <1>3
  <2>. QED
    BY <2>1 DEF EndedAfter
<1>4. EndedAfter(q, g, id, i + 1) => EndedAfter(t, g, id, i)
  <2> SUFFICES ASSUME NEW j \in 1..Len(q), i + 1 < j, Unblock(q[j], g, id) PROVE EndedAfter(t, g, id, i)
    BY DEF EndedAfter
  <2>. QED
    BY <1>3
<1>5. ~Unblock(Head(q), g, id) /\ EndedAfter(q, g, id, 0) => EndedAfter(t, g, id, 0)
  <2> SUFFICES ASSUME ~Unblock(q[1], g, id), NEW j \in 1..Len(q), Unblock(q[j], g, id) PROVE EndedAfter(t, g, id, 0)
    BY <1>1 DEF EndedAfter
  <2>1. j # 1
    OBVIOUS
  <2>2. j - 1 \in 1..Len(t) /\ 0 < j - 1 /\ Unblock(t[j - 1], g, id)
    BY <1>1, <2>1
  <2>. QED
    BY <2>2 DEF EndedAfter
<1>. QED
  BY <1>2, <1>4, <1>5 DEF t

\* Taking the head of what is on its way keeps the blocks of what is left apart.
LEMMA AlternateTail ==
  ASSUME NEW M, NEW q \in Seq(M), q # <<>>, NEW g, NEW K, NEW L, Alternate(q, g, K),
         \A b \in L : \/ b \in K /\ ~Unblock(Head(q), g, b.id)
                      \/ b = Head(q) /\ Block(b, g)
  PROVE  Alternate(Tail(q), g, L)
<1> DEFINE t == Tail(q)
<1>1. /\ Len(q) \in Nat \ {0} /\ Head(q) = q[1] /\ Len(t) = Len(q) - 1
      /\ \A j \in 1..Len(t) : j + 1 \in 1..Len(q) /\ t[j] = q[j + 1]
      /\ \A j \in 1..Len(q) : j # 1 => j - 1 \in 1..Len(t) /\ t[j - 1] = q[j]
  BY TailAt
<1> HIDE DEF t
<1>2. ASSUME NEW i \in 1..Len(t), NEW j \in 1..Len(t), i < j, Block(t[i], g), Block(t[j], g), t[i].id = t[j].id
      PROVE  \E k \in 1..Len(t) : i < k /\ k < j /\ Unblock(t[k], g, t[i].id)
  <2>1. /\ i + 1 \in 1..Len(q) /\ j + 1 \in 1..Len(q) /\ i + 1 < j + 1
        /\ Block(q[i + 1], g) /\ Block(q[j + 1], g) /\ q[i + 1].id = q[j + 1].id
    BY <1>1, <1>2
  <2>2. PICK k \in 1..Len(q) : i + 1 < k /\ k < j + 1 /\ Unblock(q[k], g, q[i + 1].id)
    BY <2>1 DEF Alternate
  <2>3. k - 1 \in 1..Len(t) /\ i < k - 1 /\ k - 1 < j /\ Unblock(t[k - 1], g, t[i].id)
    BY <1>1, <2>2
  <2>. QED
    BY <2>3
<1>3. ASSUME NEW b \in L, NEW j \in 1..Len(t), b.generation = g, Block(t[j], g), b.id = t[j].id
      PROVE  \E k \in 1..Len(t) : k < j /\ Unblock(t[k], g, b.id)
  <2>1. j + 1 \in 1..Len(q) /\ t[j] = q[j + 1] /\ Block(q[j + 1], g) /\ b.id = q[j + 1].id
    BY <1>1, <1>3
  <2>2. ASSUME NEW k \in 1..Len(q), k # 1, k < j + 1, Unblock(q[k], g, b.id)
        PROVE  \E n \in 1..Len(t) : n < j /\ Unblock(t[n], g, b.id)
    <3>1. k - 1 \in 1..Len(t) /\ k - 1 < j /\ Unblock(t[k - 1], g, b.id)
      BY <1>1, <2>2
    <3>. QED
      BY <3>1
  <2>3. CASE b \in K /\ ~Unblock(Head(q), g, b.id)
    <3>1. PICK k \in 1..Len(q) : k < j + 1 /\ Unblock(q[k], g, b.id)
      BY <2>1, <2>3, <1>3 DEF Alternate
    <3>2. k # 1
      BY <3>1, <2>3, <1>1
    <3>. QED
      BY <3>1, <3>2, <2>2
  <2>4. CASE b = Head(q) /\ Block(b, g)
    <3>1. 1 \in 1..Len(q) /\ 1 < j + 1 /\ Block(q[1], g) /\ q[1].id = q[j + 1].id
      BY <2>1, <2>4, <1>1
    <3>2. PICK k \in 1..Len(q) : 1 < k /\ k < j + 1 /\ Unblock(q[k], g, q[1].id)
      BY <2>1, <3>1 DEF Alternate
    <3>. QED
      BY <3>2, <2>2, <2>4, <1>1
  <2>. QED
    BY <2>3, <2>4
<1>4. Alternate(t, g, L)
  BY <1>2, <1>3 DEF Alternate
<1>. QED
  BY <1>4 DEF t

\* A block that is on its way is known once it is taken, others stay where they are.
LEMMA AnnouncedTail ==
  ASSUME NEW M, NEW q \in Seq(M), q # <<>>, NEW g, NEW K, NEW L, NEW B, Announced(q, g, K, B),
         \A b \in B : b \in K /\ ~Unblock(Head(q), g, b.id) => b \in L,
         Block(Head(q), g) => Head(q) \in L
  PROVE  Announced(Tail(q), g, L, B)
<1> DEFINE t == Tail(q)
<1>1. /\ Len(q) \in Nat \ {0} /\ Head(q) = q[1] /\ Len(t) = Len(q) - 1
      /\ \A j \in 1..Len(q) : j # 1 => j - 1 \in 1..Len(t) /\ t[j - 1] = q[j]
  BY TailAt
<1> SUFFICES ASSUME NEW b \in B
             PROVE  \/ b \in L /\ ~EndedAfter(t, g, b.id, 0)
                    \/ \E i \in 1..Len(t) : t[i] = b /\ ~EndedAfter(t, g, b.id, i)
  BY DEF Announced
<1>2. Block(b, g)
  BY DEF Announced
<1>3. EndedAfter(t, g, b.id, 0) => EndedAfter(q, g, b.id, 1)
  BY EndedTail
<1>4. EndedAfter(q, g, b.id, 1) => EndedAfter(q, g, b.id, 0)
  BY DEF EndedAfter
<1>5. CASE b \in K /\ ~EndedAfter(q, g, b.id, 0)
  <2>1. ~Unblock(q[1], g, b.id)
    BY <1>1, <1>5 DEF EndedAfter
  <2>. QED
    BY <1>1, <1>3, <1>4, <1>5, <2>1
<1>6. ASSUME NEW i \in 1..Len(q), q[i] = b, ~EndedAfter(q, g, b.id, i)
      PROVE  \/ b \in L /\ ~EndedAfter(t, g, b.id, 0)
             \/ \E j \in 1..Len(t) : t[j] = b /\ ~EndedAfter(t, g, b.id, j)
  <2>1. CASE i = 1
    BY <1>1, <1>2, <1>3, <1>6, <2>1
  <2>2. CASE i # 1
    <3>1. i - 1 \in 1..Len(t) /\ t[i - 1] = b /\ i - 1 \in Nat /\ (i - 1) + 1 = i
      BY <1>1, <1>6, <2>2
    <3>2. ~EndedAfter(t, g, b.id, i - 1)
      BY <3>1, <1>6, EndedTail
    <3>. QED
      BY <3>1, <3>2
  <2>. QED
    BY <2>1, <2>2
<1>. QED
  BY <1>5, <1>6 DEF Announced

\* What was retracted is so still when the head is taken.
LEMMA RetractedTail ==
  ASSUME NEW M, NEW q \in Seq(M), q # <<>>, NEW g, NEW K, NEW L, NEW B, Retracted(q, g, K, B),
         \A b \in L : \/ b \in K /\ ~Unblock(Head(q), g, b.id)
                      \/ b = Head(q) /\ Block(b, g)
  PROVE  Retracted(Tail(q), g, L, B)
<1> DEFINE t == Tail(q)
<1>1. /\ Len(q) \in Nat \ {0} /\ Head(q) = q[1] /\ Len(t) = Len(q) - 1
      /\ \A j \in 1..Len(t) : j + 1 \in 1..Len(q) /\ t[j] = q[j + 1]
  BY TailAt
<1>2. ASSUME NEW i \in 1..Len(t), Block(t[i], g)
      PROVE  (\E b \in B : b.id = t[i].id) \/ EndedAfter(t, g, t[i].id, i)
  <2>1. i + 1 \in 1..Len(q) /\ t[i] = q[i + 1] /\ i \in Nat
    BY <1>1
  <2>2. (\E b \in B : b.id = t[i].id) \/ EndedAfter(q, g, t[i].id, i + 1)
    BY <2>1, <1>2 DEF Retracted
  <2>. QED
    BY <2>1, <2>2, EndedTail
<1>3. ASSUME NEW k \in L, k.generation = g
      PROVE  (\E b \in B : b.id = k.id) \/ EndedAfter(t, g, k.id, 0)
  <2>1. CASE k \in K /\ ~Unblock(Head(q), g, k.id)
    <3>1. (\E b \in B : b.id = k.id) \/ EndedAfter(q, g, k.id, 0)
      BY <1>3, <2>1 DEF Retracted
    <3>. QED
      BY <2>1, <3>1, EndedTail
  <2>2. CASE k = Head(q) /\ Block(k, g)
    <3>1. 1 \in 1..Len(q) /\ q[1] = k
      BY <1>1, <2>2
    <3>2. (\E b \in B : b.id = k.id) \/ EndedAfter(q, g, k.id, 1)
      BY <3>1, <2>2 DEF Retracted
    <3>. QED
      BY <3>2, EndedTail
  <2>. QED
    BY <1>3, <2>1, <2>2
<1>. QED
  BY <1>2, <1>3 DEF Retracted

\* The three together, for a message that is taken from the head.
LEMMA OrderedTail ==
  ASSUME NEW M, NEW q \in Seq(M), q # <<>>, NEW g, NEW K, NEW L, NEW B, Ordered(q, g, K, B),
         \A b \in L : \/ b \in K /\ ~Unblock(Head(q), g, b.id)
                      \/ b = Head(q) /\ Block(b, g),
         \A b \in B : b \in K /\ ~Unblock(Head(q), g, b.id) => b \in L,
         Block(Head(q), g) => Head(q) \in L
  PROVE  Ordered(Tail(q), g, L, B)
<1>1. Alternate(Tail(q), g, L)
  BY AlternateTail DEF Ordered
<1>2. Announced(Tail(q), g, L, B)
  BY AnnouncedTail DEF Ordered
<1>3. Retracted(Tail(q), g, L, B)
  BY RetractedTail DEF Ordered
<1>. QED
  BY <1>1, <1>2, <1>3 DEF Ordered

\* When a block of the present transport is at the head, its id is not known: the OSD
\* would have ended it first.
LEMMA HeadIsNew ==
  ASSUME NEW M, NEW q \in Seq(M), q # <<>>, NEW g, NEW K, NEW B, Ordered(q, g, K, B), Block(Head(q), g),
         NEW b \in K, b.generation = g
  PROVE  b.id # Head(q).id
<1>1. 1 \in 1..Len(q) /\ Head(q) = q[1]
  BY TailAt
<1>2. b.id = q[1].id => \E k \in 1..Len(q) : k < 1 /\ Unblock(q[k], g, b.id)
  BY <1>1 DEF Ordered, Alternate
<1>. QED
  BY <1>1, <1>2

\* Positions of a sequence with a message at its end.
LEMMA AppendAt ==
  ASSUME NEW M, NEW q \in Seq(M), NEW m \in M
  PROVE  /\ Append(q, m) \in Seq(M) /\ Len(q) \in Nat /\ Len(Append(q, m)) = Len(q) + 1
         /\ Append(q, m)[Len(q) + 1] = m
         /\ \A i \in 1..Len(q) : Append(q, m)[i] = q[i] /\ i \in 1..Len(Append(q, m))
         /\ \A i \in 1..Len(Append(q, m)) : i \in 1..Len(q) \/ i = Len(q) + 1
  OBVIOUS

\* A message at the end ends nothing unless it is an unblock.
LEMMA EndedAppend ==
  ASSUME NEW M, NEW q \in Seq(M), NEW m \in M, NEW g, NEW id, NEW i \in 0..Len(q)
  PROVE  /\ EndedAfter(q, g, id, i) => EndedAfter(Append(q, m), g, id, i)
         /\ Unblock(m, g, id) => EndedAfter(Append(q, m), g, id, i)
         /\ EndedAfter(Append(q, m), g, id, i) => EndedAfter(q, g, id, i) \/ Unblock(m, g, id)
<1> DEFINE a == Append(q, m)
<1>1. /\ Len(q) \in Nat /\ Len(a) = Len(q) + 1 /\ a[Len(q) + 1] = m
      /\ \A j \in 1..Len(q) : a[j] = q[j] /\ j \in 1..Len(a)
      /\ \A j \in 1..Len(a) : j \in 1..Len(q) \/ j = Len(q) + 1
  BY AppendAt
<1> HIDE DEF a
<1>2. EndedAfter(q, g, id, i) => EndedAfter(a, g, id, i)
  BY <1>1 DEF EndedAfter
<1>3. Unblock(m, g, id) => EndedAfter(a, g, id, i)
  <2>1. Len(q) + 1 \in 1..Len(a) /\ i < Len(q) + 1
    BY <1>1
  <2>. QED
    BY <1>1, <2>1 DEF EndedAfter
<1>4. EndedAfter(a, g, id, i) => EndedAfter(q, g, id, i) \/ Unblock(m, g, id)
  BY <1>1 DEF EndedAfter
<1>. QED
  BY <1>2, <1>3, <1>4 DEF a

\* A message that is no block keeps the blocks apart.
LEMMA AlternateAppend ==
  ASSUME NEW M, NEW q \in Seq(M), NEW m \in M, NEW g, NEW K, Alternate(q, g, K),
         Block(m, g) =>
           /\ \A i \in 1..Len(q) : Block(q[i], g) /\ q[i].id = m.id => EndedAfter(q, g, m.id, i)
           /\ \A b \in K : b.generation = g /\ b.id = m.id => EndedAfter(q, g, m.id, 0)
  PROVE  Alternate(Append(q, m), g, K)
<1> DEFINE a == Append(q, m)
<1>1. /\ Len(q) \in Nat /\ Len(a) = Len(q) + 1 /\ a[Len(q) + 1] = m
      /\ \A j \in 1..Len(q) : a[j] = q[j] /\ j \in 1..Len(a)
      /\ \A j \in 1..Len(a) : j \in 1..Len(q) \/ j = Len(q) + 1
  BY AppendAt
<1> HIDE DEF a
<1>2. ASSUME NEW i \in 1..Len(a), NEW j \in 1..Len(a), i < j, Block(a[i], g), Block(a[j], g), a[i].id = a[j].id
      PROVE  \E k \in 1..Len(a) : i < k /\ k < j /\ Unblock(a[k], g, a[i].id)
  <2>1. i \in 1..Len(q) /\ a[i] = q[i]
    BY <1>1, <1>2
  <2>2. CASE j \in 1..Len(q)
    <3>1. PICK k \in 1..Len(q) : i < k /\ k < j /\ Unblock(q[k], g, q[i].id)
      BY <2>1, <2>2, <1>1, <1>2 DEF Alternate
    <3>. QED
      BY <3>1, <2>1, <1>1
  <2>3. CASE j = Len(q) + 1
    <3>1. EndedAfter(q, g, m.id, i)
      BY <1>1, <1>2, <2>1, <2>3
    <3>2. PICK k \in 1..Len(q) : i < k /\ Unblock(q[k], g, m.id)
      BY <3>1 DEF EndedAfter
    <3>. QED
      BY <3>2, <2>3, <1>1, <1>2
  <2>. QED
    BY <1>1, <2>2, <2>3
<1>3. ASSUME NEW b \in K, NEW j \in 1..Len(a), b.generation = g, Block(a[j], g), b.id = a[j].id
      PROVE  \E k \in 1..Len(a) : k < j /\ Unblock(a[k], g, b.id)
  <2>2. CASE j \in 1..Len(q)
    <3>1. PICK k \in 1..Len(q) : k < j /\ Unblock(q[k], g, b.id)
      BY <2>2, <1>1, <1>3 DEF Alternate
    <3>. QED
      BY <3>1, <1>1
  <2>3. CASE j = Len(q) + 1
    <3>1. EndedAfter(q, g, m.id, 0)
      BY <1>1, <1>3, <2>3
    <3>2. PICK k \in 1..Len(q) : Unblock(q[k], g, m.id)
      BY <3>1 DEF EndedAfter
    <3>. QED
      BY <3>2, <2>3, <1>1, <1>3
  <2>. QED
    BY <1>1, <2>2, <2>3
<1>4. Alternate(a, g, K)
  BY <1>2, <1>3 DEF Alternate
<1>. QED
  BY <1>4 DEF a

\* What is announced stays so while its end is not sent.
LEMMA AnnouncedAppend ==
  ASSUME NEW M, NEW q \in Seq(M), NEW m \in M, NEW g, NEW K, NEW B, NEW C, Announced(q, g, K, B),
         \A b \in C : b \in B \/ (b = m /\ Block(m, g)),
         \A b, c \in C : b.id = c.id => b = c,
         \A b \in C : ~Unblock(m, g, b.id)
  PROVE  Announced(Append(q, m), g, K, C)
<1> DEFINE a == Append(q, m)
<1>1. /\ Len(q) \in Nat /\ Len(a) = Len(q) + 1 /\ a[Len(q) + 1] = m
      /\ \A j \in 1..Len(q) : a[j] = q[j] /\ j \in 1..Len(a)
  BY AppendAt
<1> SUFFICES ASSUME NEW b \in C
             PROVE  /\ Block(b, g)
                    /\ \/ b \in K /\ ~EndedAfter(a, g, b.id, 0)
                       \/ \E i \in 1..Len(a) : a[i] = b /\ ~EndedAfter(a, g, b.id, i)
  BY DEF Announced
<1>2. ASSUME NEW i \in 0..Len(q), ~EndedAfter(q, g, b.id, i) PROVE ~EndedAfter(a, g, b.id, i)
  BY <1>2, EndedAppend
<1>3. CASE b \in B
  <2>1. /\ Block(b, g)
        /\ \/ b \in K /\ ~EndedAfter(q, g, b.id, 0)
           \/ \E i \in 1..Len(q) : q[i] = b /\ ~EndedAfter(q, g, b.id, i)
    BY <1>3 DEF Announced
  <2>2. CASE b \in K /\ ~EndedAfter(q, g, b.id, 0)
    BY <1>1, <1>2, <2>1, <2>2
  <2>3. ASSUME NEW i \in 1..Len(q), q[i] = b, ~EndedAfter(q, g, b.id, i)
        PROVE  \E j \in 1..Len(a) : a[j] = b /\ ~EndedAfter(a, g, b.id, j)
    <3>1. i \in 0..Len(q)
      BY <1>1
    <3>. QED
      BY <3>1, <1>1, <1>2, <2>3
  <2>. QED
    BY <2>1, <2>2, <2>3
<1>4. CASE b = m /\ Block(m, g)
  <2>1. Len(q) + 1 \in 1..Len(a) /\ a[Len(q) + 1] = b
    BY <1>1, <1>4
  <2>2. ~EndedAfter(a, g, b.id, Len(q) + 1)
    BY <1>1 DEF EndedAfter
  <2>. QED
    BY <1>4, <2>1, <2>2
<1>. QED
  BY <1>3, <1>4

\* What is retracted stays so, and an unblock retracts its block.
LEMMA RetractedAppend ==
  ASSUME NEW M, NEW q \in Seq(M), NEW m \in M, NEW g, NEW K, NEW B, NEW C, Retracted(q, g, K, B),
         \A b \in B : (\E c \in C : c.id = b.id) \/ Unblock(m, g, b.id),
         Block(m, g) => \E c \in C : c.id = m.id
  PROVE  Retracted(Append(q, m), g, K, C)
<1> DEFINE a == Append(q, m)
<1>1. /\ Len(q) \in Nat /\ Len(a) = Len(q) + 1 /\ a[Len(q) + 1] = m
      /\ \A j \in 1..Len(q) : a[j] = q[j] /\ j \in 1..Len(a)
      /\ \A j \in 1..Len(a) : j \in 1..Len(q) \/ j = Len(q) + 1
  BY AppendAt
<1>2. ASSUME NEW i \in 0..Len(q), NEW id, (\E b \in B : b.id = id) \/ EndedAfter(q, g, id, i)
      PROVE  (\E c \in C : c.id = id) \/ EndedAfter(a, g, id, i)
  BY <1>2, EndedAppend
<1>3. ASSUME NEW i \in 1..Len(a), Block(a[i], g)
      PROVE  (\E c \in C : c.id = a[i].id) \/ EndedAfter(a, g, a[i].id, i)
  <2>1. CASE i \in 1..Len(q)
    <3>1. i \in 0..Len(q) /\ a[i] = q[i]
      BY <1>1, <2>1
    <3>2. (\E b \in B : b.id = a[i].id) \/ EndedAfter(q, g, a[i].id, i)
      BY <3>1, <2>1, <1>3 DEF Retracted
    <3> HIDE DEF a
    <3>. QED
      BY <3>1, <3>2, <1>2
  <2>2. CASE i = Len(q) + 1
    BY <1>1, <1>3, <2>2
  <2>. QED
    BY <1>1, <2>1, <2>2
<1>4. ASSUME NEW k \in K, k.generation = g
      PROVE  (\E c \in C : c.id = k.id) \/ EndedAfter(a, g, k.id, 0)
  <2>1. (\E b \in B : b.id = k.id) \/ EndedAfter(q, g, k.id, 0)
    BY <1>4 DEF Retracted
  <2>2. 0 \in 0..Len(q)
    BY <1>1
  <2> HIDE DEF a
  <2>. QED
    BY <2>1, <2>2, <1>2
<1>. QED
  BY <1>3, <1>4 DEF Retracted

\* The OSD blocks an id it does not block yet.
LEMMA OrderedBlock ==
  ASSUME NEW M, NEW q \in Seq(M), NEW m \in M, NEW g, NEW K, NEW B, Ordered(q, g, K, B),
         Block(m, g), \A b \in B : b.id # m.id
  PROVE  Ordered(Append(q, m), g, K, B \cup {m})
<1>1. /\ \A i \in 1..Len(q) : Block(q[i], g) /\ q[i].id = m.id => EndedAfter(q, g, m.id, i)
      /\ \A b \in K : b.generation = g /\ b.id = m.id => EndedAfter(q, g, m.id, 0)
  BY DEF Ordered, Retracted
<1>2. Alternate(Append(q, m), g, K)
  BY <1>1, AlternateAppend DEF Ordered
<1>3. \A b, c \in B \cup {m} : b.id = c.id => b = c
  BY DEF Ordered, Announced
<1>4. \A id : ~Unblock(m, g, id)
  BY DEF Block, Unblock
<1>5. Announced(Append(q, m), g, K, B \cup {m})
  BY <1>3, <1>4, AnnouncedAppend DEF Ordered
<1>6. Retracted(Append(q, m), g, K, B \cup {m})
  BY RetractedAppend DEF Ordered
<1>. QED
  BY <1>2, <1>5, <1>6 DEF Ordered

\* The OSD unblocks one of its blocks.
LEMMA OrderedUnblock ==
  ASSUME NEW M, NEW q \in Seq(M), NEW m \in M, NEW g, NEW K, NEW B, Ordered(q, g, K, B),
         NEW b \in B, Unblock(m, g, b.id)
  PROVE  Ordered(Append(q, m), g, K, B \ {b})
<1>1. ~Block(m, g)
  BY DEF Block, Unblock
<1>2. Alternate(Append(q, m), g, K)
  BY <1>1, AlternateAppend DEF Ordered
<1>3. /\ \A c, d \in B \ {b} : c.id = d.id => c = d
      /\ \A c \in B \ {b} : ~Unblock(m, g, c.id)
  BY DEF Ordered, Announced, Unblock
<1>4. Announced(Append(q, m), g, K, B \ {b})
  BY <1>3, AnnouncedAppend DEF Ordered
<1>5. \A c \in B : (\E d \in B \ {b} : d.id = c.id) \/ Unblock(m, g, c.id)
  OBVIOUS
<1>6. Retracted(Append(q, m), g, K, B \ {b})
  BY <1>1, <1>5, RetractedAppend DEF Ordered
<1>. QED
  BY <1>2, <1>4, <1>6 DEF Ordered

\* The OSD sends something else.
LEMMA OrderedOther ==
  ASSUME NEW M, NEW q \in Seq(M), NEW m \in M, NEW g, NEW K, NEW B, Ordered(q, g, K, B),
         m.kind \notin {"block", "unblock"}
  PROVE  Ordered(Append(q, m), g, K, B)
<1>1. ~Block(m, g) /\ \A id : ~Unblock(m, g, id)
  BY DEF Block, Unblock
<1>2. Alternate(Append(q, m), g, K)
  BY <1>1, AlternateAppend DEF Ordered
<1>3. \A b, c \in B : b.id = c.id => b = c
  BY DEF Ordered, Announced
<1>4. Announced(Append(q, m), g, K, B)
  BY <1>1, <1>3, AnnouncedAppend DEF Ordered
<1>5. Retracted(Append(q, m), g, K, B)
  BY <1>1, RetractedAppend DEF Ordered
<1>. QED
  BY <1>2, <1>4, <1>5 DEF Ordered

\* On a new transport nothing is blocked, known or on its way.
LEMMA OrderedAfresh ==
  ASSUME NEW q, NEW g, NEW K,
         \A i \in 1..Len(q) : q[i].generation # g, \A b \in K : b.generation # g
  PROVE  Ordered(q, g, K, {})
  BY DEF Ordered, Alternate, Announced, Retracted, Block, EndedAfter

\* Backoffs of a transport that is gone do not matter.
LEMMA OrderedReset ==
  ASSUME NEW q, NEW g, NEW K, NEW B, Ordered(q, g, K, B), \A b \in K : b.generation # g
  PROVE  Ordered(q, g, {}, B)
<1>1. Announced(q, g, {}, B)
  BY DEF Ordered, Announced, Block
<1>. QED
  BY <1>1 DEF Ordered, Alternate, Retracted

-----------------------------------------------------------------------------
(***************************************************************************)
(* The invariant.                                                          *)
(***************************************************************************)

SessionFields ==
  {"backoffs", "err", "receive", "received", "ackGeneration", "ackQueue", "ackActive", "ackCount",
   "ackFailed", "ackResults", "sendACKs", "stopped"}
RawFields == {"state", "generation", "reset", "incoming", "request"}
CallerFields == {"pc", "object", "resend", "canceled"}
Errors == {"none", "failed", "canceled", "invalidated"}
Results == [err : Errors, generation : Generations, transport : Generations]
Outcomes == {"none", "queued", "sent", "dropped", "replied", "failed", "unknown"}

\* receive runs until the session has failed, and has taken no message afterwards.
SessionShape(s) ==
  /\ DOMAIN s = SessionFields
  /\ s.backoffs \subseteq Messages
  /\ s.receive \in {"running", "stopping", "closing", "done"}
  /\ s.received \in Seq(Messages) /\ Len(s.received) <= 1
  /\ s.receive = "running" <=> s.err = "none"
  /\ s.receive # "running" => s.received = <<>>
  /\ s.stopped \in BOOLEAN

\* A generation is used for each transport and one for the end.
RawShape(r) ==
  /\ DOMAIN r = RawFields
  /\ r.state \in {"open", "terminal", "done"}
  /\ r.generation \in Nat \ {0}
  /\ r.generation <= MaxGeneration + (IF r.state = "open" THEN 1 ELSE IF r.state = "terminal" THEN 2 ELSE 3)
  /\ r.incoming \in Seq(Messages)
  /\ \A i \in 1..Len(r.incoming) : r.incoming[i].generation <= r.generation
  /\ r.request \in [Callers -> Outcomes]
  /\ r.reset \in BOOLEAN

OSDShape(o, r) ==
  /\ DOMAIN o = {"blocks", "sent"}
  /\ o.blocks \subseteq Messages
  /\ \A b \in o.blocks : b.generation = r.generation
  /\ r.state # "open" => o.blocks = {}

\* The messenger holds a request for a submitted call and for no other.
CallersShape(d, r) ==
  /\ DOMAIN d = Callers
  /\ \A c \in Callers :
       /\ DOMAIN d[c] = CallerFields
       /\ d[c].pc \in {"idle", "checking", "blocked", "woken", "submitted", "returned"}
       /\ d[c].pc \notin {"idle", "returned"} => d[c].object \in Objects
       /\ d[c].resend \in BOOLEAN /\ d[c].canceled \in BOOLEAN
       /\ r.request[c] = "none" <=> d[c].pc # "submitted"

UnderWay(s) == IF s.ackActive = NoAck THEN 0 ELSE 1

\* The acknowledgments: counted, of the session's generation unless they are cancelled,
\* and a failure that is kept is one of a transport that is gone, of Stop, or a real one.
Books(s) ==
  /\ s.ackGeneration \in Generations \ {0}
  /\ s.ackQueue \in Seq(Acks)
  /\ s.ackActive \in Acks
  /\ s.ackCount = Len(s.ackQueue) + UnderWay(s)
  /\ s.ackCount <= MaxAcks
  /\ \A i \in 1..Len(s.ackQueue) : s.ackQueue[i].generation = s.ackGeneration /\ ~s.ackQueue[i].canceled
  /\ s.ackActive.generation <= s.ackGeneration
  /\ s.ackActive.canceled => s.ackActive.generation < s.ackGeneration

Failures(s) ==
  /\ s.ackFailed \in Seq(Results) /\ Len(s.ackFailed) <= 1
  /\ s.ackResults \in Seq(Results) /\ Len(s.ackResults) <= 1

\* A failure that did not come from the messenger's work for this transport.
Excused(f, s, g) ==
  /\ f.err # "none"
  /\ f.err = "canceled" => s.stopped \/ s.receive \in {"closing", "done"}
  /\ f.err = "invalidated" => f.transport < g

\* The generation of the session follows that of the messenger, g.
Follows(s, g) ==
  /\ s.receive \in {"running", "stopping"} => s.ackGeneration <= g
  /\ s.receive = "running" => \A b \in s.backoffs : b.kind = "block" /\ b.generation = s.ackGeneration
  /\ \A i \in 1..Len(s.received) : s.received[i].generation <= g
  /\ \A i \in 1..Len(s.ackQueue) : s.ackQueue[i].transport <= g
  /\ s.ackActive.transport <= g
  /\ \A i \in 1..Len(s.ackFailed) : Excused(s.ackFailed[i], s, g)
  /\ \A i \in 1..Len(s.ackResults) : Excused(s.ackResults[i], s, g)

SessionOK(s, g) == SessionShape(s) /\ Books(s) /\ Failures(s) /\ Follows(s, g)

\* What receive knows and will read is what the OSD blocks.
InOrder(s, r, o) ==
  s.receive = "running" => Ordered(s.received \o r.incoming, r.generation, s.backoffs, o.blocks)

Shape == RawShape(raw) /\ OSDShape(osd, raw) /\ CallersShape(caller, raw)

OSDInv ==
  /\ SessionOK(session, raw.generation)
  /\ Shape
  /\ InOrder(session, raw, osd)
  /\ DroppedIsCovered /\ NoLostWakeup /\ BackoffIsCurrent /\ AckFailureIsCurrent

\* The least a proof needs of the bounds.
LEMMA Bounds == MaxGeneration \in Nat /\ Generations = 0..(MaxGeneration + 4) /\ MaxAcks \in Nat
  BY BackoffAssumption DEF Generations

\* The generation of the messenger is one that a message can carry.
LEMMA RawGeneration ==
  ASSUME RawShape(raw)
  PROVE  raw.generation \in Generations \ {0} /\ raw.generation \in Nat /\ raw.generation <= MaxGeneration + 3
  BY Bounds DEF RawShape

-----------------------------------------------------------------------------
(***************************************************************************)
(* The methods of osdSession.                                              *)
(***************************************************************************)

\* A session stays as it should be when the messenger's generation grows.
LEMMA SessionGrows ==
  ASSUME NEW s, NEW g \in Nat, NEW h \in Nat, SessionOK(s, g), g <= h
  PROVE  SessionOK(s, h)
<1>1. /\ \A i \in 1..Len(s.received) : s.received[i].generation \in Nat
      /\ \A i \in 1..Len(s.ackQueue) : s.ackQueue[i].transport \in Nat
      /\ s.ackActive.transport \in Nat /\ s.ackGeneration \in Nat
  <2>1. (\A m \in Messages : m.generation \in Nat) /\ (\A a \in Acks : a.transport \in Nat)
    BY Bounds DEF Messages, Acks
  <2>2. s.received \in Seq(Messages) /\ s.ackQueue \in Seq(Acks) /\ s.ackActive \in Acks /\ s.ackGeneration \in Nat
    BY Bounds DEF SessionOK, SessionShape, Books
  <2>. QED
    BY <2>1, <2>2
<1>2. \A f \in Results : Excused(f, s, g) => Excused(f, s, h)
  BY Bounds DEF Excused, Results
<1>3. Follows(s, g) /\ s.ackFailed \in Seq(Results) /\ s.ackResults \in Seq(Results)
  BY DEF SessionOK, Failures
<1>4. /\ s.receive \in {"running", "stopping"} => s.ackGeneration <= h
      /\ \A i \in 1..Len(s.received) : s.received[i].generation <= h
      /\ \A i \in 1..Len(s.ackQueue) : s.ackQueue[i].transport <= h
      /\ s.ackActive.transport <= h
  BY <1>1, <1>3 DEF Follows
<1>5. /\ \A i \in 1..Len(s.ackFailed) : Excused(s.ackFailed[i], s, h)
      /\ \A i \in 1..Len(s.ackResults) : Excused(s.ackResults[i], s, h)
  BY <1>2, <1>3 DEF Follows
<1>6. Follows(s, h)
  BY <1>3, <1>4, <1>5 DEF Follows
<1>. QED
  BY <1>6 DEF SessionOK

\* fail changes nothing but the error and the state of receive.
LEMMA FailFields ==
  ASSUME NEW s, DOMAIN s = SessionFields, NEW err
  PROVE  /\ DOMAIN Fail(s, err) = SessionFields
         /\ Fail(s, err).receive = "stopping"
         /\ Fail(s, err).err = (IF s.err = "none" THEN err ELSE s.err)
         /\ \A f \in SessionFields \ {"receive", "err"} : Fail(s, err)[f] = s[f]
  BY DEF Fail, SessionFields

\* A session that fails is still as it should be.
LEMMA FailOK ==
  ASSUME NEW s, NEW g, SessionOK(s, g), s.received = <<>>, s.receive = "running", NEW err, err # "none"
  PROVE  /\ SessionOK(Fail(s, err), g)
         /\ Fail(s, err).receive = "stopping" /\ Fail(s, err).err = err
         /\ Fail(s, err).stopped = s.stopped /\ Fail(s, err).backoffs = s.backoffs
<1> DEFINE p == Fail(s, err)
<1>1. /\ DOMAIN p = SessionFields /\ p.receive = "stopping" /\ p.err = err
      /\ p.backoffs = s.backoffs /\ p.received = s.received /\ p.ackGeneration = s.ackGeneration
      /\ p.ackQueue = s.ackQueue /\ p.ackActive = s.ackActive /\ p.ackCount = s.ackCount
      /\ p.ackFailed = s.ackFailed /\ p.ackResults = s.ackResults /\ p.sendACKs = s.sendACKs
      /\ p.stopped = s.stopped
  BY FailFields DEF SessionOK, SessionShape, SessionFields
<1> HIDE DEF p
<1>2. SessionShape(p)
  BY <1>1 DEF SessionOK, SessionShape
<1>3. Books(p) /\ Failures(p)
  BY <1>1 DEF SessionOK, Books, UnderWay, Failures
<1>4. \A f : Excused(f, s, g) => Excused(f, p, g)
  BY <1>1 DEF Excused
<1>5. Follows(p, g)
  BY <1>1, <1>4 DEF SessionOK, Follows
<1>6. SessionOK(p, g)
  BY <1>2, <1>3, <1>5 DEF SessionOK
<1>. QED
  BY <1>1, <1>6 DEF p

\* resetACKs drops what waits, and marks what is under way.
LEMMA ResetFields ==
  ASSUME NEW s, DOMAIN s = SessionFields, s.ackActive \in Acks, NEW generation
  PROVE  LET p == ResetACKs(s, generation)
         IN  /\ DOMAIN p = SessionFields
             /\ p.ackGeneration = generation /\ p.ackQueue = <<>> /\ p.ackCount = s.ackCount - Len(s.ackQueue)
             /\ p.ackActive = [s.ackActive EXCEPT !.canceled = s.ackActive # NoAck]
             /\ \A f \in SessionFields \ {"ackGeneration", "ackQueue", "ackCount", "ackActive"} : p[f] = s[f]
  BY DEF ResetACKs, SessionFields

\* The acknowledgment under way keeps its generation and transport.
LEMMA ResetActive ==
  ASSUME NEW a \in Acks, NEW b, b = [a EXCEPT !.canceled = a # NoAck]
  PROVE  /\ b \in Acks /\ b.generation = a.generation /\ b.transport = a.transport
         /\ b = NoAck <=> a = NoAck
         /\ b.canceled => a # NoAck
<1>1. b \in Acks /\ b.generation = a.generation /\ b.transport = a.transport /\ b.canceled = (a # NoAck)
  BY DEF Acks
<1>2. CASE a = NoAck
  <2>1. b = NoAck
    BY <1>2 DEF NoAck
  <2>. QED
    BY <1>1, <1>2, <2>1
<1>3. CASE a # NoAck
  <2>1. b.canceled = TRUE /\ NoAck.canceled = FALSE
    BY <1>1, <1>3 DEF NoAck
  <2>. QED
    BY <1>1, <1>3, <2>1
<1>. QED
  BY <1>2, <1>3

\* A reset keeps the books: what is under way is counted still, and will not be reported.
LEMMA ResetBooks ==
  ASSUME NEW s, DOMAIN s = SessionFields, Books(s), NEW generation \in Generations, s.ackGeneration < generation,
         NEW p, p.ackGeneration = generation, p.ackQueue = <<>>, p.ackCount = s.ackCount - Len(s.ackQueue),
         p.ackActive = [s.ackActive EXCEPT !.canceled = s.ackActive # NoAck]
  PROVE  Books(p) /\ p.ackActive.transport = s.ackActive.transport
<1>1. /\ p.ackActive \in Acks /\ p.ackActive.generation = s.ackActive.generation
      /\ p.ackActive.transport = s.ackActive.transport
      /\ p.ackActive = NoAck <=> s.ackActive = NoAck
  BY ResetActive DEF Books
<1>2. /\ Len(s.ackQueue) \in Nat /\ s.ackGeneration \in Nat /\ s.ackActive.generation \in Nat /\ generation \in Nat
  BY Bounds DEF Books, Acks
<1>3. /\ p.ackCount = Len(p.ackQueue) + UnderWay(p) /\ p.ackCount <= MaxAcks
  <2>1. UnderWay(p) = UnderWay(s) /\ UnderWay(s) \in Nat
    BY <1>1 DEF UnderWay
  <2>2. s.ackCount = Len(s.ackQueue) + UnderWay(s) /\ s.ackCount <= MaxAcks
    BY DEF Books
  <2>3. Len(p.ackQueue) = 0
    OBVIOUS
  <2>. QED
    BY <1>2, <2>1, <2>2, <2>3, Bounds
<1>4. p.ackGeneration \in Generations \ {0} /\ p.ackActive.generation < p.ackGeneration
  BY <1>1, <1>2, Bounds DEF Books
<1>5. p.ackQueue \in Seq(Acks) /\ Len(p.ackQueue) = 0
  OBVIOUS
<1>6. p.ackActive.generation <= p.ackGeneration
  BY <1>1, <1>2, <1>4
<1>. QED
  BY <1>1, <1>3, <1>4, <1>5, <1>6 DEF Books

\* reconcile brings the session to the messenger's generation, with nothing of an earlier one.
LEMMA ReconcileOK ==
  ASSUME NEW s, RawShape(raw), SessionOK(s, raw.generation), s.receive = "running"
  PROVE  LET p == Reconcile(s)
         IN  /\ SessionOK(p, raw.generation)
             /\ p.ackGeneration = raw.generation
             /\ p.backoffs = (IF raw.generation = s.ackGeneration THEN s.backoffs ELSE {})
             /\ p.receive = s.receive /\ p.received = s.received /\ p.err = s.err /\ p.stopped = s.stopped
             /\ p.ackResults = s.ackResults
<1>1. CASE raw.generation = s.ackGeneration
  BY <1>1 DEF Reconcile
<1>2. CASE raw.generation # s.ackGeneration
  <2> DEFINE p == Reconcile(s)
  <2>1. s.ackGeneration < raw.generation /\ raw.generation \in Generations
    <3>1. s.ackGeneration <= raw.generation /\ s.ackGeneration \in Nat
      BY Bounds DEF SessionOK, Follows, Books
    <3>. QED
      BY <3>1, <1>2, RawGeneration
  <2>2. DOMAIN s = SessionFields /\ s.ackActive \in Acks
    BY DEF SessionOK, SessionShape, Books
  <2> DEFINE a == ResetACKs(s, raw.generation)
  <2>3. /\ DOMAIN a = SessionFields
        /\ a.ackGeneration = raw.generation /\ a.ackQueue = <<>> /\ a.ackCount = s.ackCount - Len(s.ackQueue)
        /\ a.ackActive = [s.ackActive EXCEPT !.canceled = s.ackActive # NoAck]
        /\ a.err = s.err /\ a.receive = s.receive /\ a.received = s.received /\ a.stopped = s.stopped
        /\ a.ackFailed = s.ackFailed /\ a.ackResults = s.ackResults
    BY <2>2, ResetFields DEF SessionFields
  <2>4. p = [a EXCEPT !.backoffs = {}]
    BY <1>2 DEF Reconcile
  <2> HIDE DEF p, a
  <2>5. /\ DOMAIN p = SessionFields /\ p.backoffs = {}
        /\ p.ackGeneration = raw.generation /\ p.ackQueue = <<>> /\ p.ackCount = s.ackCount - Len(s.ackQueue)
        /\ p.ackActive = [s.ackActive EXCEPT !.canceled = s.ackActive # NoAck]
        /\ p.err = s.err /\ p.receive = s.receive /\ p.received = s.received /\ p.stopped = s.stopped
        /\ p.ackFailed = s.ackFailed /\ p.ackResults = s.ackResults
    BY <2>3, <2>4 DEF SessionFields
  <2>6. Books(p) /\ p.ackActive.transport = s.ackActive.transport
    BY <2>1, <2>2, <2>5, ResetBooks DEF SessionOK
  <2>7. SessionShape(p) /\ Failures(p)
    BY <2>5 DEF SessionOK, SessionShape, Failures
  <2>8. \A f : Excused(f, s, raw.generation) => Excused(f, p, raw.generation)
    BY <2>5 DEF Excused
  <2>9. Len(p.ackQueue) = 0 /\ raw.generation \in Nat
    BY <2>5, RawGeneration
  <2>10. Follows(p, raw.generation)
    BY <2>5, <2>6, <2>8, <2>9 DEF SessionOK, Follows
  <2>11. SessionOK(p, raw.generation)
    BY <2>6, <2>7, <2>10 DEF SessionOK
  <2>. QED
    BY <1>2, <2>5, <2>11 DEF p
<1>. QED
  BY <1>1, <1>2

\* addBackoff, for a message of the session's generation whose id is not known.
LEMMA AddOK ==
  ASSUME NEW s, NEW g, SessionOK(s, g), s.received = <<>>, s.receive = "running",
         NEW m \in Messages, m.kind = "block", m.generation = s.ackGeneration, WithID(s, m.id) = {}
  PROVE  LET p == AddBackoff(s, m)
         IN  /\ SessionOK(p, g) /\ p.stopped = s.stopped /\ p.received = <<>> /\ p.ackGeneration = s.ackGeneration
             /\ \/ p.err = "failed" /\ p.receive = "stopping"
                \/ p.err = "none" /\ p.receive = "running" /\ p.backoffs = s.backoffs \cup {m}
<1> DEFINE p == AddBackoff(s, m)
<1>1. DOMAIN s = SessionFields /\ s.err = "none"
  BY DEF SessionOK, SessionShape
<1>2. CASE p = Fail(s, "failed")
  <2>1. p.received = <<>> /\ p.ackGeneration = s.ackGeneration
    BY <1>1, <1>2, FailFields DEF SessionFields
  <2>. QED
    BY <1>2, <2>1, FailOK
<1>3. CASE p = [s EXCEPT !.backoffs = (@ \ WithID(s, m.id)) \cup {m}]
  <2>1. p = [s EXCEPT !.backoffs = s.backoffs \cup {m}]
    BY <1>3
  <2> HIDE DEF p
  <2>2. /\ DOMAIN p = SessionFields /\ p.backoffs = s.backoffs \cup {m}
        /\ p.err = s.err /\ p.receive = s.receive /\ p.received = s.received /\ p.stopped = s.stopped
        /\ p.ackGeneration = s.ackGeneration /\ p.ackQueue = s.ackQueue /\ p.ackCount = s.ackCount
        /\ p.ackActive = s.ackActive /\ p.ackFailed = s.ackFailed /\ p.ackResults = s.ackResults
    BY <1>1, <2>1 DEF SessionFields
  <2>3. SessionShape(p)
    BY <2>2 DEF SessionOK, SessionShape
  <2>4. Books(p) /\ Failures(p)
    BY <2>2 DEF SessionOK, Books, UnderWay, Failures
  <2>5. \A f : Excused(f, s, g) => Excused(f, p, g)
    BY <2>2 DEF Excused
  <2>6. Follows(p, g)
    BY <2>2, <2>5 DEF SessionOK, Follows
  <2>. QED
    BY <1>1, <2>2, <2>3, <2>4, <2>6 DEF SessionOK, p
<1>. QED
  BY <1>2, <1>3 DEF AddBackoff

\* enqueueACK, for a message that came on the messenger's transport g or an earlier one.
LEMMA EnqueueOK ==
  ASSUME NEW s, NEW g, SessionOK(s, g), s.received = <<>>,
         NEW m \in Messages, m.generation <= g
  PROVE  LET p == EnqueueACK(s, m)
         IN  /\ SessionOK(p, g) /\ p.stopped = s.stopped
             /\ p = s \/ (p.err = "failed" /\ p.receive = "stopping")
                \/ (p.err = s.err /\ p.receive = s.receive /\ p.backoffs = s.backoffs /\ p.received = <<>>)
<1> DEFINE p == EnqueueACK(s, m)
           ack == [id |-> m.id, generation |-> s.ackGeneration, transport |-> m.generation, canceled |-> FALSE]
<1>1. DOMAIN s = SessionFields /\ (s.err = "none" => s.receive = "running")
  BY DEF SessionOK, SessionShape
<1>2. CASE p = s
  BY <1>2
<1>3. CASE s.err = "none" /\ p = Fail(s, "failed")
  BY <1>1, <1>3, FailOK
<1>4. CASE s.err = "none" /\ s.ackCount < MaxAcks
           /\ p = [s EXCEPT !.ackCount = @ + 1, !.ackQueue = Append(@, ack)]
  <2>1. ack \in Acks /\ ack.generation = s.ackGeneration /\ ack.transport = m.generation /\ ~ack.canceled
    BY DEF SessionOK, Books, Acks, Messages
  <2> HIDE DEF p, ack
  <2>2. /\ DOMAIN p = SessionFields /\ p.backoffs = s.backoffs
        /\ p.err = s.err /\ p.receive = s.receive /\ p.received = s.received /\ p.stopped = s.stopped
        /\ p.ackGeneration = s.ackGeneration /\ p.ackQueue = Append(s.ackQueue, ack) /\ p.ackCount = s.ackCount + 1
        /\ p.ackActive = s.ackActive /\ p.ackFailed = s.ackFailed /\ p.ackResults = s.ackResults
    BY <1>1, <1>4 DEF SessionFields
  <2>3. SessionShape(p) /\ Failures(p)
    BY <2>2 DEF SessionOK, SessionShape, Failures
  <2>4. s.ackQueue \in Seq(Acks)
    BY DEF SessionOK, Books
  <2>5. /\ p.ackQueue \in Seq(Acks) /\ Len(p.ackQueue) = Len(s.ackQueue) + 1 /\ Len(s.ackQueue) \in Nat
        /\ \A i \in 1..Len(p.ackQueue) : p.ackQueue[i] = ack \/ (i \in 1..Len(s.ackQueue) /\ p.ackQueue[i] = s.ackQueue[i])
    BY <2>1, <2>2, <2>4
  <2>6. p.ackCount = Len(p.ackQueue) + UnderWay(p) /\ p.ackCount <= MaxAcks
    <3>1. UnderWay(p) = UnderWay(s) /\ UnderWay(s) \in Nat
      BY <2>2 DEF UnderWay
    <3>2. s.ackCount = Len(s.ackQueue) + UnderWay(s)
      BY DEF SessionOK, Books
    <3>. QED
      BY <1>4, <2>2, <2>5, <3>1, <3>2, Bounds
  <2>7. \A i \in 1..Len(p.ackQueue) : p.ackQueue[i].generation = p.ackGeneration /\ p.ackQueue[i].transport <= g
                                         /\ ~p.ackQueue[i].canceled
    BY <2>1, <2>2, <2>5 DEF SessionOK, Books, Follows
  <2>8. Books(p)
    BY <2>2, <2>5, <2>6, <2>7 DEF SessionOK, Books
  <2>9. \A f : Excused(f, s, g) => Excused(f, p, g)
    BY <2>2 DEF Excused
  <2>10. Follows(p, g)
    BY <2>2, <2>7, <2>9 DEF SessionOK, Follows
  <2>. QED
    BY <2>2, <2>3, <2>8, <2>10 DEF SessionOK, p
<1>5. s.ackCount \in Int
  BY DEF SessionOK, Books, UnderWay
<1>. QED
  BY <1>2, <1>3, <1>4, <1>5, Bounds DEF EnqueueACK

-----------------------------------------------------------------------------
(***************************************************************************)
(* The steps.                                                              *)
(***************************************************************************)

\* DroppedIsCovered and NoLostWakeup of one call.
CoveredFor(c) ==
  raw.request[c] = "dropped" /\ ~caller[c].resend /\ session.receive = "running" =>
    \E b \in session.backoffs \cup {Arriving[i] : i \in 1..Len(Arriving)} :
      b.kind = "block" /\ caller[c].object \in b.objects /\ b.generation = raw.generation

AwakeFor(c) ==
  caller[c].pc = "blocked" => Blocked(session, caller[c].object) /\ session.err = "none"

\* The session starts as it should be.
LEMMA OSDInitial == Init => OSDInv
<1> SUFFICES ASSUME Init PROVE OSDInv
  OBVIOUS
<1>1. /\ session.backoffs = {} /\ session.err = "none" /\ session.receive = "running" /\ session.received = <<>>
      /\ session.ackGeneration = 1 /\ session.ackQueue = <<>> /\ session.ackActive = NoAck /\ session.ackCount = 0
      /\ session.ackFailed = <<>> /\ session.ackResults = <<>> /\ session.stopped = FALSE
      /\ DOMAIN session = SessionFields
  BY DEF Init, SessionFields
<1>2. /\ raw.state = "open" /\ raw.generation = 1 /\ raw.reset = FALSE /\ raw.incoming = <<>>
      /\ raw.request = [c \in Callers |-> "none"] /\ DOMAIN raw = RawFields
      /\ osd.blocks = {} /\ DOMAIN osd = {"blocks", "sent"}
  BY DEF Init, RawFields
<1>3. NoAck \in Acks /\ NoAck.generation = 0 /\ NoAck.transport = 0 /\ NoAck.canceled = FALSE
  BY Bounds DEF NoAck, Acks
<1>4. SessionShape(session) /\ Failures(session)
  <2>1. <<>> \in Seq(Messages) /\ <<>> \in Seq(Results) /\ Len(<<>>) = 0
    OBVIOUS
  <2>2. SessionShape(session)
    <3>1. session.received \in Seq(Messages) /\ Len(session.received) <= 1
      BY <1>1, <2>1
    <3>2. session.stopped \in BOOLEAN /\ session.backoffs \subseteq Messages
      BY <1>1
    <3>. QED
      BY <1>1, <3>1, <3>2 DEF SessionShape
  <2>3. Failures(session)
    BY <1>1, <2>1 DEF Failures
  <2>. QED
    BY <2>2, <2>3
<1>5. Books(session)
  BY <1>1, <1>3, Bounds DEF Books, UnderWay
<1>6. Follows(session, raw.generation)
  BY <1>1, <1>2, <1>3 DEF Follows
<1>7. RawShape(raw) /\ OSDShape(osd, raw)
  <2>1. <<>> \in Seq(Messages) /\ Len(<<>>) = 0
    OBVIOUS
  <2>2. raw.request \in [Callers -> Outcomes]
    BY <1>2 DEF Outcomes
  <2>3. raw.generation <= MaxGeneration + 1
    BY <1>2, Bounds
  <2>4. raw.incoming \in Seq(Messages) /\ Len(raw.incoming) = 0
    BY <1>2, <2>1
  <2>5. RawShape(raw)
    <3>1. \A i \in 1..Len(raw.incoming) : raw.incoming[i].generation <= raw.generation
      BY <2>4
    <3>2. raw.reset \in BOOLEAN
      BY <1>2
    <3>3. raw.generation \in Nat \ {0}
      BY <1>2
    <3>. QED
      BY <1>2, <2>2, <2>3, <2>4, <3>1, <3>2, <3>3 DEF RawShape
  <2>. QED
    BY <1>2, <2>5 DEF OSDShape
<1>8. CallersShape(caller, raw)
  BY <1>2 DEF Init, Away, CallersShape, CallerFields
<1>9. Len(session.received \o raw.incoming) = 0
  BY <1>1, <1>2
<1>10. InOrder(session, raw, osd)
  BY <1>1, <1>2, <1>9, OrderedAfresh DEF InOrder
<1>11. DroppedIsCovered /\ NoLostWakeup /\ BackoffIsCurrent /\ AckFailureIsCurrent
  BY <1>1, <1>2 DEF DroppedIsCovered, NoLostWakeup, BackoffIsCurrent, AckFailureIsCurrent, Init, Away
<1>. QED
  BY <1>4, <1>5, <1>6, <1>7, <1>8, <1>10, <1>11 DEF OSDInv, SessionOK, Shape

\* A step of sendACKs or Stop, which changes the acknowledgments only.
LEMMA AckStep ==
  ASSUME OSDInv, SessionOK(session', raw.generation), UNCHANGED <<raw, osd, caller>>,
         session'.backoffs = session.backoffs, session'.receive = session.receive,
         session'.received = session.received, session'.err = session.err,
         session.stopped => session'.stopped
  PROVE  OSDInv'
<1>1. SessionOK(session, raw.generation)' /\ Shape'
  BY DEF OSDInv, Shape
<1>2. InOrder(session, raw, osd)'
  BY DEF OSDInv, InOrder
<1>3. DroppedIsCovered' /\ NoLostWakeup'
  <2>1. Arriving' = Arriving
    BY DEF Arriving
  <2>2. DroppedIsCovered'
    BY <2>1 DEF OSDInv, DroppedIsCovered
  <2>3. NoLostWakeup'
    BY DEF OSDInv, NoLostWakeup, Blocked
  <2>. QED
    BY <2>2, <2>3
<1>4. BackoffIsCurrent' /\ AckFailureIsCurrent'
  BY DEF OSDInv, BackoffIsCurrent, AckFailureIsCurrent
<1>. QED
  BY <1>1, <1>2, <1>3, <1>4 DEF OSDInv

\* A step of one call or of its request.
LEMMA CallStep ==
  ASSUME OSDInv, UNCHANGED <<session, osd>>, NEW c \in Callers, NEW outcome \in Outcomes,
         raw' = raw \/ raw' = [raw EXCEPT !.request[c] = outcome],
         DOMAIN caller' = Callers, \A d \in Callers \ {c} : caller'[d] = caller[d],
         DOMAIN caller'[c] = CallerFields,
         caller'[c].pc \in {"idle", "checking", "blocked", "woken", "submitted", "returned"},
         caller'[c].pc \notin {"idle", "returned"} => caller'[c].object \in Objects,
         caller'[c].resend \in BOOLEAN, caller'[c].canceled \in BOOLEAN,
         raw'.request[c] = "none" <=> caller'[c].pc # "submitted",
         CoveredFor(c)', AwakeFor(c)'
  PROVE  OSDInv'
<1>1. /\ DOMAIN raw = RawFields /\ raw.request \in [Callers -> Outcomes]
  BY DEF OSDInv, Shape, RawShape
<1>2. /\ DOMAIN raw' = RawFields /\ raw'.state = raw.state /\ raw'.generation = raw.generation
      /\ raw'.reset = raw.reset /\ raw'.incoming = raw.incoming
      /\ raw'.request \in [Callers -> Outcomes]
      /\ \A d \in Callers \ {c} : raw'.request[d] = raw.request[d]
  BY <1>1 DEF RawFields
<1>3. RawShape(raw)' /\ OSDShape(osd, raw)'
  BY <1>2 DEF OSDInv, Shape, RawShape, OSDShape
<1>4. CallersShape(caller, raw)'
  BY <1>2 DEF OSDInv, Shape, CallersShape
<1>5. SessionOK(session, raw.generation)' /\ InOrder(session, raw, osd)'
  BY <1>2 DEF OSDInv, InOrder
<1>6. Arriving' = Arriving
  BY <1>2 DEF Arriving
<1>7. \A d \in Callers \ {c} : CoveredFor(d)' /\ AwakeFor(d)'
  BY <1>2, <1>6 DEF OSDInv, DroppedIsCovered, NoLostWakeup, CoveredFor, AwakeFor, Blocked
<1>8. DroppedIsCovered' /\ NoLostWakeup'
  BY <1>7 DEF DroppedIsCovered, NoLostWakeup, CoveredFor, AwakeFor
<1>9. BackoffIsCurrent' /\ AckFailureIsCurrent'
  BY <1>2 DEF OSDInv, BackoffIsCurrent, AckFailureIsCurrent
<1>. QED
  BY <1>3, <1>4, <1>5, <1>8, <1>9 DEF OSDInv, Shape

\* What the invariant says of one call.
LEMMA CallFacts ==
  ASSUME OSDInv, NEW c \in Callers
  PROVE  /\ DOMAIN caller = Callers /\ DOMAIN caller[c] = CallerFields
         /\ caller[c].pc \in {"idle", "checking", "blocked", "woken", "submitted", "returned"}
         /\ caller[c].pc \notin {"idle", "returned"} => caller[c].object \in Objects
         /\ caller[c].resend \in BOOLEAN /\ caller[c].canceled \in BOOLEAN
         /\ raw.request[c] = "none" <=> caller[c].pc # "submitted"
         /\ DOMAIN raw = RawFields /\ raw.request \in [Callers -> Outcomes]
         /\ CoveredFor(c) /\ AwakeFor(c)
  BY DEF OSDInv, Shape, CallersShape, RawShape, DroppedIsCovered, NoLostWakeup, CoveredFor, AwakeFor

\* The steps of SubmitTarget.
LEMMA SubmitTargetKeeps ==
  ASSUME OSDInv, NEW c \in Callers, SubmitTarget(c) PROVE OSDInv'
<1>1. PICK object \in Objects : caller' = [caller EXCEPT ![c].pc = "checking", ![c].object = object]
  BY DEF SubmitTarget
<1>2. /\ DOMAIN caller' = Callers /\ \A d \in Callers \ {c} : caller'[d] = caller[d]
      /\ DOMAIN caller'[c] = CallerFields /\ caller'[c].pc = "checking" /\ caller'[c].object = object
      /\ caller'[c].resend = caller[c].resend /\ caller'[c].canceled = caller[c].canceled
  BY <1>1, CallFacts DEF CallerFields
<1>3. raw' = raw /\ raw.request[c] = "none" /\ UNCHANGED <<session, osd>>
  BY CallFacts DEF SubmitTarget
<1>4. CoveredFor(c)' /\ AwakeFor(c)'
  BY <1>2, <1>3 DEF CoveredFor, AwakeFor
<1>5. caller[c].resend \in BOOLEAN /\ caller[c].canceled \in BOOLEAN /\ "none" \in Outcomes
  BY CallFacts DEF Outcomes
<1>. QED
  BY <1>2, <1>3, <1>4, <1>5, CallStep

\* A call that returns.
LEMMA AwayKeeps ==
  ASSUME OSDInv, NEW c \in Callers, UNCHANGED <<session, osd>>,
         caller' = [caller EXCEPT ![c] = Away("returned")],
         raw' = [raw EXCEPT !.request[c] = "none"] \/ (raw' = raw /\ raw.request[c] = "none")
  PROVE  OSDInv'
<1>1. /\ DOMAIN caller' = Callers /\ \A d \in Callers \ {c} : caller'[d] = caller[d]
      /\ caller'[c] = Away("returned")
  BY CallFacts
<1>2. /\ DOMAIN caller'[c] = CallerFields /\ caller'[c].pc = "returned"
      /\ caller'[c].resend = FALSE /\ caller'[c].canceled = FALSE
  BY <1>1 DEF Away, CallerFields
<1>3. raw'.request[c] = "none" /\ "none" \in Outcomes
  BY CallFacts DEF RawFields, Outcomes
<1>4. CoveredFor(c)' /\ AwakeFor(c)'
  BY <1>2, <1>3 DEF CoveredFor, AwakeFor
<1>. QED
  BY <1>1, <1>2, <1>3, <1>4, CallStep

\* submitTarget sends the request, waits for the end of a backoff, or fails with the session.
LEMMA SubmitKeeps ==
  ASSUME OSDInv, NEW c \in Callers, Submit(c) PROVE OSDInv'
<1>1. raw.request[c] = "none" /\ UNCHANGED <<session, osd>> /\ caller[c].object \in Objects
  BY CallFacts DEF Submit
<1>2. CASE session.err # "none"
  BY <1>1, <1>2, AwayKeeps DEF Submit
<1>3. CASE session.err = "none" /\ Blocked(session, caller[c].object)
  <2>1. caller' = [caller EXCEPT ![c].pc = "blocked"] /\ raw' = raw
    BY <1>3 DEF Submit
  <2>2. /\ DOMAIN caller' = Callers /\ \A d \in Callers \ {c} : caller'[d] = caller[d]
        /\ DOMAIN caller'[c] = CallerFields /\ caller'[c].pc = "blocked" /\ caller'[c].object = caller[c].object
        /\ caller'[c].resend = caller[c].resend /\ caller'[c].canceled = caller[c].canceled
    BY <2>1, CallFacts DEF CallerFields
  <2>3. CoveredFor(c)' /\ AwakeFor(c)'
    BY <1>1, <1>3, <2>1, <2>2 DEF CoveredFor, AwakeFor, Blocked
  <2>4. caller[c].resend \in BOOLEAN /\ caller[c].canceled \in BOOLEAN /\ "none" \in Outcomes
    BY CallFacts DEF Outcomes
  <2>. QED
    BY <1>1, <2>1, <2>2, <2>3, <2>4, CallStep
<1>4. CASE session.err = "none" /\ ~Blocked(session, caller[c].object)
  <2>1. caller' = [caller EXCEPT ![c].pc = "submitted"]
    BY <1>4 DEF Submit
  <2>2. PICK outcome \in {"failed", "queued"} : raw' = [raw EXCEPT !.request[c] = outcome]
    BY <1>4 DEF Submit, Admissions
  <2>3. /\ DOMAIN caller' = Callers /\ \A d \in Callers \ {c} : caller'[d] = caller[d]
        /\ DOMAIN caller'[c] = CallerFields /\ caller'[c].pc = "submitted" /\ caller'[c].object = caller[c].object
        /\ caller'[c].resend = caller[c].resend /\ caller'[c].canceled = caller[c].canceled
    BY <2>1, CallFacts DEF CallerFields
  <2>4. raw'.request[c] = outcome
    BY <2>2, CallFacts DEF RawFields
  <2>5. CoveredFor(c)' /\ AwakeFor(c)'
    BY <2>3, <2>4 DEF CoveredFor, AwakeFor
  <2>6. caller[c].resend \in BOOLEAN /\ caller[c].canceled \in BOOLEAN /\ outcome \in Outcomes
    BY CallFacts DEF Outcomes
  <2>. QED
    BY <1>1, <2>2, <2>3, <2>4, <2>5, <2>6, CallStep
<1>. QED
  BY <1>2, <1>3, <1>4

\* A request that has left the messenger returns, or goes round again.
LEMMA FinishSubmitKeeps ==
  ASSUME OSDInv, NEW c \in Callers, FinishSubmit(c) PROVE OSDInv'
<1>1. raw' = [raw EXCEPT !.request[c] = "none"] /\ UNCHANGED <<session, osd>>
      /\ caller[c].object \in Objects /\ "none" \in Outcomes
  BY CallFacts DEF FinishSubmit, Outcomes
<1>2. CASE caller' = [caller EXCEPT ![c] = Away("returned")]
  BY <1>1, <1>2, AwayKeeps
<1>3. CASE caller' = [caller EXCEPT ![c] = [@ EXCEPT !.pc = "checking", !.resend = FALSE]]
  <2>1. /\ DOMAIN caller' = Callers /\ \A d \in Callers \ {c} : caller'[d] = caller[d]
        /\ caller'[c] = [caller[c] EXCEPT !.pc = "checking", !.resend = FALSE]
    BY <1>3, CallFacts
  <2>2. /\ DOMAIN caller'[c] = CallerFields /\ caller'[c].pc = "checking" /\ caller'[c].object = caller[c].object
        /\ caller'[c].resend = FALSE /\ caller'[c].canceled = caller[c].canceled
    BY <2>1, CallFacts DEF CallerFields
  <2>3. raw'.request[c] = "none"
    BY <1>1, CallFacts DEF RawFields
  <2>4. CoveredFor(c)' /\ AwakeFor(c)'
    BY <2>2, <2>3 DEF CoveredFor, AwakeFor
  <2>5. caller[c].canceled \in BOOLEAN
    BY CallFacts
  <2>. QED
    BY <1>1, <2>1, <2>2, <2>3, <2>4, <2>5, CallStep
<1>. QED
  BY <1>2, <1>3 DEF FinishSubmit

\* The end of a call's context, and what follows from it.
LEMMA ContextDoneKeeps ==
  ASSUME OSDInv, NEW c \in Callers, ContextDone(c) PROVE OSDInv'
<1>1. /\ DOMAIN caller' = Callers /\ \A d \in Callers \ {c} : caller'[d] = caller[d]
      /\ DOMAIN caller'[c] = CallerFields /\ caller'[c].pc = caller[c].pc /\ caller'[c].object = caller[c].object
      /\ caller'[c].resend = caller[c].resend /\ caller'[c].canceled = TRUE
  BY CallFacts DEF ContextDone, CallerFields
<1>2. UNCHANGED <<session, osd>> /\ raw' = raw /\ "none" \in Outcomes
  BY DEF ContextDone, Outcomes
<1>3. CoveredFor(c)' /\ AwakeFor(c)'
  <2>1. Arriving' = Arriving
    BY <1>2 DEF Arriving
  <2>2. CoveredFor(c) /\ AwakeFor(c)
    BY CallFacts
  <2>3. CoveredFor(c)'
    BY <1>1, <1>2, <2>1, <2>2 DEF CoveredFor
  <2>. QED
    BY <1>1, <1>2, <2>2, <2>3 DEF AwakeFor, Blocked
<1>4. /\ caller[c].pc \in {"idle", "checking", "blocked", "woken", "submitted", "returned"}
      /\ caller[c].pc \notin {"idle", "returned"} => caller[c].object \in Objects
      /\ caller[c].resend \in BOOLEAN
      /\ raw.request[c] = "none" <=> caller[c].pc # "submitted"
  BY CallFacts
<1>. QED
  BY <1>1, <1>2, <1>3, <1>4, CallStep

\* A wait ends with its context or with the messenger.
LEMMA EndWaitKeeps ==
  ASSUME OSDInv, NEW c \in Callers, EndWait(c) PROVE OSDInv'
  BY AwayKeeps, CallFacts DEF EndWait

\* A request in the messenger takes a step.
LEMMA RequestStep ==
  ASSUME OSDInv, NEW c \in Callers, NEW outcome \in Outcomes \ {"none"}, UNCHANGED <<session, caller, osd>>,
         raw.request[c] # "none", raw' = [raw EXCEPT !.request[c] = outcome],
         outcome = "dropped" /\ session.receive = "running" =>
           \E b \in session.backoffs \cup {Arriving[i] : i \in 1..Len(Arriving)} :
             b.kind = "block" /\ caller[c].object \in b.objects /\ b.generation = raw.generation
  PROVE  OSDInv'
<1>1. /\ raw'.request[c] = outcome /\ raw'.incoming = raw.incoming /\ raw'.generation = raw.generation
  BY CallFacts DEF RawFields
<1>2. Arriving' = Arriving
  BY <1>1 DEF Arriving
<1>3. CoveredFor(c)'
  BY <1>1, <1>2 DEF CoveredFor
<1>4. AwakeFor(c)'
  BY CallFacts DEF AwakeFor, Blocked
<1>. QED
  BY <1>1, <1>3, <1>4, CallStep, CallFacts

\* The messenger writes a request.
LEMMA RawSendKeeps ==
  ASSUME OSDInv, NEW c \in Callers, RawSend(c) PROVE OSDInv'
  BY RequestStep DEF RawSend, Outcomes

\* The messenger gives up a request.
LEMMA RawCancelKeeps ==
  ASSUME OSDInv, NEW c \in Callers, RawCancel(c) PROVE OSDInv'
<1>1. PICK outcome \in {"failed", "unknown"} : raw' = [raw EXCEPT !.request[c] = outcome]
  BY CallFacts DEF RawCancel, Settled, RawFields
<1>. QED
  BY <1>1, RequestStep DEF RawCancel, Outcomes

\* The OSD drops a request in a range it has blocked: the block is known or on its way.
LEMMA OSDReceiveKeeps ==
  ASSUME OSDInv, NEW c \in Callers, OSDReceive(c) PROVE OSDInv'
<1>1. CASE raw' = [raw EXCEPT !.request[c] = "replied"]
  BY <1>1, RequestStep DEF OSDReceive, Outcomes
<1>2. ASSUME NEW b \in osd.blocks, caller[c].object \in b.objects, raw' = [raw EXCEPT !.request[c] = "dropped"]
      PROVE  OSDInv'
  <2>1. session.receive = "running" =>
          /\ Block(b, raw.generation)
          /\ b \in session.backoffs \/ \E i \in 1..Len(Arriving) : Arriving[i] = b
    BY DEF OSDInv, InOrder, Ordered, Announced, Arriving
  <2>. QED
    BY <1>2, <2>1, RequestStep DEF OSDReceive, Outcomes, Block
<1>. QED
  BY <1>1, <1>2 DEF OSDReceive

-----------------------------------------------------------------------------
\* sendACKs takes an acknowledgment that is not cancelled.
LEMMA TakeAckKeeps == ASSUME OSDInv, TakeAck PROVE OSDInv'
<1> DEFINE s == session
<1>1. SessionOK(s, raw.generation) /\ DOMAIN s = SessionFields
  BY DEF OSDInv, SessionOK, SessionShape
<1>2. /\ DOMAIN session' = SessionFields
      /\ session'.ackActive = Head(s.ackQueue) /\ session'.ackQueue = Tail(s.ackQueue)
      /\ session'.backoffs = s.backoffs /\ session'.err = s.err /\ session'.receive = s.receive
      /\ session'.received = s.received /\ session'.ackGeneration = s.ackGeneration
      /\ session'.ackCount = s.ackCount /\ session'.ackFailed = s.ackFailed
      /\ session'.ackResults = s.ackResults /\ session'.stopped = s.stopped
  BY <1>1 DEF TakeAck, SessionFields
<1>3. s.ackQueue \in Seq(Acks) /\ s.ackQueue # <<>> /\ s.ackActive = NoAck
  BY <1>1 DEF SessionOK, Books, TakeAck
<1>4. /\ Len(s.ackQueue) \in Nat \ {0} /\ Head(s.ackQueue) = s.ackQueue[1] /\ session'.ackQueue \in Seq(Acks)
      /\ Len(session'.ackQueue) = Len(s.ackQueue) - 1
      /\ \A i \in 1..Len(session'.ackQueue) : i + 1 \in 1..Len(s.ackQueue) /\ session'.ackQueue[i] = s.ackQueue[i + 1]
  BY <1>2, <1>3, TailAt
<1>5. /\ session'.ackActive \in Acks /\ session'.ackActive.generation = s.ackGeneration
      /\ ~session'.ackActive.canceled /\ session'.ackActive.transport <= raw.generation
  BY <1>1, <1>2, <1>3, <1>4 DEF SessionOK, Books, Follows
<1>6. session'.ackActive # NoAck
  BY <1>1, <1>5, SMTT(30) DEF SessionOK, Books, NoAck
<1>7. s.ackCount = Len(s.ackQueue) + UnderWay(s) /\ s.ackCount <= MaxAcks
  BY <1>1 DEF SessionOK, Books
<1>8. UnderWay(s) = 0 /\ UnderWay(session') = 1
  BY <1>3, <1>6 DEF UnderWay
<1>9. session'.ackCount = Len(session'.ackQueue) + UnderWay(session')
  BY <1>2, <1>4, <1>7, <1>8
<1>10. s.ackGeneration \in Nat
  BY <1>1, Bounds DEF SessionOK, Books
<1> HIDE DEF s
<1>11. Books(session')
  <2>1. session'.ackCount <= MaxAcks /\ session'.ackGeneration \in Generations \ {0}
    BY <1>1, <1>2 DEF SessionOK, Books
  <2>2. \A i \in 1..Len(session'.ackQueue) :
          session'.ackQueue[i].generation = session'.ackGeneration /\ ~session'.ackQueue[i].canceled
    BY <1>1, <1>2, <1>4 DEF SessionOK, Books
  <2>3. session'.ackActive.generation <= session'.ackGeneration
    BY <1>2, <1>5, <1>10
  <2>. QED
    BY <1>4, <1>5, <1>9, <2>1, <2>2, <2>3 DEF Books
<1>12. SessionShape(session') /\ Failures(session')
  BY <1>1, <1>2 DEF SessionOK, SessionShape, Failures
<1>13. \A f : Excused(f, s, raw.generation) => Excused(f, session', raw.generation)
  BY <1>2 DEF Excused
<1>14. Follows(session', raw.generation)
  BY <1>1, <1>2, <1>4, <1>5, <1>13 DEF SessionOK, Follows
<1>15. SessionOK(session', raw.generation)
  BY <1>11, <1>12, <1>14 DEF SessionOK
<1>. QED
  BY <1>2, <1>15, AckStep DEF TakeAck, s

\* An acknowledgment is written or fails: what is reported of it is a failure of its
\* transport, of Stop, or excused.
LEMMA FinishAckKeeps ==
  ASSUME OSDInv, NEW outcome \in {"ok", "failed", "canceled", "invalidated"}, FinishAck(outcome) PROVE OSDInv'
<1> DEFINE s == session
           ack == session.ackActive
           result == [err |-> outcome, generation |-> ack.generation, transport |-> ack.transport]
<1>1. SessionOK(s, raw.generation) /\ DOMAIN s = SessionFields
  BY DEF OSDInv, SessionOK, SessionShape
<1>2. /\ DOMAIN session' = SessionFields
      /\ session'.ackActive = NoAck /\ session'.ackQueue = s.ackQueue
      /\ session'.backoffs = s.backoffs /\ session'.err = s.err /\ session'.receive = s.receive
      /\ session'.received = s.received /\ session'.ackGeneration = s.ackGeneration
      /\ session'.ackCount = s.ackCount - 1
      /\ session'.ackFailed = (IF outcome # "ok" /\ ack.generation = s.ackGeneration THEN <<result>> ELSE <<>>)
      /\ session'.ackResults = s.ackResults /\ session'.stopped = s.stopped
  BY <1>1 DEF FinishAck, SessionFields
<1>3. NoAck \in Acks /\ NoAck.generation = 0 /\ NoAck.transport = 0 /\ NoAck.canceled = FALSE
  BY Bounds DEF NoAck, Acks
<1>4. ack \in Acks /\ ack # NoAck /\ s.ackQueue \in Seq(Acks) /\ Len(s.ackQueue) \in Nat
  BY <1>1 DEF SessionOK, Books, FinishAck
<1>5. session'.ackCount = Len(session'.ackQueue) + UnderWay(session')
      /\ session'.ackCount <= MaxAcks
  <2>1. s.ackCount = Len(s.ackQueue) + UnderWay(s) /\ s.ackCount <= MaxAcks
    BY <1>1 DEF SessionOK, Books
  <2>2. UnderWay(s) = 1 /\ UnderWay(session') = 0
    BY <1>2, <1>4 DEF UnderWay
  <2>. QED
    BY <1>2, <1>4, <2>1, <2>2, Bounds
<1>6. raw.generation \in Nat /\ s.ackGeneration \in Nat /\ ack.transport \in Nat /\ ack.generation \in Nat
  BY <1>1, <1>4, RawGeneration, Bounds, SMTT(30) DEF SessionOK, Books, Acks, OSDInv, Shape
<1>7. Books(session')
  <2>1. session'.ackGeneration \in Generations \ {0} /\ session'.ackQueue \in Seq(Acks)
    BY <1>1, <1>2 DEF SessionOK, Books
  <2>2. \A i \in 1..Len(session'.ackQueue) :
          session'.ackQueue[i].generation = session'.ackGeneration /\ ~session'.ackQueue[i].canceled
    BY <1>1, <1>2 DEF SessionOK, Books
  <2>3. session'.ackActive.generation <= session'.ackGeneration
    BY <1>2, <1>3, <1>6
  <2>. QED
    BY <1>2, <1>3, <1>5, <2>1, <2>2, <2>3 DEF Books
<1>8. outcome # "ok" /\ ack.generation = s.ackGeneration => result \in Results /\ Excused(result, s, raw.generation)
  <2> SUFFICES ASSUME outcome # "ok", ack.generation = s.ackGeneration
               PROVE  result \in Results /\ Excused(result, s, raw.generation)
    OBVIOUS
  <2>1. result \in Results
    BY <1>4 DEF Results, Errors, Acks
  <2>2. ~ack.canceled
    BY <1>1, <1>6 DEF SessionOK, Books
  <2>3. outcome = "canceled" => AcksCanceled
    BY <2>2 DEF FinishAck, AckOutcomes
  <2>4. outcome = "invalidated" => ack.transport # raw.generation
    BY DEF FinishAck, AckOutcomes
  <2>5. ack.transport <= raw.generation
    BY <1>1 DEF SessionOK, Follows
  <2>. QED
    BY <1>6, <2>1, <2>3, <2>4, <2>5 DEF Excused, AcksCanceled
<1>9. /\ session'.ackFailed \in Seq(Results) /\ Len(session'.ackFailed) <= 1
      /\ \A i \in 1..Len(session'.ackFailed) : Excused(session'.ackFailed[i], s, raw.generation)
  <2> HIDE DEF result
  <2>1. CASE session'.ackFailed = <<>>
    BY <2>1
  <2>2. CASE outcome # "ok" /\ ack.generation = s.ackGeneration
    BY <1>2, <1>8, <2>2
  <2>. QED
    BY <1>2, <2>1, <2>2
<1> HIDE DEF s, ack, result
<1>10. SessionShape(session') /\ Failures(session')
  BY <1>1, <1>2, <1>9 DEF SessionOK, SessionShape, Failures
<1>11. \A f : Excused(f, s, raw.generation) => Excused(f, session', raw.generation)
  BY <1>2 DEF Excused
<1>12. Follows(session', raw.generation)
  BY <1>1, <1>2, <1>3, <1>6, <1>9, <1>11, SMTT(30) DEF SessionOK, Follows
<1>13. SessionOK(session', raw.generation)
  BY <1>7, <1>10, <1>12 DEF SessionOK
<1>. QED
  BY <1>2, <1>13, AckStep DEF FinishAck, s

\* The other steps of sendACKs, and Stop.
LEMMA AcksKeep == ASSUME OSDInv, ReportAck \/ StopAcks \/ Stop PROVE OSDInv'
<1> DEFINE s == session
<1>1. SessionOK(s, raw.generation) /\ DOMAIN s = SessionFields
  BY DEF OSDInv, SessionOK, SessionShape
<1>2. /\ DOMAIN session' = SessionFields
      /\ session'.ackActive = s.ackActive /\ session'.ackQueue = s.ackQueue
      /\ session'.backoffs = s.backoffs /\ session'.err = s.err /\ session'.receive = s.receive
      /\ session'.received = s.received /\ session'.ackGeneration = s.ackGeneration
      /\ session'.ackCount = s.ackCount
      /\ session'.ackFailed = s.ackFailed \/ session'.ackFailed = <<>>
      /\ session'.ackResults = s.ackResults \/ session'.ackResults = s.ackFailed
      /\ session'.stopped = s.stopped \/ session'.stopped = TRUE
  BY <1>1 DEF ReportAck, StopAcks, Stop, SessionFields
<1> HIDE DEF s
<1>3. Books(session')
  BY <1>1, <1>2 DEF SessionOK, Books, UnderWay
<1>4. SessionShape(session')
  <2>1. session'.stopped \in BOOLEAN
    BY <1>1, <1>2 DEF SessionOK, SessionShape
  <2>. QED
    BY <1>1, <1>2, <2>1 DEF SessionOK, SessionShape
<1>5. \A f : Excused(f, s, raw.generation) => Excused(f, session', raw.generation)
  BY <1>2 DEF Excused
<1>6. <<>> \in Seq(Results) /\ Len(<<>>) = 0
  OBVIOUS
<1>7. Failures(session')
  <2>1. s.ackFailed \in Seq(Results) /\ Len(s.ackFailed) <= 1 /\ s.ackResults \in Seq(Results) /\ Len(s.ackResults) <= 1
    BY <1>1 DEF SessionOK, Failures
  <2>2. session'.ackFailed \in Seq(Results) /\ Len(session'.ackFailed) <= 1
    <3>1. CASE session'.ackFailed = <<>>
      BY <1>6, <3>1
    <3>. QED
      BY <1>2, <2>1, <3>1
  <2>3. session'.ackResults \in Seq(Results) /\ Len(session'.ackResults) <= 1
    BY <1>2, <2>1
  <2>. QED
    BY <2>2, <2>3 DEF Failures
<1>8. /\ \A i \in 1..Len(session'.ackFailed) : Excused(session'.ackFailed[i], session', raw.generation)
      /\ \A i \in 1..Len(session'.ackResults) : Excused(session'.ackResults[i], session', raw.generation)
  BY <1>1, <1>2, <1>5, <1>6 DEF SessionOK, Follows
<1>9. Follows(session', raw.generation)
  BY <1>1, <1>2, <1>8 DEF SessionOK, Follows
<1>10. SessionOK(session', raw.generation)
  BY <1>3, <1>4, <1>7, <1>9 DEF SessionOK
<1>11. session.stopped => session'.stopped
  BY <1>2 DEF s
<1>. QED
  BY <1>2, <1>10, <1>11, AckStep DEF ReportAck, StopAcks, Stop, s

-----------------------------------------------------------------------------
\* wakeBackoffPG wakes calls that wait and changes nothing else of them.
LEMMA WokenOK ==
  ASSUME CallersShape(caller, raw), NEW pgs
  PROVE  /\ CallersShape(Woken(pgs), raw)
         /\ \A c \in Callers :
              /\ Woken(pgs)[c].object = caller[c].object /\ Woken(pgs)[c].resend = caller[c].resend
              /\ Woken(pgs)[c].pc = "blocked" => caller[c].pc = "blocked" /\ PG(caller[c].object) \notin pgs
<1>1. ASSUME NEW c \in Callers
      PROVE  \/ Woken(pgs)[c] = caller[c] /\ ~(caller[c].pc = "blocked" /\ PG(caller[c].object) \in pgs)
             \/ /\ caller[c].pc = "blocked" /\ Woken(pgs)[c].pc = "woken"
                /\ DOMAIN Woken(pgs)[c] = CallerFields
                /\ Woken(pgs)[c].object = caller[c].object /\ Woken(pgs)[c].resend = caller[c].resend
                /\ Woken(pgs)[c].canceled = caller[c].canceled
  BY DEF Woken, CallersShape, CallerFields
<1>2. DOMAIN Woken(pgs) = Callers
  BY DEF Woken
<1>3. CallersShape(Woken(pgs), raw)
  BY <1>1, <1>2 DEF CallersShape
<1>. QED
  BY <1>1, <1>3

\* An unblocked range marks the requests in it, and changes nothing else.
LEMMA ResendOK ==
  ASSUME NEW w, CallersShape(w, raw), NEW unblocked
  PROVE  /\ CallersShape(Resend(unblocked, w), raw)
         /\ \A c \in Callers :
              /\ Resend(unblocked, w)[c].object = w[c].object /\ Resend(unblocked, w)[c].pc = w[c].pc
              /\ w[c].resend => Resend(unblocked, w)[c].resend
              /\ w[c].pc = "submitted" /\ (\E b \in unblocked : w[c].object \in b.objects) =>
                   Resend(unblocked, w)[c].resend
<1> DEFINE e == Resend(unblocked, w)
<1>1. ASSUME NEW c \in Callers
      PROVE  \/ e[c] = w[c] /\ ~(w[c].pc = "submitted" /\ \E b \in unblocked : w[c].object \in b.objects)
             \/ /\ DOMAIN e[c] = CallerFields /\ e[c].pc = w[c].pc /\ e[c].object = w[c].object
                /\ e[c].resend = TRUE /\ e[c].canceled = w[c].canceled
  BY DEF Resend, CallersShape, CallerFields
<1>2. DOMAIN e = Callers
  BY DEF Resend
<1> HIDE DEF e
<1>3. CallersShape(e, raw)
  BY <1>1, <1>2 DEF CallersShape
<1>4. \A c \in Callers :
        /\ e[c].object = w[c].object /\ e[c].pc = w[c].pc
        /\ w[c].resend => e[c].resend
        /\ w[c].pc = "submitted" /\ (\E b \in unblocked : w[c].object \in b.objects) => e[c].resend
  BY <1>1
<1>. QED
  BY <1>3, <1>4 DEF e

\* Nobody sleeps after a wakeup of all groups.
LEMMA AllWoken ==
  ASSUME CallersShape(caller, raw), NEW pgs, AllPGs \subseteq pgs, NEW c \in Callers
  PROVE  Woken(pgs)[c].pc # "blocked"
<1>1. caller[c].pc = "blocked" => PG(caller[c].object) \in AllPGs
  BY DEF CallersShape, AllPGs
<1>. QED
  BY <1>1, WokenOK

\* Positions of a concatenation.
LEMMA ConcatAt ==
  ASSUME NEW M, NEW q \in Seq(M), NEW r \in Seq(M)
  PROVE  /\ q \o r \in Seq(M) /\ Len(q) \in Nat /\ Len(r) \in Nat /\ Len(q \o r) = Len(q) + Len(r)
         /\ \A i \in 1..Len(q) : (q \o r)[i] = q[i]
         /\ \A i \in 1..Len(q \o r) :
              i \in 1..Len(q) \/ (i - Len(q) \in 1..Len(r) /\ (q \o r)[i] = r[i - Len(q)])
<1>1. q \o r \in Seq(M) /\ Len(q) \in Nat /\ Len(r) \in Nat /\ Len(q \o r) = Len(q) + Len(r)
  BY ConcatProperties, LenProperties
<1>2. ASSUME NEW i \in 1..Len(q) PROVE (q \o r)[i] = q[i]
  <2>1. i \in 1..Len(q) + Len(r) /\ i <= Len(q)
    BY <1>1
  <2>. QED
    BY <2>1, ConcatProperties
<1>3. ASSUME NEW i \in 1..Len(q \o r), i \notin 1..Len(q)
      PROVE  i - Len(q) \in 1..Len(r) /\ (q \o r)[i] = r[i - Len(q)]
  <2>1. i \in 1..Len(q) + Len(r) /\ ~(i <= Len(q)) /\ i - Len(q) \in 1..Len(r)
    BY <1>1, <1>3
  <2>. QED
    BY <2>1, ConcatProperties
<1>. QED
  BY <1>1, <1>2, <1>3

\* A sequence that follows one message.
LEMMA ConcatOne ==
  ASSUME NEW M, NEW q \in Seq(M), NEW r \in Seq(M), Len(q) = 1
  PROVE  q \o r # <<>> /\ Head(q \o r) = q[1] /\ Tail(q \o r) = r
<1> DEFINE a == q \o r
<1>1. /\ a \in Seq(M) /\ Len(a) = 1 + Len(r) /\ Len(r) \in Nat
      /\ \A i \in 1..Len(q) : a[i] = q[i]
      /\ \A i \in 1..Len(a) : i \in 1..Len(q) \/ (i - Len(q) \in 1..Len(r) /\ a[i] = r[i - Len(q)])
  <2>1. a \in Seq(M) /\ Len(a) = Len(q) + Len(r) /\ Len(r) \in Nat
    BY ConcatProperties, LenProperties
  <2>2. \A i \in 1..Len(q) : a[i] = q[i]
    BY ConcatAt, Zenon
  <2>3. \A i \in 1..Len(a) : i \in 1..Len(q) \/ (i - Len(q) \in 1..Len(r) /\ a[i] = r[i - Len(q)])
    BY ConcatAt, ZenonT(30)
  <2> HIDE DEF a
  <2>. QED
    BY <2>1, <2>2, <2>3
<1> HIDE DEF a
<1>2. a # <<>> /\ a[1] = q[1]
  <2>1. Len(a) # 0
    BY <1>1
  <2>. QED
    BY <1>1, <2>1
<1>3. /\ Head(a) = a[1] /\ Tail(a) \in Seq(M) /\ Len(Tail(a)) = Len(a) - 1
      /\ \A i \in 1..Len(Tail(a)) : i + 1 \in 1..Len(a) /\ Tail(a)[i] = a[i + 1]
  BY <1>1, <1>2, TailAt
<1>4. Len(Tail(a)) = Len(r) /\ \A i \in 1..Len(Tail(a)) : Tail(a)[i] = r[i]
  BY <1>1, <1>3
<1>5. Tail(a) = r
  BY <1>3, <1>4, SeqEqual
<1>. QED
  BY <1>2, <1>3, <1>5 DEF a

\* What is on its way, of this transport or an earlier one.
LEMMA ArrivingShape ==
  ASSUME OSDInv
  PROVE  /\ Arriving \in Seq(Messages)
         /\ \A i \in 1..Len(Arriving) : Arriving[i].generation <= raw.generation
<1>1. /\ session.received \in Seq(Messages) /\ raw.incoming \in Seq(Messages)
      /\ \A i \in 1..Len(session.received) : session.received[i].generation <= raw.generation
      /\ \A i \in 1..Len(raw.incoming) : raw.incoming[i].generation <= raw.generation
  BY DEF OSDInv, Shape, RawShape, SessionOK, SessionShape, Follows
<1>2. /\ Arriving \in Seq(Messages)
      /\ \A i \in 1..Len(session.received) : Arriving[i] = session.received[i]
      /\ \A i \in 1..Len(Arriving) :
           \/ i \in 1..Len(session.received)
           \/ /\ i - Len(session.received) \in 1..Len(raw.incoming)
              /\ Arriving[i] = raw.incoming[i - Len(session.received)]
  <2> DEFINE q == session.received
             r == raw.incoming
  <2>1. Arriving = q \o r /\ q \in Seq(Messages) /\ r \in Seq(Messages)
    BY <1>1 DEF Arriving
  <2> HIDE DEF q, r
  <2>2. /\ q \o r \in Seq(Messages)
        /\ \A i \in 1..Len(q) : (q \o r)[i] = q[i]
        /\ \A i \in 1..Len(q \o r) :
             i \in 1..Len(q) \/ (i - Len(q) \in 1..Len(r) /\ (q \o r)[i] = r[i - Len(q)])
    BY <2>1, ConcatAt, Zenon
  <2>3. /\ Arriving \in Seq(Messages)
        /\ \A i \in 1..Len(q) : Arriving[i] = q[i]
        /\ \A i \in 1..Len(Arriving) :
             i \in 1..Len(q) \/ (i - Len(q) \in 1..Len(r) /\ Arriving[i] = r[i - Len(q)])
    BY <2>1, <2>2, Zenon
  <2>. QED
    BY <2>3 DEF q, r
<1>. QED
  BY <1>1, <1>2

\* The message receive has taken is the next one, and what follows is still in the channel.
LEMMA ArrivingTaken ==
  ASSUME OSDInv, session.received # <<>>
  PROVE  /\ Arriving # <<>> /\ Head(Arriving) = Head(session.received) /\ Head(Arriving) \in Messages
         /\ Tail(Arriving) = raw.incoming
<1>1. /\ session.received \in Seq(Messages) /\ raw.incoming \in Seq(Messages) /\ Len(session.received) <= 1
  BY DEF OSDInv, Shape, RawShape, SessionOK, SessionShape
<1>2. Len(session.received) \in Nat \ {0} /\ Head(session.received) = session.received[1]
  BY <1>1, TailAt
<1>3. \A n \in Nat \ {0} : n <= 1 => n = 1 /\ 1 \in 1..n
  OBVIOUS
<1>4. Len(session.received) = 1 /\ session.received[1] \in Messages
  BY <1>1, <1>2, <1>3, ElementOfSeq, Zenon
<1>. QED
  BY <1>1, <1>2, <1>4, ConcatOne DEF Arriving

\* The session fails: everybody is woken, and nothing else is promised any more.
LEMMA FailStep ==
  ASSUME OSDInv, SessionOK(session', raw.generation), session'.receive = "stopping",
         session'.err \in {"invalidated", "canceled"} => session'.stopped,
         NEW pgs, AllPGs \subseteq pgs, caller' = Woken(pgs), UNCHANGED osd,
         raw' = raw \/ raw' = [raw EXCEPT !.reset = FALSE]
  PROVE  OSDInv'
<1>1. CallersShape(caller, raw) /\ DOMAIN raw = RawFields
  BY DEF OSDInv, Shape, RawShape
<1>2. /\ DOMAIN raw' = RawFields /\ raw'.state = raw.state /\ raw'.generation = raw.generation
      /\ raw'.incoming = raw.incoming /\ raw'.request = raw.request
      /\ raw'.reset = raw.reset \/ raw'.reset = FALSE
  BY <1>1 DEF RawFields
<1>3. RawShape(raw)' /\ OSDShape(osd, raw)'
  <2>1. raw'.reset \in BOOLEAN
    BY <1>2 DEF OSDInv, Shape, RawShape
  <2>. QED
    BY <1>2, <2>1 DEF OSDInv, Shape, RawShape, OSDShape
<1>4. CallersShape(caller, raw)'
  BY <1>1, <1>2, WokenOK DEF CallersShape
<1>5. SessionOK(session, raw.generation)' /\ session'.err # "none"
  BY <1>2 DEF SessionOK, SessionShape
<1>6. InOrder(session, raw, osd)' /\ DroppedIsCovered'
  BY DEF InOrder, DroppedIsCovered
<1>7. NoLostWakeup'
  BY <1>1, AllWoken DEF NoLostWakeup
<1>8. BackoffIsCurrent' /\ AckFailureIsCurrent'
  BY <1>5 DEF BackoffIsCurrent, AckFailureIsCurrent
<1>. QED
  BY <1>3, <1>4, <1>5, <1>6, <1>7, <1>8 DEF OSDInv, Shape

\* A message of receive's is taken from the channel; the order is the same.
LEMMA TakeIncomingKeeps == ASSUME OSDInv, TakeIncoming PROVE OSDInv'
<1>1. /\ SessionOK(session, raw.generation) /\ DOMAIN session = SessionFields /\ DOMAIN raw = RawFields
      /\ raw.incoming \in Seq(Messages) /\ raw.incoming # <<>>
      /\ session.received = <<>> /\ session.receive = "running"
  BY DEF OSDInv, Shape, SessionOK, SessionShape, RawShape, TakeIncoming, Selecting
<1> DEFINE m == Head(raw.incoming)
<1>2. /\ Len(raw.incoming) \in Nat \ {0} /\ m = raw.incoming[1] /\ Tail(raw.incoming) \in Seq(Messages)
      /\ \A i \in 1..Len(Tail(raw.incoming)) : i + 1 \in 1..Len(raw.incoming) /\ Tail(raw.incoming)[i] = raw.incoming[i + 1]
  BY <1>1, TailAt
<1>3. m \in Messages /\ m.generation <= raw.generation
  <2>1. 1 \in 1..Len(raw.incoming)
    BY <1>2
  <2>. QED
    BY <1>1, <1>2, <2>1, ElementOfSeq DEF OSDInv, Shape, RawShape
<1>4. /\ DOMAIN session' = SessionFields /\ session'.received = <<m>>
      /\ session'.ackActive = session.ackActive /\ session'.ackQueue = session.ackQueue
      /\ session'.backoffs = session.backoffs /\ session'.err = session.err /\ session'.receive = session.receive
      /\ session'.ackGeneration = session.ackGeneration
      /\ session'.ackCount = session.ackCount /\ session'.ackFailed = session.ackFailed
      /\ session'.ackResults = session.ackResults /\ session'.stopped = session.stopped
  BY <1>1 DEF TakeIncoming, SessionFields
<1>5. /\ DOMAIN raw' = RawFields /\ raw'.incoming = Tail(raw.incoming) /\ raw'.state = raw.state
      /\ raw'.generation = raw.generation /\ raw'.reset = raw.reset /\ raw'.request = raw.request
  BY <1>1 DEF TakeIncoming, RawFields
<1>6. Arriving' = Arriving
  <2> DEFINE q == raw.incoming
  <2>1. /\ <<m>> \in Seq(Messages) /\ Len(<<m>>) = 1 /\ <<m>>[1] = m
    BY <1>3
  <2>2. /\ <<m>> \o Tail(q) \in Seq(Messages) /\ Len(<<m>> \o Tail(q)) = Len(q)
        /\ \A i \in 1..Len(q) : (<<m>> \o Tail(q))[i] = q[i]
    <3> DEFINE a == <<m>> \o Tail(q)
    <3>1. /\ a \in Seq(Messages) /\ Len(a) = 1 + Len(Tail(q)) /\ Len(Tail(q)) = Len(q) - 1 /\ Len(q) \in Nat \ {0}
      BY <1>1, <1>2, <2>1, ConcatProperties, TailAt
    <3>2. a # <<>> /\ Head(a) = m /\ Tail(a) = Tail(q)
      BY <1>2, <2>1, ConcatOne
    <3> HIDE DEF a
    <3>3. /\ Head(a) = a[1]
          /\ \A i \in 1..Len(a) : i # 1 => i - 1 \in 1..Len(Tail(a)) /\ Tail(a)[i - 1] = a[i]
      BY <3>1, <3>2, TailAt
    <3>4. \A i \in 1..Len(q) : i # 1 => i - 1 \in 1..Len(Tail(q)) /\ Tail(q)[i - 1] = q[i]
      BY <1>1, TailAt
    <3>5. Len(a) = Len(q)
      BY <3>1
    <3>6. \A i \in 1..Len(q) : a[i] = q[i]
      BY <1>2, <3>2, <3>3, <3>4, <3>5
    <3>. QED
      BY <3>1, <3>5, <3>6 DEF a
  <2>3. <<m>> \o Tail(q) = q
    BY <1>1, <2>2, SeqEqual
  <2>4. <<>> \o q = q
    BY <1>1, ConcatEmptySeq
  <2>. QED
    BY <1>1, <1>4, <1>5, <2>3, <2>4 DEF Arriving
<1> HIDE DEF m
<1>7. SessionOK(session', raw.generation)
  <2>1. /\ <<m>> \in Seq(Messages) /\ Len(<<m>>) = 1 /\ \A i \in 1..Len(<<m>>) : <<m>>[i] = m
    BY <1>3
  <2>2. SessionShape(session')
    <3>1. session'.received \in Seq(Messages) /\ Len(session'.received) <= 1
      BY <1>4, <2>1
    <3>. QED
      BY <1>1, <1>4, <3>1 DEF SessionOK, SessionShape
  <2>3. Books(session') /\ Failures(session')
    BY <1>1, <1>4 DEF SessionOK, Books, UnderWay, Failures
  <2>4. \A f : Excused(f, session, raw.generation) => Excused(f, session', raw.generation)
    BY <1>4 DEF Excused
  <2>5. \A i \in 1..Len(session'.received) : session'.received[i].generation <= raw.generation
    BY <1>3, <1>4, <2>1
  <2>6. Follows(session', raw.generation)
    BY <1>1, <1>4, <2>4, <2>5 DEF SessionOK, Follows
  <2>. QED
    BY <2>2, <2>3, <2>6 DEF SessionOK
<1>8. Shape'
  <2>1. \A i \in 1..Len(raw'.incoming) : raw'.incoming[i].generation <= raw'.generation
    BY <1>2, <1>5 DEF OSDInv, Shape, RawShape
  <2>2. RawShape(raw)' /\ OSDShape(osd, raw)'
    BY <1>2, <1>5, <2>1 DEF OSDInv, Shape, RawShape, OSDShape, TakeIncoming
  <2>3. CallersShape(caller, raw)'
    BY <1>5 DEF OSDInv, Shape, CallersShape, TakeIncoming
  <2>. QED
    BY <2>2, <2>3 DEF Shape
<1>9. InOrder(session, raw, osd)'
  BY <1>4, <1>5, <1>6 DEF OSDInv, InOrder, Arriving, TakeIncoming
<1>10. DroppedIsCovered'
  BY <1>4, <1>5, <1>6 DEF OSDInv, DroppedIsCovered, TakeIncoming
<1>11. NoLostWakeup' /\ BackoffIsCurrent' /\ AckFailureIsCurrent'
  BY <1>4, <1>5 DEF OSDInv, NoLostWakeup, BackoffIsCurrent, AckFailureIsCurrent, Blocked, TakeIncoming
<1>. QED
  BY <1>5, <1>7, <1>8, <1>9, <1>10, <1>11 DEF OSDInv

\* The session without the message it has taken.
LEMMA TakenOK ==
  ASSUME NEW s, NEW g, SessionOK(s, g), NEW t, t = [s EXCEPT !.received = <<>>]
  PROVE  /\ SessionOK(t, g) /\ t.received = <<>> /\ t.receive = s.receive /\ t.err = s.err
         /\ t.backoffs = s.backoffs /\ t.stopped = s.stopped /\ t.ackGeneration = s.ackGeneration
<1>1. DOMAIN s = SessionFields
  BY DEF SessionOK, SessionShape
<1>2. /\ DOMAIN t = SessionFields /\ t.received = <<>> /\ t.receive = s.receive /\ t.err = s.err
      /\ t.backoffs = s.backoffs /\ t.stopped = s.stopped /\ t.ackGeneration = s.ackGeneration
      /\ t.ackQueue = s.ackQueue /\ t.ackActive = s.ackActive /\ t.ackCount = s.ackCount
      /\ t.ackFailed = s.ackFailed /\ t.ackResults = s.ackResults
  BY <1>1 DEF SessionFields
<1>3. <<>> \in Seq(Messages) /\ Len(<<>>) = 0
  OBVIOUS
<1>4. SessionShape(t)
  <2>1. t.received \in Seq(Messages) /\ Len(t.received) <= 1
    BY <1>2, <1>3
  <2>. QED
    BY <1>2, <2>1 DEF SessionOK, SessionShape
<1>5. Books(t) /\ Failures(t)
  BY <1>2 DEF SessionOK, Books, UnderWay, Failures
<1>6. \A f : Excused(f, s, g) => Excused(f, t, g)
  BY <1>2 DEF Excused
<1>7. Follows(t, g)
  <2>1. \A i \in 1..Len(t.received) : t.received[i].generation <= g
    BY <1>2, <1>3
  <2>. QED
    BY <1>2, <1>6, <2>1 DEF SessionOK, Follows
<1>. QED
  BY <1>2, <1>4, <1>5, <1>7 DEF SessionOK

\* The session with fewer backoffs.
LEMMA ShrinkOK ==
  ASSUME NEW s, NEW g, SessionOK(s, g), NEW K \in SUBSET s.backoffs, NEW t, t = [s EXCEPT !.backoffs = K]
  PROVE  /\ SessionOK(t, g) /\ t.received = s.received /\ t.receive = s.receive /\ t.err = s.err
         /\ t.backoffs = K /\ t.stopped = s.stopped /\ t.ackGeneration = s.ackGeneration
<1>1. DOMAIN s = SessionFields
  BY DEF SessionOK, SessionShape
<1>2. /\ DOMAIN t = SessionFields /\ t.received = s.received /\ t.receive = s.receive /\ t.err = s.err
      /\ t.backoffs = K /\ t.stopped = s.stopped /\ t.ackGeneration = s.ackGeneration
      /\ t.ackQueue = s.ackQueue /\ t.ackActive = s.ackActive /\ t.ackCount = s.ackCount
      /\ t.ackFailed = s.ackFailed /\ t.ackResults = s.ackResults
  BY <1>1 DEF SessionFields
<1>3. SessionShape(t)
  BY <1>2 DEF SessionOK, SessionShape
<1>4. Books(t) /\ Failures(t)
  BY <1>2 DEF SessionOK, Books, UnderWay, Failures
<1>5. \A f : Excused(f, s, g) => Excused(f, t, g)
  BY <1>2 DEF Excused
<1>6. Follows(t, g)
  BY <1>2, <1>5 DEF SessionOK, Follows
<1>. QED
  BY <1>2, <1>3, <1>4, <1>6 DEF SessionOK

\* The session without the result it has taken.
LEMMA ClearedOK ==
  ASSUME NEW s, NEW g, SessionOK(s, g), NEW t, t = [s EXCEPT !.ackResults = <<>>]
  PROVE  /\ SessionOK(t, g) /\ t.received = s.received /\ t.receive = s.receive /\ t.err = s.err
         /\ t.backoffs = s.backoffs /\ t.stopped = s.stopped /\ t.ackGeneration = s.ackGeneration
<1>1. DOMAIN s = SessionFields
  BY DEF SessionOK, SessionShape
<1>2. /\ DOMAIN t = SessionFields /\ t.received = s.received /\ t.receive = s.receive /\ t.err = s.err
      /\ t.backoffs = s.backoffs /\ t.stopped = s.stopped /\ t.ackGeneration = s.ackGeneration
      /\ t.ackQueue = s.ackQueue /\ t.ackActive = s.ackActive /\ t.ackCount = s.ackCount
      /\ t.ackFailed = s.ackFailed /\ t.ackResults = <<>>
  BY <1>1 DEF SessionFields
<1>3. <<>> \in Seq(Results) /\ Len(<<>>) = 0
  OBVIOUS
<1>4. SessionShape(t)
  BY <1>2 DEF SessionOK, SessionShape
<1>5. Books(t)
  BY <1>2 DEF SessionOK, Books, UnderWay
<1>6. Failures(t)
  <2>1. t.ackResults \in Seq(Results) /\ Len(t.ackResults) <= 1
    BY <1>2, <1>3
  <2>. QED
    BY <1>2, <2>1 DEF SessionOK, Failures
<1>7. \A f : Excused(f, s, g) => Excused(f, t, g)
  BY <1>2 DEF Excused
<1>8. Follows(t, g)
  <2>1. \A i \in 1..Len(t.ackResults) : Excused(t.ackResults[i], t, g)
    BY <1>2, <1>3
  <2>. QED
    BY <1>2, <1>7, <2>1 DEF SessionOK, Follows
<1>. QED
  BY <1>2, <1>4, <1>5, <1>6, <1>8 DEF SessionOK

\* What reconcile leaves of the backoffs: all of them, or none and they were of an
\* earlier transport; in both cases they are of the present one.
LEMMA ReconciledBackoffs ==
  ASSUME OSDInv, NEW s, SessionOK(s, raw.generation), s.receive = "running", s.backoffs = session.backoffs,
         s.ackGeneration = session.ackGeneration, session.receive = "running"
  PROVE  LET p == Reconcile(s)
         IN  /\ \A b \in p.backoffs : b \in session.backoffs /\ b.kind = "block" /\ b.generation = raw.generation
             /\ \A b \in session.backoffs : b.generation = raw.generation => b \in p.backoffs
             /\ p.backoffs = session.backoffs \/ Reconciled = AllPGs
             /\ Ordered(Arriving, raw.generation, p.backoffs, osd.blocks)
<1> DEFINE p == Reconcile(s)
<1>1. /\ p.backoffs = (IF raw.generation = s.ackGeneration THEN s.backoffs ELSE {})
  BY ReconcileOK DEF OSDInv, Shape
<1>2. \A b \in session.backoffs : b.kind = "block" /\ b.generation = session.ackGeneration
  BY DEF SessionOK, Follows
<1>3. Ordered(Arriving, raw.generation, session.backoffs, osd.blocks)
  BY DEF OSDInv, InOrder, Arriving
<1>4. CASE raw.generation = s.ackGeneration
  BY <1>1, <1>2, <1>3, <1>4
<1>5. CASE raw.generation # s.ackGeneration
  <2>1. \A b \in session.backoffs : b.generation # raw.generation
    BY <1>2, <1>5
  <2>2. Ordered(Arriving, raw.generation, {}, osd.blocks)
    BY <1>3, <2>1, OrderedReset
  <2>. QED
    BY <1>1, <1>5, <2>1, <2>2 DEF Reconciled
<1>. QED
  BY <1>4, <1>5

\* A request that is covered stays so while the messages before it are read, if what
\* covers it stays known.
LEMMA CoveredOn ==
  ASSUME OSDInv, NEW c \in Callers, session.receive = "running",
         raw'.request[c] = raw.request[c], raw'.generation = raw.generation,
         caller'[c].object = caller[c].object, caller[c].resend => caller'[c].resend,
         NEW q \in Seq(Messages), q # <<>>, q = Arriving, Arriving' = Tail(q),
         Block(Head(q), raw.generation) => Head(q) \in session'.backoffs,
         raw.request[c] = "dropped" /\ ~caller'[c].resend =>
           \A b \in session.backoffs :
             b.kind = "block" /\ b.generation = raw.generation /\ caller[c].object \in b.objects => b \in session'.backoffs
  PROVE  CoveredFor(c)'
<1> SUFFICES ASSUME raw.request[c] = "dropped", ~caller'[c].resend
             PROVE  \E b \in session'.backoffs \cup {Arriving'[i] : i \in 1..Len(Arriving')} :
                      b.kind = "block" /\ caller[c].object \in b.objects /\ b.generation = raw.generation
  BY DEF CoveredFor
<1>1. PICK b \in session.backoffs \cup {Arriving[i] : i \in 1..Len(Arriving)} :
        b.kind = "block" /\ caller[c].object \in b.objects /\ b.generation = raw.generation
  BY CallFacts DEF CoveredFor
<1>2. CASE b \in session.backoffs
  BY <1>1, <1>2
<1>3. ASSUME NEW i \in 1..Len(q), b = q[i]
      PROVE  b \in session'.backoffs \cup {Arriving'[j] : j \in 1..Len(Arriving')}
  <2>1. CASE i = 1
    <3>1. Head(q) = q[1]
      BY TailAt
    <3>. QED
      BY <1>1, <1>3, <2>1, <3>1 DEF Block
  <2>2. CASE i # 1
    <3>1. i - 1 \in 1..Len(Tail(q)) /\ Tail(q)[i - 1] = b
      BY <1>3, <2>2, TailAt
    <3>. QED
      BY <3>1
  <2>. QED
    BY <2>1, <2>2
<1>. QED
  BY <1>1, <1>2, <1>3

\* The parts of the invariant of a step of receive after which it runs on, with a message
\* taken: the backoffs L that are then known decide.
LEMMA HandledStep ==
  ASSUME OSDInv, session.receive = "running", session.received # <<>>, UNCHANGED <<raw, osd>>,
         SessionOK(session', raw.generation), session'.err = "none", session'.receive = "running", session'.received = <<>>,
         CallersShape(caller', raw),
         Ordered(Tail(Arriving), raw.generation, session'.backoffs, osd.blocks),
         \A b \in session'.backoffs : b \in session.backoffs \/ b.generation = raw.generation,
         Block(Head(Arriving), raw.generation) => Head(Arriving) \in session'.backoffs,
         \A c \in Callers :
           /\ caller'[c].object = caller[c].object /\ (caller[c].resend => caller'[c].resend)
           /\ raw.request[c] = "dropped" /\ ~caller'[c].resend =>
                \A b \in session.backoffs :
                  b.kind = "block" /\ b.generation = raw.generation /\ caller[c].object \in b.objects => b \in session'.backoffs
           /\ caller'[c].pc = "blocked" =>
                \E b \in session.backoffs : b \in session'.backoffs /\ caller[c].object \in b.objects
  PROVE  OSDInv'
<1>1. /\ Arriving # <<>> /\ Tail(Arriving) = raw.incoming /\ Arriving \in Seq(Messages) /\ raw.incoming \in Seq(Messages)
  BY ArrivingTaken, ArrivingShape DEF OSDInv, Shape, RawShape
<1>2. Arriving' = Tail(Arriving)
  <2>1. <<>> \o raw.incoming = raw.incoming
    BY <1>1, ConcatEmptySeq
  <2>. QED
    BY <1>1, <2>1 DEF Arriving
<1>3. InOrder(session, raw, osd)'
  BY <1>2 DEF InOrder, Arriving
<1>4. ASSUME NEW c \in Callers PROVE CoveredFor(c)'
  BY <1>1, <1>2, CoveredOn
<1>5. DroppedIsCovered'
  BY <1>4 DEF DroppedIsCovered, CoveredFor
<1>6. NoLostWakeup'
  BY DEF NoLostWakeup, Blocked
<1>7. BackoffIsCurrent'
  BY DEF OSDInv, BackoffIsCurrent, SessionOK, SessionShape
<1>8. AckFailureIsCurrent'
  BY DEF AckFailureIsCurrent
<1>9. Shape'
  BY DEF OSDInv, Shape
<1>. QED
  BY <1>3, <1>5, <1>6, <1>7, <1>8, <1>9 DEF OSDInv

\* A message that is none of this transport's blocks and unblocks is dropped.
LEMMA DropMessage ==
  ASSUME OSDInv, session.receive = "running", session.received # <<>>, UNCHANGED <<raw, osd>>,
         LET m == Head(session.received)
             t == [session EXCEPT !.received = <<>>]
         IN  /\ m.kind \notin {"block", "unblock"} \/ m.generation # raw.generation
             /\ \/ session' = t /\ caller' = caller
                \/ session' = Reconcile(t) /\ caller' = Woken(Reconciled)
  PROVE  OSDInv'
<1> DEFINE m == Head(Arriving)
           t == [session EXCEPT !.received = <<>>]
           g == raw.generation
<1>1. /\ Arriving # <<>> /\ m = Head(session.received) /\ m \in Messages /\ Arriving \in Seq(Messages)
  BY ArrivingTaken, ArrivingShape
<1>2. ~Block(m, g) /\ \A id : ~Unblock(m, g, id)
  BY <1>1 DEF Block, Unblock
<1>3. /\ SessionOK(t, g) /\ t.received = <<>> /\ t.receive = "running" /\ t.err = session.err
      /\ t.backoffs = session.backoffs /\ t.stopped = session.stopped /\ t.ackGeneration = session.ackGeneration
  BY TakenOK DEF OSDInv
<1>4. session.err = "none" /\ CallersShape(caller, raw) /\ RawShape(raw)
  BY DEF OSDInv, Shape, SessionOK, SessionShape
<1> HIDE DEF t
<1>5. CASE session' = t /\ caller' = caller
  <2>1. Ordered(Arriving, g, session.backoffs, osd.blocks)
    BY DEF OSDInv, InOrder, Arriving
  <2>2. Ordered(Tail(Arriving), g, session.backoffs, osd.blocks)
    BY <1>1, <1>2, <2>1, OrderedTail
  <2>3. \A c \in Callers : caller[c].pc = "blocked" => \E b \in session.backoffs : caller[c].object \in b.objects
    BY DEF OSDInv, NoLostWakeup, Blocked
  <2>. QED
    BY <1>2, <1>3, <1>4, <1>5, <2>2, <2>3, HandledStep
<1>6. CASE session' = Reconcile(t) /\ caller' = Woken(Reconciled)
  <2>1. /\ SessionOK(session', g) /\ session'.receive = "running" /\ session'.received = <<>> /\ session'.err = "none"
    BY <1>3, <1>4, <1>6, ReconcileOK
  <2>2. /\ \A b \in session'.backoffs : b \in session.backoffs /\ b.kind = "block" /\ b.generation = g
        /\ \A b \in session.backoffs : b.generation = g => b \in session'.backoffs
        /\ session'.backoffs = session.backoffs \/ Reconciled = AllPGs
        /\ Ordered(Arriving, g, session'.backoffs, osd.blocks)
    BY <1>3, <1>6, ReconciledBackoffs
  <2>3. Ordered(Tail(Arriving), g, session'.backoffs, osd.blocks)
    BY <1>1, <1>2, <2>2, OrderedTail
  <2>4. /\ CallersShape(caller', raw)
        /\ \A c \in Callers :
             /\ caller'[c].object = caller[c].object /\ caller'[c].resend = caller[c].resend
             /\ caller'[c].pc = "blocked" => caller[c].pc = "blocked"
             /\ caller'[c].pc = "blocked" => Reconciled # AllPGs
    BY <1>4, <1>6, WokenOK, AllWoken
  <2>5. \A c \in Callers : caller[c].pc = "blocked" => \E b \in session.backoffs : caller[c].object \in b.objects
    BY DEF OSDInv, NoLostWakeup, Blocked
  <2>. QED
    BY <1>2, <2>1, <2>2, <2>3, <2>4, <2>5, HandledStep
<1>. QED
  BY <1>1, <1>5, <1>6 DEF t

\* A block is added: no id is known twice, and whoever waits finds its own block still there.
LEMMA HandleBlockKeeps ==
  ASSUME OSDInv, session.receive = "running", session.received # <<>>, UNCHANGED <<raw, osd>>,
         NEW m, m = Head(session.received), m.kind = "block", m.generation = raw.generation,
         HandleBlock(Reconcile([session EXCEPT !.received = <<>>]), m)
  PROVE  OSDInv'
<1> DEFINE t == [session EXCEPT !.received = <<>>]
           g == raw.generation
           s == Reconcile(t)
           p == AddBackoff(s, m)
           e == EnqueueACK(p, m)
<1>1. /\ Arriving # <<>> /\ m = Head(Arriving) /\ m \in Messages /\ Arriving \in Seq(Messages) /\ Block(m, g)
  BY ArrivingTaken, ArrivingShape DEF Block
<1>2. /\ SessionOK(t, g) /\ t.received = <<>> /\ t.receive = "running" /\ t.err = session.err
      /\ t.backoffs = session.backoffs /\ t.stopped = session.stopped /\ t.ackGeneration = session.ackGeneration
  BY TakenOK DEF OSDInv
<1>3. session.err = "none" /\ CallersShape(caller, raw) /\ RawShape(raw) /\ g \in Nat
  BY DEF OSDInv, Shape, SessionOK, SessionShape, RawShape
<1> HIDE DEF t
<1>4. /\ SessionOK(s, g) /\ s.receive = "running" /\ s.received = <<>> /\ s.err = "none"
      /\ s.ackGeneration = g /\ s.stopped = session.stopped
  BY <1>2, <1>3, ReconcileOK
<1>5. /\ \A b \in s.backoffs : b \in session.backoffs /\ b.kind = "block" /\ b.generation = g
      /\ \A b \in session.backoffs : b.generation = g => b \in s.backoffs
      /\ s.backoffs = session.backoffs \/ Reconciled = AllPGs
      /\ Ordered(Arriving, g, s.backoffs, osd.blocks)
  BY <1>2, ReconciledBackoffs
<1> HIDE DEF s
<1>6. WithID(s, m.id) = {}
  BY <1>1, <1>5, HeadIsNew DEF WithID
<1>7. /\ SessionOK(p, g) /\ p.stopped = s.stopped /\ p.received = <<>>
      /\ \/ p.err = "failed" /\ p.receive = "stopping"
         \/ p.err = "none" /\ p.receive = "running" /\ p.backoffs = s.backoffs \cup {m}
  BY <1>1, <1>4, <1>6, AddOK
<1> HIDE DEF p
<1>8. m.generation <= g
  BY <1>3
<1>9. /\ SessionOK(e, g) /\ e.stopped = p.stopped
      /\ e = p \/ (e.err = "failed" /\ e.receive = "stopping")
         \/ (e.err = p.err /\ e.receive = p.receive /\ e.backoffs = p.backoffs /\ e.received = <<>>)
  BY <1>1, <1>7, <1>8, EnqueueOK
<1>10. /\ session' = e
       /\ caller' = Woken(Reconciled \cup Failed(e) \cup {PG(object) : object \in m.objects})
  BY DEF HandleBlock, t, s, p, e
<1> HIDE DEF e
<1>11. CASE e.err = "failed" /\ e.receive = "stopping"
  <2>1. Failed(e) = AllPGs
    BY <1>11 DEF Failed
  <2>. QED
    BY <1>9, <1>10, <1>11, <2>1, FailStep
<1>12. CASE e.err = "none" /\ e.receive = "running" /\ e.backoffs = s.backoffs \cup {m} /\ e.received = <<>>
  <2>1. Ordered(Tail(Arriving), g, e.backoffs, osd.blocks)
    <3>1. \A id : ~Unblock(m, g, id)
      BY <1>1 DEF Block, Unblock
    <3>. QED
      BY <1>1, <1>5, <1>12, <3>1, OrderedTail
  <2>2. /\ CallersShape(caller', raw)
        /\ \A c \in Callers :
             /\ caller'[c].object = caller[c].object /\ caller'[c].resend = caller[c].resend
             /\ caller'[c].pc = "blocked" => caller[c].pc = "blocked"
             /\ caller'[c].pc = "blocked" => Reconciled # AllPGs
    BY <1>3, <1>10, WokenOK, AllWoken
  <2>3. \A c \in Callers : caller[c].pc = "blocked" => \E b \in session.backoffs : caller[c].object \in b.objects
    BY DEF OSDInv, NoLostWakeup, Blocked
  <2>4. \A b \in e.backoffs : b \in session.backoffs \/ b.generation = g
    BY <1>1, <1>5, <1>12 DEF Block
  <2>5. \A b \in session.backoffs : b.generation = g => b \in e.backoffs
    BY <1>5, <1>12
  <2>6. \A c \in Callers : caller'[c].pc = "blocked" =>
          \E b \in session.backoffs : b \in e.backoffs /\ caller[c].object \in b.objects
    BY <1>5, <1>12, <2>2, <2>3
  <2>. QED
    BY <1>1, <1>9, <1>10, <1>12, <2>1, <2>2, <2>4, <2>5, <2>6, HandledStep
<1>. QED
  BY <1>7, <1>9, <1>11, <1>12

\* A block is ended: whoever it held back is woken, and what the OSD may have dropped is
\* sent again.
LEMMA HandleUnblockKeeps ==
  ASSUME OSDInv, session.receive = "running", session.received # <<>>, UNCHANGED <<raw, osd>>,
         NEW m, m = Head(session.received), m.kind = "unblock", m.generation = raw.generation,
         HandleUnblock(Reconcile([session EXCEPT !.received = <<>>]), m)
  PROVE  OSDInv'
<1> DEFINE t == [session EXCEPT !.received = <<>>]
           g == raw.generation
           s == Reconcile(t)
           unblocked == WithID(s, m.id)
           pgs == Reconciled \cup UNION {{PG(object) : object \in b.objects} : b \in unblocked}
<1>1. /\ Arriving # <<>> /\ m = Head(Arriving) /\ Arriving \in Seq(Messages)
      /\ \A id : Unblock(m, g, id) <=> m.id = id
      /\ ~Block(m, g)
  BY ArrivingTaken, ArrivingShape DEF Block, Unblock
<1>2. /\ SessionOK(t, g) /\ t.received = <<>> /\ t.receive = "running" /\ t.err = session.err
      /\ t.backoffs = session.backoffs /\ t.stopped = session.stopped /\ t.ackGeneration = session.ackGeneration
  BY TakenOK DEF OSDInv
<1>3. session.err = "none" /\ CallersShape(caller, raw) /\ RawShape(raw)
  BY DEF OSDInv, Shape, SessionOK, SessionShape
<1> HIDE DEF t
<1>4. /\ SessionOK(s, g) /\ s.receive = "running" /\ s.received = <<>> /\ s.err = "none"
  BY <1>2, <1>3, ReconcileOK
<1>5. /\ \A b \in s.backoffs : b \in session.backoffs /\ b.kind = "block" /\ b.generation = g
      /\ \A b \in session.backoffs : b.generation = g => b \in s.backoffs
      /\ s.backoffs = session.backoffs \/ Reconciled = AllPGs
      /\ Ordered(Arriving, g, s.backoffs, osd.blocks)
  BY <1>2, ReconciledBackoffs
<1>6. session' = [s EXCEPT !.backoffs = s.backoffs \ unblocked] /\ caller' = Resend(unblocked, Woken(pgs))
  BY DEF HandleUnblock, t
<1> HIDE DEF s
<1>7. \A b \in s.backoffs : b \in unblocked <=> b.id = m.id
  BY DEF WithID
<1> HIDE DEF unblocked
<1>8. /\ SessionOK(session', g) /\ session'.received = <<>> /\ session'.receive = "running" /\ session'.err = "none"
      /\ session'.backoffs = s.backoffs \ unblocked
  <2> DEFINE K == s.backoffs \ unblocked
             n == [s EXCEPT !.backoffs = K]
  <2>1. K \in SUBSET s.backoffs /\ session' = n
    BY <1>6
  <2> HIDE DEF K
  <2>2. /\ SessionOK(n, g) /\ n.received = s.received /\ n.receive = s.receive
        /\ n.err = s.err /\ n.backoffs = K
    <3>1. SessionOK(s, g) /\ K \in SUBSET s.backoffs
      BY <1>4, <2>1
    <3>. QED
      BY <3>1, ShrinkOK
  <2> HIDE DEF n
  <2>. QED
    BY <1>4, <2>1, <2>2 DEF K
<1>9. Ordered(Tail(Arriving), g, session'.backoffs, osd.blocks)
  BY <1>1, <1>5, <1>7, <1>8, OrderedTail
<1>10. /\ CallersShape(Woken(pgs), raw)
       /\ \A c \in Callers :
            /\ Woken(pgs)[c].object = caller[c].object /\ Woken(pgs)[c].resend = caller[c].resend
            /\ Woken(pgs)[c].pc = "blocked" => caller[c].pc = "blocked" /\ PG(caller[c].object) \notin pgs
            /\ Woken(pgs)[c].pc = "blocked" => Reconciled # AllPGs
  BY <1>3, WokenOK, AllWoken
<1> DEFINE w == Woken(pgs)
<1>11. /\ CallersShape(caller', raw)
       /\ \A c \in Callers :
            /\ caller'[c].object = w[c].object /\ caller'[c].pc = w[c].pc
            /\ w[c].resend => caller'[c].resend
            /\ w[c].pc = "submitted" /\ (\E b \in unblocked : w[c].object \in b.objects) => caller'[c].resend
  <2>1. caller' = Resend(unblocked, w) /\ CallersShape(w, raw)
    BY <1>6, <1>10
  <2> HIDE DEF w
  <2>. QED
    BY <2>1, ResendOK
<1>12. \A c \in Callers : raw.request[c] = "dropped" => w[c].pc = "submitted"
  BY <1>10 DEF CallersShape
<1> HIDE DEF w
<1>13. ASSUME NEW c \in Callers, raw.request[c] = "dropped", ~caller'[c].resend,
              NEW b \in session.backoffs, b.generation = g, caller[c].object \in b.objects
       PROVE  b \in session'.backoffs
  <2>1. w[c].object = caller[c].object
    BY <1>10 DEF w
  <2>2. b \notin unblocked
    BY <1>11, <1>12, <1>13, <2>1
  <2>. QED
    BY <1>5, <1>8, <1>13, <2>2
<1>14. ASSUME NEW c \in Callers, caller'[c].pc = "blocked"
       PROVE  \E b \in session.backoffs : b \in session'.backoffs /\ caller[c].object \in b.objects
  <2>1. w[c].pc = "blocked"
    BY <1>11, <1>14
  <2>2. caller[c].pc = "blocked" /\ PG(caller[c].object) \notin pgs /\ Reconciled # AllPGs
    BY <1>10, <2>1 DEF w
  <2>3. PICK b \in session.backoffs : caller[c].object \in b.objects
    BY <2>2 DEF OSDInv, NoLostWakeup, Blocked
  <2>4. b \notin unblocked
    BY <2>2, <2>3
  <2>5. b \in s.backoffs
    BY <1>5, <2>2, <2>3
  <2>. QED
    BY <1>8, <2>3, <2>4, <2>5
<1>15. \A c \in Callers : caller'[c].object = caller[c].object /\ (caller[c].resend => caller'[c].resend)
  BY <1>10, <1>11 DEF w
<1>16. \A b \in session'.backoffs : b \in session.backoffs \/ b.generation = g
  BY <1>5, <1>8
<1>. QED
  BY <1>1, <1>8, <1>9, <1>11, <1>13, <1>14, <1>15, <1>16, HandledStep

\* Every message receive handles.
LEMMA HandleIncomingKeeps == ASSUME OSDInv, HandleIncoming PROVE OSDInv'
<1> DEFINE m == Head(session.received)
           t == [session EXCEPT !.received = <<>>]
<1>1. session.receive = "running" /\ session.received # <<>> /\ UNCHANGED <<raw, osd>>
  BY DEF HandleIncoming
<1>2. /\ SessionOK(t, raw.generation) /\ t.received = <<>> /\ t.receive = "running" /\ t.stopped = session.stopped
  BY <1>1, TakenOK DEF OSDInv
<1>3. CASE session' = Fail(t, "failed") /\ caller' = Woken(AllPGs)
  <2> HIDE DEF t
  <2>1. SessionOK(session', raw.generation) /\ session'.receive = "stopping" /\ session'.err = "failed"
    BY <1>2, <1>3, FailOK
  <2>. QED
    BY <1>1, <1>3, <2>1, FailStep
<1>4. CASE /\ m.kind \notin {"block", "unblock"} \/ m.generation # raw.generation
           /\ (session' = t /\ caller' = caller) \/ (session' = Reconcile(t) /\ caller' = Woken(Reconciled))
  BY <1>1, <1>4, DropMessage
<1>5. CASE m.kind = "block" /\ m.generation = raw.generation /\ HandleBlock(Reconcile(t), m)
  BY <1>1, <1>5, HandleBlockKeeps
<1>6. CASE m.kind = "unblock" /\ m.generation = raw.generation /\ HandleUnblock(Reconcile(t), m)
  BY <1>1, <1>6, HandleUnblockKeeps
<1>. QED
  BY <1>3, <1>4, <1>5, <1>6 DEF HandleIncoming

\* A step of receive that reconciles, and wakes at least whom that wakes.
LEMMA ReconciledStep ==
  ASSUME OSDInv, Selecting, UNCHANGED osd, raw' = [raw EXCEPT !.reset = FALSE],
         SessionOK(session', raw.generation), session'.err = "none", session'.receive = "running",
         session'.received = <<>>, session'.backoffs = Reconcile(session).backoffs,
         NEW pgs, Reconciled \subseteq pgs, caller' = Woken(pgs)
  PROVE  OSDInv'
<1> DEFINE g == raw.generation
<1>1. /\ DOMAIN raw' = RawFields /\ raw'.state = raw.state /\ raw'.generation = raw.generation
      /\ raw'.incoming = raw.incoming /\ raw'.request = raw.request /\ raw'.reset = FALSE
  BY DEF OSDInv, Shape, RawShape, RawFields
<1>2. RawShape(raw)' /\ OSDShape(osd, raw)'
  BY <1>1 DEF OSDInv, Shape, RawShape, OSDShape
<1>3. SessionOK(session, g) /\ session.receive = "running" /\ session.received = <<>> /\ CallersShape(caller, raw)
  BY DEF OSDInv, Shape, Selecting
<1>4. /\ \A b \in session'.backoffs : b \in session.backoffs /\ b.kind = "block" /\ b.generation = g
      /\ \A b \in session.backoffs : b.generation = g => b \in session'.backoffs
      /\ session'.backoffs = session.backoffs \/ Reconciled = AllPGs
      /\ Ordered(Arriving, g, session'.backoffs, osd.blocks)
  BY <1>3, ReconciledBackoffs
<1>5. Arriving' = Arriving
  BY <1>1, <1>3 DEF Arriving
<1>6. /\ CallersShape(caller', raw)
      /\ \A c \in Callers :
           /\ caller'[c].object = caller[c].object /\ caller'[c].resend = caller[c].resend
           /\ caller'[c].pc = "blocked" => caller[c].pc = "blocked"
           /\ caller'[c].pc = "blocked" => Reconciled # AllPGs
  BY <1>3, WokenOK, AllWoken
<1>7. CallersShape(caller, raw)'
  BY <1>1, <1>6 DEF CallersShape
<1>8. InOrder(session, raw, osd)'
  BY <1>1, <1>4, <1>5 DEF InOrder, Arriving
<1>9. DroppedIsCovered'
  BY <1>1, <1>3, <1>4, <1>5, <1>6 DEF OSDInv, DroppedIsCovered
<1>10. NoLostWakeup'
  BY <1>4, <1>6 DEF OSDInv, NoLostWakeup, Blocked
<1>11. BackoffIsCurrent' /\ AckFailureIsCurrent'
  BY <1>1, <1>4 DEF BackoffIsCurrent, AckFailureIsCurrent
<1>. QED
  BY <1>1, <1>2, <1>7, <1>8, <1>9, <1>10, <1>11 DEF OSDInv, Shape

\* A reset of the messenger.
LEMMA TakeResetKeeps == ASSUME OSDInv, TakeReset PROVE OSDInv'
<1>1. /\ SessionOK(session, raw.generation) /\ session.receive = "running" /\ session.received = <<>>
      /\ session.err = "none" /\ RawShape(raw)
  BY DEF OSDInv, Shape, SessionOK, SessionShape, TakeReset, Selecting
<1>2. /\ SessionOK(session', raw.generation) /\ session'.err = "none" /\ session'.receive = "running"
      /\ session'.received = <<>>
  BY <1>1, ReconcileOK DEF TakeReset
<1>. QED
  BY <1>2, ReconciledStep DEF TakeReset

\* A failed acknowledgment ends the session only if it failed on the present transport.
LEMMA TakeAckResultKeeps == ASSUME OSDInv, TakeAckResult PROVE OSDInv'
<1> DEFINE g == raw.generation
           p == Reconcile(session)
           s == [p EXCEPT !.ackResults = <<>>]
           result == Head(session.ackResults)
           next == IF AckIsCurrent(s, result) THEN Fail(s, result.err) ELSE s
<1>1. /\ SessionOK(session, g) /\ session.receive = "running" /\ session.received = <<>>
      /\ session.err = "none" /\ RawShape(raw) /\ session.ackResults # <<>>
  BY DEF OSDInv, Shape, SessionOK, SessionShape, TakeAckResult, Selecting
<1>2. /\ SessionOK(p, g) /\ p.err = "none" /\ p.receive = "running" /\ p.received = <<>> /\ p.stopped = session.stopped
  BY <1>1, ReconcileOK
<1>3. /\ session' = next /\ caller' = Woken(Reconciled \cup Failed(next)) /\ UNCHANGED osd
      /\ raw' = [raw EXCEPT !.reset = FALSE]
  BY DEF TakeAckResult
<1> HIDE DEF p
<1>4. /\ SessionOK(s, g) /\ s.err = "none" /\ s.receive = "running" /\ s.received = <<>>
      /\ s.stopped = session.stopped /\ s.backoffs = p.backoffs
  BY <1>2, ClearedOK
<1> HIDE DEF s
<1>5. Excused(result, session, g)
  <2>1. session.ackResults \in Seq(Results)
    BY <1>1 DEF SessionOK, Failures
  <2>2. result = session.ackResults[1] /\ 1 \in 1..Len(session.ackResults)
    BY <1>1, <2>1
  <2>. QED
    BY <1>1, <2>2 DEF SessionOK, Follows
<1> HIDE DEF result
<1>6. CASE AckIsCurrent(s, result)
  <2>1. next = Fail(s, result.err)
    BY <1>6
  <2>2. result.err # "none" /\ (result.err = "canceled" => session.stopped)
    BY <1>1, <1>5 DEF Excused
  <2>3. result.err # "invalidated"
    <3>1. result.transport = g /\ g \in Nat
      BY <1>1, <1>6 DEF AckIsCurrent, RawShape
    <3>. QED
      BY <1>5, <3>1 DEF Excused
  <2>4. /\ SessionOK(next, g) /\ next.receive = "stopping" /\ next.err = result.err /\ next.stopped = session.stopped
    BY <1>4, <2>1, <2>2, FailOK, SMTT(30)
  <2>5. Failed(next) = AllPGs
    BY <2>2, <2>4, SMTT(30) DEF Failed
  <2> HIDE DEF next
  <2>. QED
    BY <1>3, <2>2, <2>3, <2>4, <2>5, FailStep
<1>7. CASE ~AckIsCurrent(s, result)
  <2>1. next = s
    BY <1>7
  <2> HIDE DEF next
  <2>2. Reconciled \subseteq Reconciled \cup Failed(next)
    OBVIOUS
  <2>3. Selecting
    BY DEF TakeAckResult
  <2>. QED
    BY <1>3, <1>4, <2>1, <2>2, <2>3, ReconciledStep DEF p
<1>. QED
  BY <1>6, <1>7

\* The end of the messenger.
LEMMA TakeTerminalKeeps == ASSUME OSDInv, TakeTerminal PROVE OSDInv'
<1>1. SessionOK(session, raw.generation) /\ session.receive = "running" /\ session.received = <<>>
  BY DEF OSDInv, TakeTerminal, Selecting
<1>2. SessionOK(session', raw.generation) /\ session'.receive = "stopping" /\ session'.err = "failed"
  BY <1>1, FailOK DEF TakeTerminal
<1>. QED
  BY <1>2, FailStep DEF TakeTerminal

\* Once the session has failed nobody sleeps and nothing is to be covered.
LEMMA StoppedStep ==
  ASSUME OSDInv, UNCHANGED caller, session.receive \in {"stopping", "closing"},
         session'.receive \in {"closing", "done"}, session'.err = session.err, session'.stopped = session.stopped,
         SessionOK(session', raw'.generation), RawShape(raw'), OSDShape(osd', raw'),
         \A c \in Callers : raw'.request[c] = "none" <=> raw.request[c] = "none"
  PROVE  OSDInv'
<1>1. session.err # "none"
  BY DEF OSDInv, SessionOK, SessionShape
<1>2. CallersShape(caller, raw)'
  BY DEF OSDInv, Shape, CallersShape
<1>3. InOrder(session, raw, osd)' /\ DroppedIsCovered'
  BY DEF InOrder, DroppedIsCovered
<1>4. NoLostWakeup' /\ BackoffIsCurrent' /\ AckFailureIsCurrent'
  BY <1>1 DEF OSDInv, NoLostWakeup, BackoffIsCurrent, AckFailureIsCurrent
<1>. QED
  BY <1>2, <1>3, <1>4 DEF OSDInv, Shape

\* What the messenger answers when it ends.
LEMMA SettledOK ==
  ASSUME NEW r \in [Callers -> Outcomes], NEW q, q = [c \in Callers |-> Settled(r[c])]
  PROVE  /\ q \in [Callers -> Outcomes]
         /\ \A c \in Callers : (q[c] = "none" <=> r[c] = "none") /\ q[c] # "dropped"
<1>1. \A x \in Outcomes : Settled(x) \in Outcomes /\ (Settled(x) = "none" <=> x = "none") /\ Settled(x) # "dropped"
  BY DEF Settled, Outcomes
<1>. QED
  BY <1>1

\* receive stops the messenger, and cancels the acknowledgments.
LEMMA StopReceiveKeeps == ASSUME OSDInv, StopReceive PROVE OSDInv'
<1> DEFINE g == session.ackGeneration + 1
           a == ResetACKs(session, g)
<1>1. /\ SessionOK(session, raw.generation) /\ DOMAIN session = SessionFields /\ session.receive = "stopping"
      /\ RawShape(raw) /\ DOMAIN raw = RawFields
      /\ session.ackActive \in Acks /\ session.err # "none" /\ session.received = <<>>
  BY DEF OSDInv, Shape, RawShape, SessionOK, SessionShape, Books, StopReceive
<1>2. session.ackGeneration < g /\ g \in Generations
  <2>1. session.ackGeneration \in Nat /\ session.ackGeneration <= raw.generation
    BY <1>1, Bounds DEF SessionOK, Books, Follows
  <2>. QED
    BY <1>1, <2>1, RawGeneration, Bounds
<1>3. /\ DOMAIN a = SessionFields
      /\ a.ackGeneration = g /\ a.ackQueue = <<>> /\ a.ackCount = session.ackCount - Len(session.ackQueue)
      /\ a.ackActive = [session.ackActive EXCEPT !.canceled = session.ackActive # NoAck]
      /\ a.err = session.err /\ a.received = session.received /\ a.stopped = session.stopped
      /\ a.ackFailed = session.ackFailed /\ a.backoffs = session.backoffs
  BY <1>1, ResetFields DEF SessionFields
<1>4. session' = [a EXCEPT !.receive = "closing", !.ackResults = <<>>]
  BY DEF StopReceive
<1> HIDE DEF a
<1>5. /\ DOMAIN session' = SessionFields
      /\ session'.ackGeneration = g /\ session'.ackQueue = <<>>
      /\ session'.ackCount = session.ackCount - Len(session.ackQueue)
      /\ session'.ackActive = [session.ackActive EXCEPT !.canceled = session.ackActive # NoAck]
      /\ session'.err = session.err /\ session'.received = session.received /\ session'.stopped = session.stopped
      /\ session'.ackFailed = session.ackFailed /\ session'.backoffs = session.backoffs
      /\ session'.receive = "closing" /\ session'.ackResults = <<>>
  BY <1>3, <1>4 DEF SessionFields
<1> HIDE DEF g
<1>6. Books(session') /\ session'.ackActive.transport = session.ackActive.transport
  BY <1>1, <1>2, <1>5, ResetBooks DEF SessionOK
<1>7. <<>> \in Seq(Results) /\ Len(<<>>) = 0
  OBVIOUS
<1>8. SessionShape(session')
  BY <1>1, <1>5 DEF SessionOK, SessionShape
<1>9. Failures(session')
  <2>1. session'.ackResults \in Seq(Results) /\ Len(session'.ackResults) <= 1
    BY <1>5, <1>7
  <2>. QED
    BY <1>1, <1>5, <2>1 DEF SessionOK, Failures
<1>10. \A f : Excused(f, session, raw.generation) => Excused(f, session', raw.generation)
  BY <1>5 DEF Excused
<1>11. Follows(session', raw.generation)
  <2>1. /\ \A i \in 1..Len(session'.ackResults) : Excused(session'.ackResults[i], session', raw.generation)
        /\ \A i \in 1..Len(session'.ackQueue) : session'.ackQueue[i].transport <= raw.generation
    BY <1>5, <1>7
  <2>2. \A i \in 1..Len(session'.ackFailed) : Excused(session'.ackFailed[i], session', raw.generation)
    BY <1>1, <1>5, <1>10 DEF SessionOK, Follows
  <2>. QED
    BY <1>1, <1>5, <1>6, <2>1, <2>2 DEF SessionOK, Follows
<1>12. SessionOK(session', raw.generation)
  BY <1>6, <1>8, <1>9, <1>11 DEF SessionOK
<1>13. <<>> \in Seq(Messages) /\ Len(<<>>) = 0
  OBVIOUS
<1>14. /\ DOMAIN raw' = RawFields /\ raw'.state = "done" /\ raw'.incoming = <<>> /\ raw'.reset = FALSE
       /\ \/ raw'.generation = raw.generation /\ raw.state = "done" /\ raw'.request = raw.request
          \/ /\ raw'.generation = raw.generation + 1 /\ raw.state # "done"
             /\ raw'.request = [c \in Callers |-> Settled(raw.request[c])]
  BY <1>1 DEF StopReceive, Ended, RawFields
<1>15. raw.request \in [Callers -> Outcomes] /\ raw.generation \in Nat \ {0}
  BY <1>1 DEF RawShape
<1>16. /\ raw'.request \in [Callers -> Outcomes]
       /\ \A c \in Callers : raw'.request[c] = "none" <=> raw.request[c] = "none"
  BY <1>14, <1>15, SettledOK
<1>17. /\ raw'.generation \in Nat \ {0} /\ raw.generation <= raw'.generation /\ raw'.generation <= MaxGeneration + 3
  BY <1>1, <1>14, <1>15, Bounds DEF RawShape
<1>18. RawShape(raw')
  <2>1. raw'.incoming \in Seq(Messages) /\ \A i \in 1..Len(raw'.incoming) : raw'.incoming[i].generation <= raw'.generation
    BY <1>13, <1>14
  <2>. QED
    BY <1>14, <1>16, <1>17, <2>1 DEF RawShape
<1>19. OSDShape(osd', raw')
  BY <1>14 DEF OSDInv, Shape, OSDShape, StopReceive
<1>20. SessionOK(session', raw'.generation)
  BY <1>12, <1>15, <1>17, SessionGrows
<1>. QED
  BY <1>1, <1>5, <1>16, <1>18, <1>19, <1>20, StoppedStep DEF StopReceive

\* receive ends.
LEMMA EndReceiveKeeps == ASSUME OSDInv, EndReceive PROVE OSDInv'
<1>1. SessionOK(session, raw.generation) /\ DOMAIN session = SessionFields /\ session.receive = "closing"
  BY DEF OSDInv, SessionOK, SessionShape, EndReceive
<1>2. /\ DOMAIN session' = SessionFields /\ session'.backoffs = {} /\ session'.receive = "done"
      /\ session'.received = session.received /\ session'.err = session.err
      /\ session'.stopped = session.stopped /\ session'.ackGeneration = session.ackGeneration
      /\ session'.ackQueue = session.ackQueue /\ session'.ackActive = session.ackActive
      /\ session'.ackCount = session.ackCount
      /\ session'.ackFailed = session.ackFailed /\ session'.ackResults = session.ackResults
  BY <1>1 DEF EndReceive, SessionFields
<1>3. SessionShape(session')
  BY <1>1, <1>2 DEF SessionOK, SessionShape
<1>4. Books(session') /\ Failures(session')
  BY <1>1, <1>2 DEF SessionOK, Books, UnderWay, Failures
<1>5. \A f : Excused(f, session, raw.generation) => Excused(f, session', raw.generation)
  BY <1>2 DEF Excused
<1>6. Follows(session', raw.generation)
  BY <1>1, <1>2, <1>5 DEF SessionOK, Follows
<1>7. SessionOK(session', raw.generation)
  BY <1>3, <1>4, <1>6 DEF SessionOK
<1>. QED
  BY <1>1, <1>2, <1>7, StoppedStep DEF EndReceive, OSDInv, Shape

\* Of two sequences without messages of a generation comes no message of it.
LEMMA ConcatOther ==
  ASSUME NEW M, NEW q \in Seq(M), NEW r \in Seq(M), NEW g,
         \A i \in 1..Len(q) : q[i].generation # g, \A i \in 1..Len(r) : r[i].generation # g
  PROVE  \A i \in 1..Len(q \o r) : (q \o r)[i].generation # g
<1> DEFINE a == q \o r
<1>1. \A i \in 1..Len(q) : a[i] = q[i]
  BY ConcatAt, Zenon
<1>2. \A i \in 1..Len(a) : i \in 1..Len(q) \/ (i - Len(q) \in 1..Len(r) /\ a[i] = r[i - Len(q)])
  BY ConcatAt, Zenon
<1> HIDE DEF a
<1>3. \A i \in 1..Len(a) : a[i].generation # g
  BY <1>1, <1>2
<1>. QED
  BY <1>3 DEF a

\* A new transport, or the end: nothing of the old one is current, and the session hears of it.
LEMMA NewTransport ==
  ASSUME OSDInv, UNCHANGED <<session, caller>>, osd' = [osd EXCEPT !.blocks = {}],
         DOMAIN raw' = RawFields, raw'.state \in {"open", "terminal", "done"}, raw'.reset \in BOOLEAN,
         raw'.generation = raw.generation + 1,
         raw'.generation <= MaxGeneration + (IF raw'.state = "open" THEN 1 ELSE IF raw'.state = "terminal" THEN 2 ELSE 3),
         raw'.reset \/ raw'.state # "open", raw'.incoming \in {raw.incoming, <<>>},
         raw'.request \in [Callers -> Outcomes],
         \A c \in Callers : (raw'.request[c] = "none" <=> raw.request[c] = "none") /\ raw'.request[c] # "dropped"
  PROVE  OSDInv'
<1> DEFINE g == raw.generation
           h == raw'.generation
<1>1. RawShape(raw) /\ g \in Nat \ {0} /\ h \in Nat \ {0} /\ g < h /\ g <= h /\ SessionOK(session, g)
  BY DEF OSDInv, Shape, RawShape
<1>2. raw.incoming \in Seq(Messages) /\ session.received \in Seq(Messages) /\ \A m \in Messages : m.generation \in Nat
  BY Bounds DEF OSDInv, Shape, RawShape, SessionOK, SessionShape, Messages
<1>3. <<>> \in Seq(Messages) /\ Len(<<>>) = 0
  OBVIOUS
<1>4. raw'.incoming \in Seq(Messages) /\ \A i \in 1..Len(raw'.incoming) : raw'.incoming[i].generation <= g
  <2>1. CASE raw'.incoming = raw.incoming
    BY <1>1, <1>2, <2>1 DEF RawShape
  <2>2. CASE raw'.incoming = <<>>
    BY <1>3, <2>2
  <2>. QED
    BY <2>1, <2>2
<1>5. \A i \in 1..Len(raw'.incoming) : raw'.incoming[i].generation <= h /\ raw'.incoming[i].generation # h
  BY <1>1, <1>2, <1>4
<1>6. RawShape(raw)'
  BY <1>1, <1>4, <1>5 DEF RawShape
<1>7. SessionOK(session, raw.generation)'
  BY <1>1, SessionGrows
<1>8. CallersShape(caller, raw)' /\ OSDShape(osd, raw)'
  BY DEF OSDInv, Shape, CallersShape, OSDShape
<1>9. InOrder(session, raw, osd)'
  <2> SUFFICES ASSUME session.receive = "running"
               PROVE  Ordered(session.received \o raw'.incoming, h, session.backoffs, {})
    BY DEF InOrder, OSDInv, Shape, OSDShape
  <2>1. \A b \in session.backoffs : b.generation # h
    <3>1. \A b \in session.backoffs : b.generation = session.ackGeneration /\ b.generation \in Nat
      BY <1>1, <1>2 DEF SessionOK, Follows, SessionShape
    <3>2. session.ackGeneration <= g
      BY <1>1 DEF SessionOK, Follows
    <3>. QED
      BY <1>1, <3>1, <3>2
  <2>2. \A i \in 1..Len(session.received) : session.received[i].generation # h
    <3>1. \A i \in 1..Len(session.received) : session.received[i].generation <= g /\ session.received[i].generation \in Nat
      BY <1>1, <1>2 DEF SessionOK, Follows
    <3>. QED
      BY <1>1, <3>1
  <2> DEFINE a == session.received \o raw'.incoming
  <2>3. \A i \in 1..Len(a) : a[i].generation # h
    BY <1>2, <1>4, <1>5, <2>2, ConcatOther
  <2> HIDE DEF a
  <2>4. Ordered(a, h, session.backoffs, {})
    BY <2>1, <2>3, OrderedAfresh
  <2>. QED
    BY <2>4 DEF a
<1>10. DroppedIsCovered' /\ NoLostWakeup' /\ AckFailureIsCurrent'
  BY DEF OSDInv, DroppedIsCovered, NoLostWakeup, AckFailureIsCurrent
<1>11. BackoffIsCurrent'
  BY DEF BackoffIsCurrent
<1>. QED
  BY <1>6, <1>7, <1>8, <1>9, <1>10, <1>11 DEF OSDInv, Shape

\* The transport is lost.
LEMMA TransportFaultKeeps == ASSUME OSDInv, TransportFault PROVE OSDInv'
<1>1. RawShape(raw) /\ DOMAIN raw = RawFields /\ raw.request \in [Callers -> Outcomes] /\ raw.generation \in Nat
  BY DEF OSDInv, Shape, RawShape
<1>2. PICK incoming \in {raw.incoming, <<>>}, unsent \in {"queued", Settled("queued")} :
        raw' = [raw EXCEPT !.generation = @ + 1, !.reset = TRUE, !.incoming = incoming,
                  !.request = [c \in Callers |-> IF raw.request[c] = "queued" THEN unsent
                                                 ELSE Settled(raw.request[c])]]
  BY Zenon DEF TransportFault
<1>3. /\ DOMAIN raw' = RawFields /\ raw'.state = raw.state /\ raw'.generation = raw.generation + 1
      /\ raw'.reset = TRUE /\ raw'.incoming = incoming
      /\ raw'.request = [c \in Callers |-> IF raw.request[c] = "queued" THEN unsent ELSE Settled(raw.request[c])]
  BY <1>1, <1>2 DEF RawFields
<1>4. \A x \in Outcomes : LET y == IF x = "queued" THEN unsent ELSE Settled(x)
                          IN  y \in Outcomes /\ (y = "none" <=> x = "none") /\ y # "dropped"
  <2>1. unsent \in {"queued", "failed"}
    BY <1>2 DEF Settled
  <2>. QED
    BY <2>1 DEF Settled, Outcomes
<1>5. /\ raw'.request \in [Callers -> Outcomes]
      /\ \A c \in Callers : (raw'.request[c] = "none" <=> raw.request[c] = "none") /\ raw'.request[c] # "dropped"
  BY <1>1, <1>3, <1>4
<1>6. raw'.state = "open" /\ raw'.generation <= MaxGeneration + 1 /\ raw'.reset \in BOOLEAN
  BY <1>1, <1>3, Bounds DEF TransportFault
<1>7. UNCHANGED <<session, caller>> /\ osd' = [osd EXCEPT !.blocks = {}]
  BY DEF TransportFault
<1>. QED
  BY <1>3, <1>5, <1>6, <1>7, NewTransport

\* The messenger ends.
LEMMA RawEndsKeeps == ASSUME OSDInv, NEW state \in {"terminal", "done"}, RawEnds(state) PROVE OSDInv'
<1>1. RawShape(raw) /\ DOMAIN raw = RawFields /\ raw.request \in [Callers -> Outcomes] /\ raw.generation \in Nat
  BY DEF OSDInv, Shape, RawShape
<1>2. PICK incoming \in {raw.incoming, <<>>} : raw' = Ended(state, incoming)
  BY DEF RawEnds
<1>3. /\ DOMAIN raw' = RawFields /\ raw'.state = state /\ raw'.generation = raw.generation + 1
      /\ raw'.reset = raw.reset /\ raw'.incoming = incoming
      /\ raw'.request = [c \in Callers |-> Settled(raw.request[c])]
  BY <1>1, <1>2 DEF RawFields, Ended
<1>4. /\ raw'.request \in [Callers -> Outcomes]
      /\ \A c \in Callers : (raw'.request[c] = "none" <=> raw.request[c] = "none") /\ raw'.request[c] # "dropped"
  BY <1>1, <1>3, SettledOK
<1>5. raw'.generation <= MaxGeneration + (IF state = "terminal" THEN 2 ELSE 3)
  <2>1. raw.state = "open" \/ (raw.state = "terminal" /\ state = "done")
    BY <1>1 DEF RawEnds, RawShape
  <2>2. raw.generation <= MaxGeneration + (IF raw.state = "open" THEN 1 ELSE IF raw.state = "terminal" THEN 2 ELSE 3)
    BY <1>1 DEF RawShape
  <2>. QED
    BY <1>1, <1>3, <2>1, <2>2, Bounds
<1>6. raw'.state # "open" /\ raw'.state \in {"open", "terminal", "done"} /\ raw'.reset \in BOOLEAN
  <2>1. raw.reset \in BOOLEAN
    BY <1>1 DEF RawShape
  <2>. QED
    BY <1>3, <2>1
<1>7. UNCHANGED <<session, caller>> /\ osd' = [osd EXCEPT !.blocks = {}]
  BY DEF RawEnds
<1>. QED
  BY <1>3, <1>4, <1>5, <1>6, <1>7, NewTransport

\* A message at the end of what is on its way.
LEMMA ConcatAppend ==
  ASSUME NEW M, NEW q \in Seq(M), NEW r \in Seq(M), NEW m \in M
  PROVE  q \o Append(r, m) = Append(q \o r, m)
  OBVIOUS

\* The OSD sends a message.
LEMMA MessageStep ==
  ASSUME OSDInv, UNCHANGED <<session, caller>>, NEW m \in Messages, m.generation = raw.generation,
         raw' = [raw EXCEPT !.incoming = Append(raw.incoming, m)], OSDShape(osd', raw),
         session.receive = "running" => Ordered(Append(Arriving, m), raw.generation, session.backoffs, osd'.blocks)
  PROVE  OSDInv'
<1>1. RawShape(raw) /\ DOMAIN raw = RawFields /\ raw.incoming \in Seq(Messages) /\ raw.generation \in Nat
      /\ session.received \in Seq(Messages) /\ Arriving \in Seq(Messages)
  BY ArrivingShape DEF OSDInv, Shape, RawShape, SessionOK, SessionShape
<1>2. /\ DOMAIN raw' = RawFields /\ raw'.state = raw.state /\ raw'.generation = raw.generation
      /\ raw'.reset = raw.reset /\ raw'.request = raw.request /\ raw'.incoming = Append(raw.incoming, m)
  BY <1>1 DEF RawFields
<1>3. Arriving' = Append(Arriving, m)
  <2>1. session.received \o Append(raw.incoming, m) = Append(session.received \o raw.incoming, m)
    <3> DEFINE q == session.received
               r == raw.incoming
    <3>1. q \in Seq(Messages) /\ r \in Seq(Messages)
      BY <1>1
    <3> HIDE DEF q, r
    <3>2. q \o Append(r, m) = Append(q \o r, m)
      BY <3>1, ConcatAppend
    <3>. QED
      BY <3>2 DEF q, r
  <2>. QED
    BY <1>2, <2>1 DEF Arriving
<1>4. /\ raw'.incoming \in Seq(Messages)
      /\ \A i \in 1..Len(raw'.incoming) : raw'.incoming[i].generation <= raw.generation
  BY <1>1, <1>2, AppendAt DEF RawShape
<1>5. RawShape(raw)'
  BY <1>1, <1>2, <1>4 DEF RawShape
<1>6. OSDShape(osd, raw)' /\ CallersShape(caller, raw)'
  BY <1>2 DEF OSDInv, Shape, OSDShape, CallersShape
<1>7. InOrder(session, raw, osd)'
  BY <1>2, <1>3 DEF InOrder, Arriving
<1>8. \A i \in 1..Len(Arriving) : i \in 1..Len(Arriving') /\ Arriving'[i] = Arriving[i]
  BY <1>1, <1>3, AppendAt
<1>9. DroppedIsCovered'
  BY <1>2, <1>8 DEF OSDInv, DroppedIsCovered
<1>10. NoLostWakeup' /\ AckFailureIsCurrent' /\ BackoffIsCurrent'
  BY <1>2 DEF OSDInv, NoLostWakeup, AckFailureIsCurrent, BackoffIsCurrent
<1>. QED
  BY <1>2, <1>5, <1>6, <1>7, <1>9, <1>10 DEF OSDInv, Shape

\* The OSD blocks a range, under an id it does not use.
LEMMA OSDBlockKeeps ==
  ASSUME OSDInv, NEW id \in BackoffIDs, NEW objects \in Ranges, OSDBlock(id, objects) PROVE OSDInv'
<1> DEFINE m == [kind |-> "block", id |-> id, objects |-> objects, generation |-> raw.generation]
<1>1. m \in Messages /\ m.generation = raw.generation /\ Block(m, raw.generation) /\ m.id = id
  BY RawGeneration DEF OSDInv, Shape, Messages, Block
<1>2. /\ osd' = [osd EXCEPT !.blocks = @ \cup {m}, !.sent = @ + 1] /\ UNCHANGED <<session, caller>>
      /\ raw' = [raw EXCEPT !.incoming = Append(raw.incoming, m)] /\ raw.state = "open"
      /\ \A b \in osd.blocks : b.id # id
  BY DEF OSDBlock
<1> HIDE DEF m
<1>3. DOMAIN osd' = {"blocks", "sent"} /\ osd'.blocks = osd.blocks \cup {m}
  BY <1>2 DEF OSDInv, Shape, OSDShape
<1>4. OSDShape(osd', raw)
  BY <1>1, <1>2, <1>3 DEF OSDInv, Shape, OSDShape
<1>5. session.receive = "running" => Ordered(Append(Arriving, m), raw.generation, session.backoffs, osd'.blocks)
  <2> SUFFICES ASSUME session.receive = "running"
               PROVE  Ordered(Append(Arriving, m), raw.generation, session.backoffs, osd.blocks \cup {m})
    BY <1>3
  <2>1. Ordered(Arriving, raw.generation, session.backoffs, osd.blocks) /\ Arriving \in Seq(Messages)
    BY ArrivingShape DEF OSDInv, InOrder, Arriving
  <2>. QED
    BY <1>1, <1>2, <2>1, OrderedBlock
<1>. QED
  BY <1>1, <1>2, <1>4, <1>5, MessageStep

\* The OSD ends a block.
LEMMA OSDUnblockKeeps == ASSUME OSDInv, NEW b \in osd.blocks, OSDUnblock(b) PROVE OSDInv'
<1> DEFINE m == [b EXCEPT !.kind = "unblock"]
<1>1. osd.blocks \subseteq Messages /\ DOMAIN osd = {"blocks", "sent"} /\ \A c \in osd.blocks : c.generation = raw.generation
  BY DEF OSDInv, Shape, OSDShape
<1>2. m \in Messages /\ m.generation = raw.generation /\ m.kind = "unblock" /\ m.id = b.id
  BY <1>1 DEF Messages
<1>3. /\ osd' = [osd EXCEPT !.blocks = @ \ {b}] /\ UNCHANGED <<session, caller>>
      /\ raw' = [raw EXCEPT !.incoming = Append(raw.incoming, m)] /\ raw.state = "open"
  BY DEF OSDUnblock
<1> HIDE DEF m
<1>4. OSDShape(osd', raw) /\ osd'.blocks = osd.blocks \ {b}
  BY <1>1, <1>3 DEF OSDShape
<1>5. CASE session.receive = "running"
  <2>1. Ordered(Arriving, raw.generation, session.backoffs, osd.blocks) /\ Arriving \in Seq(Messages)
    BY <1>5, ArrivingShape DEF OSDInv, InOrder, Arriving
  <2>2. Unblock(m, raw.generation, b.id)
    BY <1>2 DEF Unblock
  <2>3. Ordered(Append(Arriving, m), raw.generation, session.backoffs, osd.blocks \ {b})
    BY <1>2, <2>1, <2>2, OrderedUnblock
  <2>. QED
    BY <1>2, <1>3, <1>4, <2>3, MessageStep
<1>6. CASE session.receive # "running"
  BY <1>2, <1>3, <1>4, <1>6, MessageStep
<1>. QED
  BY <1>5, <1>6

\* The OSD sends something else.
LEMMA OSDSendsKeeps == ASSUME OSDInv, NEW kind \in {"map", "notify"}, OSDSends(kind) PROVE OSDInv'
<1> DEFINE m == [kind |-> kind, id |-> 0, objects |-> {}, generation |-> raw.generation]
<1>1. m \in Messages /\ m.generation = raw.generation /\ m.kind \notin {"block", "unblock"}
  BY RawGeneration DEF OSDInv, Shape, Messages
<1>2. raw.incoming = <<>> /\ raw' = [raw EXCEPT !.incoming = <<m>>] /\ UNCHANGED <<session, caller, osd>>
  BY DEF OSDSends
<1> HIDE DEF m
<1>3. raw' = [raw EXCEPT !.incoming = Append(raw.incoming, m)]
  <2>1. Append(<<>>, m) = <<m>>
    OBVIOUS
  <2>. QED
    BY <1>2, <2>1
<1>4. session.receive = "running" => Ordered(Append(Arriving, m), raw.generation, session.backoffs, osd.blocks)
  <2> SUFFICES ASSUME session.receive = "running"
               PROVE  Ordered(Append(Arriving, m), raw.generation, session.backoffs, osd.blocks)
    OBVIOUS
  <2>1. Ordered(Arriving, raw.generation, session.backoffs, osd.blocks) /\ Arriving \in Seq(Messages)
    BY ArrivingShape DEF OSDInv, InOrder, Arriving
  <2>. QED
    BY <1>1, <2>1, OrderedOther
<1>. QED
  BY <1>1, <1>2, <1>3, <1>4, MessageStep DEF OSDInv, Shape

-----------------------------------------------------------------------------
(***************************************************************************)
(* The theorems.                                                           *)
(***************************************************************************)

\* The invariant is inductive.
LEMMA OSDStep == OSDInv /\ [Next]_vars => OSDInv'
<1> SUFFICES ASSUME OSDInv, [Next]_vars PROVE OSDInv'
  OBVIOUS
<1>1. ASSUME NEW c \in Callers, Caller(c) \/ ContextDone(c) \/ RawSend(c) \/ RawCancel(c) \/ OSDReceive(c)
      PROVE  OSDInv'
  BY <1>1, SubmitTargetKeeps, SubmitKeeps, FinishSubmitKeeps, EndWaitKeeps, ContextDoneKeeps, RawSendKeeps,
     RawCancelKeeps, OSDReceiveKeeps DEF Caller
<1>2. CASE Receive
  BY <1>2, TakeIncomingKeeps, HandleIncomingKeeps, TakeResetKeeps, TakeAckResultKeeps, TakeTerminalKeeps,
     StopReceiveKeeps, EndReceiveKeeps DEF Receive
<1>3. CASE SendACKs
  BY <1>3, TakeAckKeeps, FinishAckKeeps, AcksKeep DEF SendACKs
<1>4. CASE TransportFault \/ Stop
  BY <1>4, TransportFaultKeeps, AcksKeep
<1>5. CASE \E kind \in {"map", "notify"} : OSDSends(kind)
  BY <1>5, OSDSendsKeeps
<1>6. CASE \E state \in {"terminal", "done"} : RawEnds(state)
  BY <1>6, RawEndsKeeps
<1>7. CASE \E id \in BackoffIDs, objects \in Ranges : OSDBlock(id, objects)
  BY <1>7, OSDBlockKeeps
<1>8. CASE \E b \in osd.blocks : OSDUnblock(b)
  BY <1>8, OSDUnblockKeeps
<1>9. CASE UNCHANGED vars
  BY <1>9, ZenonT(60) DEF vars, OSDInv, Shape, DroppedIsCovered, Arriving, NoLostWakeup, Blocked, BackoffIsCurrent,
              AckFailureIsCurrent
<1>. QED
  BY <1>1, <1>2, <1>3, <1>4, <1>5, <1>6, <1>7, <1>8, <1>9 DEF Next

\* The invariant holds always.
LEMMA OSDAlways == Spec => []OSDInv
  BY OSDInitial, OSDStep, PTL DEF Spec

\* A request that the OSD has dropped is covered by a block that the session knows or will
\* read, and nobody sleeps through the end of a block, whatever is lost or reordered.
THEOREM NothingIsForgotten == Spec => []NothingForgotten
<1>1. OSDInv => NothingForgotten
  BY DEF OSDInv, NothingForgotten
<1>. QED
  BY <1>1, OSDAlways, PTL

\* Every block is acknowledged within the reserve and on its transport, and a failure that
\* comes from a lost transport does not end the session.
THEOREM AcknowledgmentsAreSafe == Spec => []AckSafe
<1>1. OSDInv => TypeOK
  <2> SUFFICES ASSUME OSDInv PROVE TypeOK
    OBVIOUS
  <2>1. /\ session.backoffs \subseteq Messages /\ session.receive \in {"running", "stopping", "closing", "done"}
        /\ session.received \in Seq(Messages) /\ Len(session.received) <= 1
        /\ session.ackQueue \in Seq(Acks) /\ session.ackActive \in Acks
        /\ Len(session.ackFailed) <= 1 /\ Len(session.ackResults) <= 1
    BY DEF OSDInv, SessionOK, SessionShape, Books, Failures
  <2>2. /\ raw.state \in {"open", "terminal", "done"} /\ raw.incoming \in Seq(Messages)
        /\ raw.request \in [Callers -> Outcomes] /\ raw.generation \in Generations
    BY RawGeneration DEF OSDInv, Shape, RawShape
  <2>3. \A c \in Callers : caller[c].pc \in {"idle", "checking", "blocked", "woken", "submitted", "returned"}
    BY DEF OSDInv, Shape, CallersShape
  <2>. QED
    BY <2>1, <2>2, <2>3 DEF TypeOK, Outcomes
<1>2. OSDInv => AckAccounting
  BY DEF OSDInv, SessionOK, Books, UnderWay, AckAccounting
<1>3. OSDInv => AckSafe
  BY <1>1, <1>2 DEF OSDInv, AckSafe
<1>. QED
  BY <1>3, OSDAlways, PTL
=============================================================================
