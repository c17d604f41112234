---------------------------- MODULE TerminalProofs ----------------------------
(***************************************************************************)
(* The terminal for every size of its key queue, every age of a reflection, *)
(* every capacity of the adapter's line and any number of keys.             *)
(***************************************************************************)
EXTENDS Terminal, FiniteSetTheorems, FunctionTheorems, SequenceTheorems, TLAPS

Room == /\ QueueSize \in Nat /\ QueueSize > 0
        /\ EchoMaxAge \in Nat /\ EchoMaxAge > 0
        /\ LineCapacity \in Nat /\ LineCapacity > 0 /\ MaxKeys \in Nat

\* The assumption on the constants, one by one.
LEMMA Sizes == Room
BY TerminalAssumption DEF Room

-----------------------------------------------------------------------------
(* Sequences                                                                *)

LEMMA TailFacts ==
  ASSUME NEW S, NEW q \in Seq(S), q # <<>>
  PROVE  /\ Tail(q) \in Seq(S) /\ Head(q) = q[1] /\ Head(q) \in S
         /\ 1 \in 1 .. Len(q) /\ Len(Tail(q)) = Len(q) - 1 /\ Len(q) \in Nat
         /\ \A i \in 1 .. Len(Tail(q)) :
              i + 1 \in 1 .. Len(q) /\ Tail(q)[i] = q[i + 1]
OBVIOUS

LEMMA AppendFacts ==
  ASSUME NEW S, NEW q \in Seq(S), NEW x \in S
  PROVE  /\ Append(q, x) \in Seq(S) /\ Append(q, x) # <<>>
         /\ Len(Append(q, x)) = Len(q) + 1 /\ Len(q) \in Nat
         /\ \A i \in 1 .. Len(q) : Append(q, x)[i] = q[i]
         /\ Append(q, x)[Len(q) + 1] = x
OBVIOUS

LEMMA ConcatFacts ==
  ASSUME NEW S, NEW q \in Seq(S), NEW r \in Seq(S)
  PROVE  /\ q \o r \in Seq(S) /\ Len(q \o r) = Len(q) + Len(r)
         /\ Len(q) \in Nat /\ Len(r) \in Nat
         /\ \A i \in 1 .. Len(q) : (q \o r)[i] = q[i]
         /\ \A i \in 1 .. Len(r) : (q \o r)[Len(q) + i] = r[i]
OBVIOUS

LEMMA IsAppend ==
  ASSUME NEW S, NEW q \in Seq(S), NEW x \in S, NEW t \in Seq(S),
         Len(t) = Len(q) + 1, \A i \in 1 .. Len(q) : t[i] = q[i], t[Len(q) + 1] = x
  PROVE  Append(q, x) = t
<1> DEFINE a == Append(q, x)
<1>1. /\ a \in Seq(S) /\ Len(a) = Len(q) + 1
      /\ \A i \in 1 .. Len(q) : a[i] = q[i]
      /\ a[Len(q) + 1] = x
  OBVIOUS
<1>2. Len(q) \in Nat
  BY LenProperties
<1> HIDE DEF a
<1>3. ASSUME NEW i \in 1 .. Len(a)
      PROVE  a[i] = t[i]
  <2>1. i \in 1 .. Len(q) \/ i = Len(q) + 1
    BY <1>1, <1>2
  <2>2. CASE i \in 1 .. Len(q)
    <3>1. a[i] = q[i]
      BY <1>1, <2>2
    <3>2. t[i] = q[i]
      BY <2>2
    <3> QED
      BY <3>1, <3>2
  <2>3. CASE i = Len(q) + 1
    BY <1>1, <2>3
  <2> QED
    BY <2>1, <2>2, <2>3
<1>4. a = t
  BY <1>1, <1>3, SeqEqual
<1> QED
  BY <1>4 DEF a

LEMMA IsTail ==
  ASSUME NEW S, NEW q \in Seq(S), q # <<>>, NEW t \in Seq(S),
         Len(t) = Len(q) - 1, \A i \in 1 .. Len(t) : t[i] = q[i + 1]
  PROVE  t = Tail(q)
<1> DEFINE r == Tail(q)
<1>1. r \in Seq(S) /\ Len(r) = Len(t) /\ \A i \in 1 .. Len(r) : r[i] = q[i + 1]
  BY TailFacts
<1> HIDE DEF r
<1>2. \A i \in 1 .. Len(t) : t[i] = r[i]
  BY <1>1
<1>3. t = r
  BY <1>1, <1>2, SeqEqual
<1> QED
  BY <1>3 DEF r

-----------------------------------------------------------------------------
(* The key queue                                                            *)

\* An index that runs over the end of the array begins again.
LEMMA SlotOf ==
  ASSUME NEW x \in Nat, x < 2 * QueueSize
  PROVE  Slot(x) = IF x < QueueSize THEN x ELSE x - QueueSize
<1> DEFINE Q == QueueSize
<1>1. Q \in Nat /\ Q > 0
  BY Sizes DEF Room
<1>2. CASE x < Q
  BY <1>1, <1>2 DEF Slot
<1>3. CASE x >= Q
  BY <1>1, <1>3 DEF Slot
<1> QED
  BY <1>1, <1>2, <1>3

\* What the queue of keys looks like to the rest of the terminal.
LEMMA QueuedKeys ==
  ASSUME TypeOK
  PROVE  /\ Queued \in Seq(Keys) /\ Len(Queued) = count /\ count \in Nat
         /\ \A i \in 1 .. count :
              Queued[i] = value[Slot(head + i - 1)] /\ Queued[i] \in Keys
<1>1. /\ value \in [0 .. QueueSize - 1 -> Keys]
      /\ head \in 0 .. QueueSize - 1 /\ count \in 0 .. QueueSize
  BY DEF TypeOK
<1>2. \A i \in 1 .. count : Slot(head + i - 1) \in 0 .. QueueSize - 1
  <2> SUFFICES ASSUME NEW i \in 1 .. count
               PROVE  Slot(head + i - 1) \in 0 .. QueueSize - 1
    OBVIOUS
  <2>1. head + i - 1 \in Nat /\ head + i - 1 < 2 * QueueSize
    BY <1>1, Sizes DEF Room
  <2> QED
    BY <2>1, SlotOf, Sizes DEF Room
<1>3. \A i \in 1 .. count : value[Slot(head + i - 1)] \in Keys
  BY <1>1, <1>2
<1>4. count \in Nat
  BY <1>1, Sizes DEF Room
<1>5. Queued \in [1 .. count -> Keys]
  BY <1>3 DEF Queued
<1> QED
  BY <1>3, <1>4, <1>5 DEF Queued

\* A key that is queued comes after those that wait.
LEMMA KeyQueued ==
  ASSUME TypeOK, NEW key \in Keys, ~Full,
         value' = [value EXCEPT ![Slot(head + count)] = key],
         count' = count + 1, head' = head
  PROVE  /\ Queued' = Append(Queued, key)
         /\ value' \in [0 .. QueueSize - 1 -> Keys] /\ count' \in 0 .. QueueSize
<1>1. /\ value \in [0 .. QueueSize - 1 -> Keys]
      /\ head \in 0 .. QueueSize - 1 /\ count \in 0 .. QueueSize
  BY DEF TypeOK
<1>2. count < QueueSize /\ count \in Nat /\ head \in Nat /\ QueueSize \in Nat
  BY <1>1, Sizes DEF Full, Room
<1>3. \A i \in 1 .. count + 1 :
        /\ head + i - 1 \in Nat /\ head + i - 1 < 2 * QueueSize
        /\ Slot(head + i - 1) =
             IF head + i - 1 < QueueSize THEN head + i - 1 ELSE (head + i - 1) - QueueSize
  <2> SUFFICES ASSUME NEW i \in 1 .. count + 1
               PROVE  /\ head + i - 1 \in Nat /\ head + i - 1 < 2 * QueueSize
                      /\ Slot(head + i - 1) =
                           IF head + i - 1 < QueueSize THEN head + i - 1
                           ELSE (head + i - 1) - QueueSize
    OBVIOUS
  <2>1. head + i - 1 \in Nat /\ head + i - 1 < 2 * QueueSize
    BY <1>1, <1>2
  <2>2. Slot(head + i - 1) =
          IF head + i - 1 < QueueSize THEN head + i - 1 ELSE (head + i - 1) - QueueSize
    BY <2>1, SlotOf, Zenon
  <2> QED
    BY <2>1, <2>2
<1>4. head + (count + 1) - 1 = head + count
  BY <1>2
<1>5. Slot(head + count) \in 0 .. QueueSize - 1
  BY <1>1, <1>2, <1>3, <1>4
<1>6. \A i \in 1 .. count : Slot(head + i - 1) # Slot(head + count)
  BY <1>1, <1>2, <1>3, <1>4
<1>7. \A i \in 1 .. count : value'[Slot(head + i - 1)] = value[Slot(head + i - 1)]
  <2>1. \A i \in 1 .. count : Slot(head + i - 1) \in 0 .. QueueSize - 1
    BY <1>1, <1>2, <1>3
  <2> QED
    BY <1>1, <1>6, <2>1
<1>8. value'[Slot(head + count)] = key
  BY <1>1, <1>5
<1>9. Queued' = Append(Queued, key)
  <2> DEFINE q == Queued
             r == Queued'
  <2>1. /\ q \in Seq(Keys) /\ Len(q) = count
        /\ \A i \in 1 .. count : q[i] = value[Slot(head + i - 1)]
    BY QueuedKeys
  <2>2. r = [i \in 1 .. count + 1 |-> value'[Slot(head + i - 1)]]
    BY DEF Queued
  <2> HIDE DEF q, r
  <2>3. \A i \in 1 .. count : r[i] = q[i]
    BY <1>2, <1>7, <2>1, <2>2
  <2>4. r[count + 1] = key
    BY <1>2, <1>4, <1>8, <2>2
  <2>5. \A i \in 1 .. count : q[i] \in Keys
    BY <2>1
  <2>6. \A i \in 1 .. count + 1 : r[i] \in Keys
    BY <1>2, <2>3, <2>4, <2>5
  <2>7. r \in Seq(Keys) /\ Len(r) = count + 1
    BY <1>2, <2>2, <2>6
  <2>8. Append(q, key) = r
    BY <2>1, <2>3, <2>4, <2>7, IsAppend
  <2> QED
    BY <2>8 DEF q, r
<1>10. /\ value' \in [0 .. QueueSize - 1 -> Keys] /\ count' \in 0 .. QueueSize
  BY <1>1, <1>2, <1>5
<1> QED
  BY <1>9, <1>10

\* A key that is taken out was the one that waited longest.
LEMMA KeyTaken ==
  ASSUME TypeOK, count > 0, KeyPop
  PROVE  /\ Queued # <<>> /\ Head(Queued) = value[head] /\ value[head] \in Keys
         /\ Queued' = Tail(Queued)
         /\ head' \in 0 .. QueueSize - 1 /\ count' \in 0 .. QueueSize
         /\ value' = value
<1>1. /\ value \in [0 .. QueueSize - 1 -> Keys]
      /\ head \in 0 .. QueueSize - 1 /\ count \in 0 .. QueueSize
  BY DEF TypeOK
<1>2. /\ head' = Slot(head + 1) /\ count' = count - 1 /\ value' = value
  BY DEF KeyPop, NextSlot
<1>3. /\ QueueSize \in Nat /\ QueueSize > 0 /\ head \in Nat /\ head < QueueSize
      /\ count \in Nat
  BY <1>1, Sizes DEF Room
<1>4. Slot(head) = head
  BY <1>3, SlotOf
<1>5. /\ head' \in 0 .. QueueSize - 1
      /\ head' = IF head + 1 < QueueSize THEN head + 1 ELSE head + 1 - QueueSize
  BY <1>2, <1>3, SlotOf
<1>6. /\ Queued \in Seq(Keys) /\ Len(Queued) = count
      /\ \A i \in 1 .. count : Queued[i] = value[Slot(head + i - 1)]
  BY QueuedKeys
<1>7. \A i \in 1 .. count - 1 : Slot(head' + i - 1) = Slot(head + (i + 1) - 1)
  <2> SUFFICES ASSUME NEW i \in 1 .. count - 1
               PROVE  Slot(head' + i - 1) = Slot(head + (i + 1) - 1)
    OBVIOUS
  <2>1. /\ head + i \in Nat /\ head + i < 2 * QueueSize
        /\ head' + i - 1 \in Nat /\ head' + i - 1 < 2 * QueueSize
    BY <1>1, <1>3, <1>5
  <2>2. /\ Slot(head + i) = IF head + i < QueueSize THEN head + i
                            ELSE (head + i) - QueueSize
        /\ Slot(head' + i - 1) = IF head' + i - 1 < QueueSize THEN head' + i - 1
                                 ELSE (head' + i - 1) - QueueSize
    <3> DEFINE x == head + i
               y == head' + i - 1
    <3> HIDE DEF x, y
    <3>1. x \in Nat /\ x < 2 * QueueSize /\ y \in Nat /\ y < 2 * QueueSize
      BY <2>1 DEF x, y
    <3>2. /\ Slot(x) = IF x < QueueSize THEN x ELSE x - QueueSize
          /\ Slot(y) = IF y < QueueSize THEN y ELSE y - QueueSize
      BY <3>1, SlotOf
    <3> QED
      BY <3>2 DEF x, y
  <2>3. head + (i + 1) - 1 = head + i
    BY <1>3
  <2> QED
    BY <1>1, <1>3, <1>5, <2>2, <2>3
<1>8. Queued' = Tail(Queued)
  <2> DEFINE q == Queued
             r == Queued'
  <2>1. q \in Seq(Keys) /\ Len(q) = count /\ q # <<>>
    BY <1>3, <1>6
  <2>2. r = [i \in 1 .. count - 1 |-> value[Slot(head' + i - 1)]]
    BY <1>2 DEF Queued
  <2>3. \A i \in 1 .. count - 1 : value[Slot(head' + i - 1)] = q[i + 1]
    <3> SUFFICES ASSUME NEW i \in 1 .. count - 1
                 PROVE  value[Slot(head' + i - 1)] = q[i + 1]
      OBVIOUS
    <3>1. i + 1 \in 1 .. count
      BY <1>3
    <3> QED
      BY <3>1, <1>6, <1>7
  <2> HIDE DEF q, r
  <2>4. \A i \in 1 .. count - 1 : r[i] = q[i + 1]
    BY <2>2, <2>3
  <2>5. \A i \in 1 .. count : q[i] \in Keys
    BY <2>1
  <2>6. \A i \in 1 .. count - 1 : r[i] \in Keys
    BY <1>3, <2>4, <2>5
  <2>7. r \in Seq(Keys) /\ Len(r) = count - 1
    BY <1>3, <2>2, <2>6
  <2>8. r = Tail(q)
    BY <2>1, <2>4, <2>7, IsTail
  <2> QED
    BY <2>8 DEF q, r
<1>9. Queued # <<>> /\ Head(Queued) = value[head]
  <2>1. 1 \in 1 .. count /\ head + 1 - 1 = head
    BY <1>3
  <2>2. Queued[1] = value[head]
    BY <2>1, <1>4, <1>6
  <2> DEFINE q == Queued
  <2> HIDE DEF q
  <2>3. q \in Seq(Keys) /\ Len(q) > 0
    BY <1>6 DEF q
  <2>4. q # <<>> /\ Head(q) = q[1]
    BY <2>3
  <2> QED
    BY <2>2, <2>4 DEF q
<1> QED
  BY <1>1, <1>2, <1>3, <1>5, <1>8, <1>9

-----------------------------------------------------------------------------
(* Keys under way                                                           *)

LEMMA Pipe ==
  ASSUME TypeOK
  PROVE  /\ UnderWay \in Seq(Keys) /\ Len(UnderWay) = Len(toAdapter) + count
         /\ Len(toAdapter) \in Nat /\ count \in Nat
         /\ \A i \in 1 .. Len(toAdapter) : UnderWay[i] = toAdapter[i]
         /\ \A i \in 1 .. count : UnderWay[Len(toAdapter) + i] = Queued[i]
<1>1. /\ toAdapter \in Seq(Keys) /\ Queued \in Seq(Keys) /\ Len(Queued) = count
      /\ count \in Nat
  BY QueuedKeys DEF TypeOK
<1> DEFINE q == Queued
<1> HIDE DEF q
<1>5. toAdapter \in Seq(Keys)
  BY <1>1
<1>2. q \in Seq(Keys) /\ Len(q) = count
  BY <1>1 DEF q
<1>6. q \in Seq(Keys)
  BY <1>2
<1>3. /\ toAdapter \o q \in Seq(Keys) /\ Len(toAdapter \o q) = Len(toAdapter) + Len(q)
      /\ Len(toAdapter) \in Nat
      /\ \A i \in 1 .. Len(toAdapter) : (toAdapter \o q)[i] = toAdapter[i]
      /\ \A i \in 1 .. Len(q) : (toAdapter \o q)[Len(toAdapter) + i] = q[i]
  BY <1>5, <1>6, ConcatFacts
<1>4. UnderWay = toAdapter \o q
  BY DEF UnderWay, q
<1> QED
  BY <1>1, <1>2, <1>3, <1>4 DEF q

LEMMA AppendToPipe ==
  ASSUME NEW S, NEW q \in Seq(S), NEW r \in Seq(S), NEW x \in S
  PROVE  q \o Append(r, x) = Append(q \o r, x)
OBVIOUS

LEMMA MoveInPipe ==
  ASSUME NEW S, NEW q \in Seq(S), NEW r \in Seq(S), r # <<>>
  PROVE  Append(q, Head(r)) \o Tail(r) = q \o r
OBVIOUS

LEMMA TailOfPipe ==
  ASSUME NEW S, NEW q \in Seq(S), q # <<>>, NEW r \in Seq(S)
  PROVE  /\ Tail(q) \o r = Tail(q \o r) /\ Head(q) = Head(q \o r) /\ q \o r # <<>>
<1> DEFINE p == q \o r
           t == Tail(q)
           u == t \o r
<1>1. /\ p \in Seq(S) /\ Len(p) = Len(q) + Len(r) /\ Len(q) \in Nat /\ Len(r) \in Nat
      /\ \A i \in 1 .. Len(q) : p[i] = q[i]
      /\ \A i \in 1 .. Len(r) : p[Len(q) + i] = r[i]
  BY ConcatFacts
<1>2. /\ t \in Seq(S) /\ Len(t) = Len(q) - 1 /\ 1 \in 1 .. Len(q) /\ Head(q) = q[1]
      /\ \A i \in 1 .. Len(t) : i + 1 \in 1 .. Len(q) /\ t[i] = q[i + 1]
  BY TailFacts
<1> HIDE DEF t, p
<1>9. t \in Seq(S)
  BY <1>2
<1>3. /\ u \in Seq(S) /\ Len(u) = Len(t) + Len(r)
      /\ \A i \in 1 .. Len(t) : u[i] = t[i]
      /\ \A i \in 1 .. Len(r) : u[Len(t) + i] = r[i]
  BY <1>9, ConcatFacts
<1> HIDE DEF u
<1>4. p # <<>> /\ Head(p) = p[1]
  BY <1>1, <1>2, TailFacts
<1>5. ASSUME NEW i \in 1 .. Len(u)
      PROVE  u[i] = p[i + 1]
  <2>1. i \in 1 .. Len(t) \/ (i - Len(t) \in 1 .. Len(r) /\ i = Len(t) + (i - Len(t)))
    BY <1>1, <1>2, <1>3
  <2>2. CASE i \in 1 .. Len(t)
    BY <2>2, <1>1, <1>2, <1>3
  <2>3. CASE i - Len(t) \in 1 .. Len(r) /\ i = Len(t) + (i - Len(t))
    <3> DEFINE k == i - Len(t)
    <3>1. k \in 1 .. Len(r) /\ i = Len(t) + k /\ i + 1 = Len(q) + k
      BY <2>3, <1>1, <1>2
    <3> HIDE DEF k
    <3>2. u[Len(t) + k] = r[k] /\ p[Len(q) + k] = r[k]
      BY <3>1, <1>1, <1>3
    <3> QED
      BY <3>1, <3>2
  <2> QED
    BY <2>1, <2>2, <2>3
<1>6. Len(u) = Len(p) - 1
  BY <1>1, <1>2, <1>3
<1>7. u = Tail(p)
  BY <1>1, <1>3, <1>4, <1>5, <1>6, IsTail
<1>8. Head(q) = Head(p)
  BY <1>1, <1>2, <1>4
<1> QED
  BY <1>4, <1>7, <1>8 DEF p, t, u

\* A key that is typed is the last of those under way ...
LEMMA TypedUnderWay ==
  ASSUME TypeOK, NEW key \in Keys, Type(key), ~Full
  PROVE  UnderWay' = Append(UnderWay, key) /\ typed' = Append(typed, key)
<1>1. /\ value' = [value EXCEPT ![Slot(head + count)] = key]
      /\ count' = count + 1 /\ head' = head /\ toAdapter' = toAdapter
      /\ typed' = Append(typed, key)
  BY DEF Type, adapter
<1>2. Queued' = Append(Queued, key)
  BY <1>1, KeyQueued
<1>3. toAdapter \in Seq(Keys) /\ Queued \in Seq(Keys)
  BY QueuedKeys DEF TypeOK
<1>4. toAdapter \o Append(Queued, key) = Append(toAdapter \o Queued, key)
  BY <1>3, AppendToPipe
<1> QED
  BY <1>1, <1>2, <1>4 DEF UnderWay

\* ... and stays where it is when it goes out ...
LEMMA SentUnderWay ==
  ASSUME TypeOK, Send
  PROVE  UnderWay' = UnderWay
<1>1. count > 0 /\ KeyPop /\ toAdapter' = Append(toAdapter, value[head])
  BY DEF Send
<1>2. Queued # <<>> /\ Head(Queued) = value[head] /\ Queued' = Tail(Queued)
  BY <1>1, KeyTaken
<1>3. toAdapter \in Seq(Keys) /\ Queued \in Seq(Keys)
  BY QueuedKeys DEF TypeOK
<1>4. Append(toAdapter, Head(Queued)) \o Tail(Queued) = toAdapter \o Queued
  BY <1>2, <1>3, MoveInPipe
<1> QED
  BY <1>1, <1>2, <1>4 DEF UnderWay

\* ... until it is the first and the adapter reads it.
LEMMA ReadUnderWay ==
  ASSUME TypeOK, AdapterReads
  PROVE  /\ UnderWay # <<>> /\ Head(toAdapter) = Head(UnderWay)
         /\ UnderWay' = Tail(UnderWay)
<1>1. toAdapter # <<>> /\ toAdapter' = Tail(toAdapter) /\ UNCHANGED queue
  BY DEF AdapterReads
<1>2. Queued' = Queued
  BY <1>1 DEF Queued, queue
<1>3. toAdapter \in Seq(Keys) /\ Queued \in Seq(Keys)
  BY QueuedKeys DEF TypeOK
<1>4. /\ Tail(toAdapter) \o Queued = Tail(toAdapter \o Queued)
      /\ Head(toAdapter) = Head(toAdapter \o Queued) /\ toAdapter \o Queued # <<>>
  BY <1>1, <1>3, TailOfPipe
<1> QED
  BY <1>1, <1>2, <1>4 DEF UnderWay

LEMMA SameUnderWay ==
  ASSUME UNCHANGED <<toAdapter, queue>>
  PROVE  UnderWay' = UnderWay /\ Queued' = Queued
BY DEF UnderWay, Queued, queue

-----------------------------------------------------------------------------
(* Types                                                                    *)

LEMMA Types ==
  ASSUME TypeOK
  PROVE  /\ reflects \in BOOLEAN /\ running \in BOOLEAN /\ pending \in BOOLEAN
         /\ hide \in BOOLEAN /\ afterCr \in BOOLEAN
         /\ typed \in Seq(Keys) /\ toAdapter \in Seq(Keys)
         /\ value \in [0 .. QueueSize - 1 -> Keys]
         /\ head \in 0 .. QueueSize - 1 /\ count \in 0 .. QueueSize
         /\ expected \in Keys /\ age \in 0 .. EchoMaxAge + 1 /\ matched \in 0 .. 1
         /\ toTerminal \in Seq(Carried) /\ saying \in Seq(Carried)
         /\ screen \in Seq(Keys \cup Shown) /\ owed \in [Shown -> Nat]
         /\ line \in Seq(Keys) /\ Len(line) < LineCapacity
<1>1. Len(Marker) = 2
  BY DEF Marker
<1> QED
  BY <1>1 DEF TypeOK

LEMMA TypesHold ==
  ASSUME reflects' \in BOOLEAN, running' \in BOOLEAN, pending' \in BOOLEAN,
         hide' \in BOOLEAN, afterCr' \in BOOLEAN,
         typed' \in Seq(Keys), toAdapter' \in Seq(Keys),
         value' \in [0 .. QueueSize - 1 -> Keys],
         head' \in 0 .. QueueSize - 1, count' \in 0 .. QueueSize,
         expected' \in Keys, age' \in 0 .. EchoMaxAge + 1, matched' \in 0 .. 1,
         toTerminal' \in Seq(Carried), saying' \in Seq(Carried),
         screen' \in Seq(Keys \cup Shown), owed' \in [Shown -> Nat],
         line' \in Seq(Keys), Len(line') < LineCapacity
  PROVE  TypeOK'
<1>1. Len(Marker) = 2
  BY DEF Marker
<1>2. {reflects, running, pending, hide, afterCr}' \subseteq BOOLEAN
  BY Zenon
<1> QED
  BY <1>1, <1>2 DEF TypeOK

\* What is shown of a byte is a symbol of the screen.
LEMMA ReceivedType ==
  ASSUME TypeOK, NEW c \in Carried, ShowReceived(c)
  PROVE  afterCr' \in BOOLEAN /\ screen' \in Seq(Keys \cup Shown)
<1>1. screen \in Seq(Keys \cup Shown) /\ afterCr \in BOOLEAN
  BY Types
<1>2. /\ "NL" \in Keys \cup Shown
      /\ c \notin {"CR", "LF"} => c \in Keys \cup Shown
  BY DEF Carried, Keys, Shown
<1>3. \/ screen' = Append(screen, "NL") \/ screen' = screen
      \/ c \notin {"CR", "LF"} /\ screen' = Append(screen, c)
  BY DEF ShowReceived
<1>4. screen' \in Seq(Keys \cup Shown)
  BY <1>1, <1>2, <1>3, AppendFacts
<1>5. afterCr' \in BOOLEAN
  BY Zenon DEF ShowReceived
<1> QED
  BY <1>4, <1>5

LEMMA EditedType ==
  ASSUME TypeOK, NEW key \in Keys
  PROVE  Edited(key) \in Seq(Keys) /\ Len(Edited(key)) < LineCapacity
<1>1. /\ line \in Seq(Keys) /\ Len(line) < LineCapacity /\ Len(line) \in Nat
      /\ LineCapacity \in Nat /\ LineCapacity > 0
  BY Types, Sizes DEF Room
<1>2. CASE key = "CR"
  BY <1>1, <1>2 DEF Edited
<1>3. CASE key = "BS"
  <2>1. Edited(key) = IF line = <<>> THEN line ELSE Front(line)
    BY <1>3 DEF Edited
  <2>2. CASE line = <<>>
    BY <1>1, <2>1, <2>2
  <2>3. CASE line # <<>>
    <3>1. Edited(key) = SubSeq(line, 1, Len(line) - 1) /\ Len(line) > 0
      BY <1>1, <2>1, <2>3 DEF Front
    <3>2. \A i \in 1 .. Len(line) - 1 : line[i] \in Keys
      BY <1>1
    <3>3. /\ SubSeq(line, 1, Len(line) - 1) \in Seq(Keys)
          /\ Len(SubSeq(line, 1, Len(line) - 1)) <= Len(line) - 1
      BY <1>1, <3>1, <3>2, SubSeqProperties
    <3> QED
      BY <1>1, <3>1, <3>3
  <2> QED
    BY <2>2, <2>3
<1>4. CASE key \notin {"CR", "BS"}
  <2>1. Edited(key) = IF Len(line) >= LineCapacity - 1 THEN line ELSE Append(line, key)
    BY <1>4 DEF Edited
  <2>2. CASE Len(line) >= LineCapacity - 1
    BY <1>1, <2>1, <2>2
  <2>3. CASE ~(Len(line) >= LineCapacity - 1)
    <3>1. Append(line, key) \in Seq(Keys) /\ Len(Append(line, key)) = Len(line) + 1
      BY <1>1
    <3> QED
      BY <1>1, <2>1, <2>3, <3>1
  <2> QED
    BY <2>2, <2>3
<1> QED
  BY <1>2, <1>3, <1>4

LEMMA TypeInit ==
  ASSUME Init
  PROVE  TypeOK
<1>1. /\ reflects \in BOOLEAN /\ running = TRUE /\ pending = FALSE /\ hide = FALSE
      /\ afterCr = FALSE
  BY DEF Init
<1>2. {reflects, running, pending, hide, afterCr} \subseteq BOOLEAN
  BY <1>1, Zenon
<1>3. /\ value \in [0 .. QueueSize - 1 -> Keys] /\ head \in 0 .. QueueSize - 1
      /\ count \in 0 .. QueueSize /\ expected \in Keys /\ age \in 0 .. EchoMaxAge + 1
      /\ owed \in [Shown -> Nat]
  BY Sizes DEF Init, Room, Keys
<1>4. /\ typed \in Seq(Keys) /\ toAdapter \in Seq(Keys) /\ toTerminal \in Seq(Carried)
      /\ saying \in Seq(Carried) /\ screen \in Seq(Keys \cup Shown)
      /\ line \in Seq(Keys) /\ Len(line) < LineCapacity
  BY Sizes DEF Init, Room
<1>5. matched \in 0 .. Len(Marker) - 1
  BY DEF Init, Marker
<1> QED
  BY <1>2, <1>3, <1>4, <1>5 DEF TypeOK

LEMMA TypeStep ==
  ASSUME TypeOK, [Next]_vars
  PROVE  TypeOK'
<1>1. ASSUME NEW key \in Keys, Type(key)
      PROVE  TypeOK'
  <2>1. UNCHANGED <<reflects, reflection, display, owed, toAdapter, toTerminal, adapter>>
    BY <1>1 DEF Type
  <2>2. CASE Full
    <3>1. running' = FALSE /\ UNCHANGED <<typed, queue>>
      BY <1>1, <2>2 DEF Type
    <3> QED
      BY <2>1, <3>1, Types, TypesHold DEF queue, reflection, display, adapter
  <2>3. CASE ~Full
    <3>1. /\ value' = [value EXCEPT ![Slot(head + count)] = key] /\ count' = count + 1
          /\ typed' = Append(typed, key) /\ running' = running /\ head' = head
      BY <1>1, <2>3 DEF Type
    <3>2. value' \in [0 .. QueueSize - 1 -> Keys] /\ count' \in 0 .. QueueSize
      BY <2>3, <3>1, KeyQueued
    <3>3. typed' \in Seq(Keys)
      BY <3>1, Types, AppendFacts
    <3> QED
      BY <2>1, <3>1, <3>2, <3>3, Types, TypesHold DEF reflection, display, adapter
  <2> QED
    BY <2>2, <2>3
<1>2. CASE Stop
  <2>1. /\ running' = FALSE
        /\ UNCHANGED <<reflects, typed, reflection, display, owed, toAdapter,
                       toTerminal, adapter>>
        /\ UNCHANGED queue \/ (count > 0 /\ KeyPop)
    BY <1>2 DEF Stop
  <2>2. /\ value' \in [0 .. QueueSize - 1 -> Keys]
        /\ head' \in 0 .. QueueSize - 1 /\ count' \in 0 .. QueueSize
    <3>1. CASE UNCHANGED queue
      BY <3>1, Types DEF queue
    <3>2. CASE count > 0 /\ KeyPop
      BY <3>2, KeyTaken, Types
    <3> QED
      BY <2>1, <3>1, <3>2
  <2> QED
    BY <2>1, <2>2, Types, TypesHold DEF reflection, display, adapter
<1>3. CASE HandleByte
  <2> DEFINE c == Head(toTerminal)
  <2>1. /\ toTerminal # <<>> /\ toTerminal' = Tail(toTerminal)
        /\ UNCHANGED <<reflects, running, typed, queue, expected, age, owed, toAdapter,
                       adapter>>
    BY <1>3 DEF HandleByte
  <2>2. c \in Carried /\ toTerminal' \in Seq(Carried)
    BY <2>1, Types, TailFacts
  <2>3. IF IsReflection(c) THEN pending' = FALSE /\ UNCHANGED display
        ELSE /\ ShowReceived(c) /\ matched' = Match(c) % Len(Marker)
             /\ hide' = (hide \/ Match(c) = Len(Marker)) /\ pending' = pending
    BY <1>3 DEF HandleByte
  <2> HIDE DEF c
  <2>4. CASE IsReflection(c)
    <3>1. pending' = FALSE /\ UNCHANGED display
      BY <2>3, <2>4
    <3> QED
      BY <2>1, <2>2, <3>1, Types, TypesHold DEF queue, display, adapter
  <2>5. CASE ~IsReflection(c)
    <3>1. /\ ShowReceived(c) /\ matched' = Match(c) % Len(Marker)
          /\ hide' = (hide \/ Match(c) = Len(Marker)) /\ pending' = pending
      BY <2>3, <2>5
    <3>2. afterCr' \in BOOLEAN /\ screen' \in Seq(Keys \cup Shown)
      BY <2>2, <3>1, ReceivedType
    <3>3. hide' \in BOOLEAN
      BY <3>1, Zenon
    <3>4. matched' \in 0 .. 1
      <4>1. Len(Marker) = 2
        BY DEF Marker
      <4>2. Match(c) \in 0 .. 2
        BY Types DEF Match
      <4> HIDE DEF Match
      <4> QED
        BY <3>1, <4>1, <4>2
    <3> QED
      BY <2>1, <2>2, <3>1, <3>2, <3>3, <3>4, Types, TypesHold DEF queue, adapter
  <2> QED
    BY <2>4, <2>5
<1>4. CASE Expire
  <2>1. /\ pending' = FALSE
        /\ UNCHANGED <<reflects, running, typed, queue, expected, age, display, owed,
                       toAdapter, toTerminal, adapter>>
    BY <1>4 DEF Expire
  <2> QED
    BY <2>1, Types, TypesHold DEF queue, display, adapter
<1>5. CASE Send
  <2> DEFINE key == value[head]
  <2>1. /\ count > 0 /\ KeyPop /\ toAdapter' = Append(toAdapter, key)
        /\ toTerminal' = IF reflects THEN Append(toTerminal, key) ELSE toTerminal
        /\ pending' = TRUE /\ expected' = key /\ age' = 0 /\ hide' = HiddenAfter(key)
        /\ screen' = (IF ~hide /\ key # "CR" THEN Append(screen, key) ELSE screen)
        /\ owed' = IF (~hide /\ key # "CR") /\ key \in Shown
                   THEN [owed EXCEPT ![key] = @ + 1] ELSE owed
        /\ UNCHANGED <<reflects, running, typed, matched, afterCr, adapter>>
    BY <1>5 DEF Send
  <2>2. /\ key \in Keys /\ value' \in [0 .. QueueSize - 1 -> Keys]
        /\ head' \in 0 .. QueueSize - 1 /\ count' \in 0 .. QueueSize
    BY <2>1, KeyTaken, Types
  <2> HIDE DEF key
  <2>3. key \in Carried /\ key \in Keys \cup Shown
    BY <2>2 DEF Carried
  <2>4. toAdapter' \in Seq(Keys) /\ toTerminal' \in Seq(Carried)
    BY <2>1, <2>2, <2>3, Types, AppendFacts
  <2>5. screen' \in Seq(Keys \cup Shown)
    BY <2>1, <2>3, Types, AppendFacts
  <2>6. owed' \in [Shown -> Nat]
    BY <2>1, Types
  <2>7. hide' \in BOOLEAN
    BY <2>1, Zenon DEF HiddenAfter
  <2>8. age' \in 0 .. EchoMaxAge + 1
    BY <2>1, Sizes DEF Room
  <2> QED
    BY <2>1, <2>2, <2>4, <2>5, <2>6, <2>7, <2>8, Types, TypesHold DEF adapter
<1>6. CASE Tick
  <2>1. /\ age <= EchoMaxAge /\ age' = age + 1
        /\ UNCHANGED <<reflects, running, typed, queue, pending, expected, display,
                       owed, toAdapter, toTerminal, adapter>>
    BY <1>6, Types, Sizes DEF Tick, Room
  <2>2. age' \in 0 .. EchoMaxAge + 1
    BY <2>1, Types, Sizes DEF Room
  <2> QED
    BY <2>1, <2>2, Types, TypesHold DEF queue, display, adapter
<1>7. CASE AdapterReads
  <2>1. /\ toAdapter # <<>> /\ toAdapter' = Tail(toAdapter)
        /\ line' = Edited(Head(toAdapter))
        /\ UNCHANGED <<reflects, running, typed, queue, reflection, display, owed,
                       toTerminal>>
        /\ \/ \E answer \in Answers : saying' = Break \o answer
           \/ UNCHANGED saying
    BY <1>7 DEF AdapterReads
  <2>2. Head(toAdapter) \in Keys /\ toAdapter' \in Seq(Keys)
    BY <2>1, Types, TailFacts
  <2>3. line' \in Seq(Keys) /\ Len(line') < LineCapacity
    BY <2>1, <2>2, EditedType
  <2>4. saying' \in Seq(Carried)
    <3>1. \A answer \in Answers : answer \in Seq(Carried)
      <4>1. <<"P", "t">> \in Seq(Carried) /\ <<"P", ":">> \in Seq(Carried)
        BY DEF Carried, Keys
      <4>2. \A answer \in Answers : answer = <<"P", "t">> \/ answer = <<"P", ":">>
        BY DEF Answers, Marker
      <4> QED
        BY <4>1, <4>2, Zenon
    <3>2. Break \in Seq(Carried)
      BY DEF Break, Carried, Keys
    <3>3. \A answer \in Answers : Break \o answer \in Seq(Carried)
      BY <3>1, <3>2, ConcatFacts
    <3> QED
      BY <2>1, <3>3, Types
  <2> QED
    BY <2>1, <2>2, <2>3, <2>4, Types, TypesHold DEF queue, reflection, display
<1>8. CASE AdapterSays
  <2>1. /\ saying # <<>> /\ saying' = Tail(saying)
        /\ toTerminal' = Append(toTerminal, Head(saying))
        /\ \/ owed' = owed
           \/ \E c \in Shown : owed' = [owed EXCEPT ![c] = @ + 1]
        /\ UNCHANGED <<reflects, running, typed, queue, reflection, display,
                       toAdapter, line>>
    BY <1>8 DEF AdapterSays
  <2>2. Head(saying) \in Carried /\ saying' \in Seq(Carried)
    BY <2>1, Types, TailFacts
  <2>3. toTerminal' \in Seq(Carried)
    BY <2>1, <2>2, Types, AppendFacts
  <2>4. owed' \in [Shown -> Nat]
    <3>1. owed \in [Shown -> Nat]
      BY Types
    <3>2. ASSUME NEW c \in Shown, owed' = [owed EXCEPT ![c] = @ + 1]
          PROVE  owed' \in [Shown -> Nat]
      BY <3>1, <3>2
    <3> QED
      BY <2>1, <3>1, <3>2
  <2> QED
    BY <2>1, <2>2, <2>3, <2>4, Types, TypesHold DEF queue, reflection, display
<1>9. CASE UNCHANGED vars
  BY <1>9, Types, TypesHold DEF vars, queue, reflection, display, adapter
<1> QED
  BY <1>1, <1>2, <1>3, <1>4, <1>5, <1>6, <1>7, <1>8, <1>9 DEF Next, Loop, Adapter, Closed


-----------------------------------------------------------------------------
(* How often a symbol occurs                                                *)

LEMMA OccurrencesFinite ==
  ASSUME NEW S, NEW q \in Seq(S), NEW c
  PROVE  /\ IsFiniteSet({i \in DOMAIN q : q[i] = c}) /\ Occurrences(c, q) \in Nat
         /\ DOMAIN q = 1 .. Len(q) /\ Len(q) \in Nat
<1>1. DOMAIN q = 1 .. Len(q) /\ Len(q) \in Nat
  BY LenProperties
<1>2. IsFiniteSet(1 .. Len(q))
  BY <1>1, FS_Interval
<1>3. {i \in DOMAIN q : q[i] = c} \in SUBSET (1 .. Len(q))
  BY <1>1
<1>4. IsFiniteSet({i \in DOMAIN q : q[i] = c})
  BY <1>2, <1>3, FS_Subset
<1> QED
  BY <1>1, <1>4, FS_CardinalityType DEF Occurrences

LEMMA OccurrencesNone ==
  ASSUME NEW c
  PROVE  Occurrences(c, <<>>) = 0
<1>1. {i \in DOMAIN <<>> : <<>>[i] = c} = {}
  OBVIOUS
<1> QED
  BY <1>1, FS_EmptySet DEF Occurrences

LEMMA OccurrencesAppend ==
  ASSUME NEW S, NEW q \in Seq(S), NEW x \in S, NEW c
  PROVE  Occurrences(c, Append(q, x)) = Occurrences(c, q) + (IF x = c THEN 1 ELSE 0)
<1> DEFINE t == Append(q, x)
           n == Len(q)
           A == {i \in DOMAIN q : q[i] = c}
           B == {i \in DOMAIN t : t[i] = c}
<1>1. /\ t \in Seq(S) /\ Len(t) = n + 1 /\ n \in Nat
      /\ \A i \in 1 .. n : t[i] = q[i]
      /\ t[n + 1] = x
  BY AppendFacts
<1>2. DOMAIN q = 1 .. n /\ IsFiniteSet(A) /\ Occurrences(c, q) = Cardinality(A)
  BY OccurrencesFinite DEF Occurrences
<1> HIDE DEF t
<1>3. DOMAIN t = 1 .. n + 1
  BY <1>1, OccurrencesFinite
<1> HIDE DEF n
<1>4. \A i \in 1 .. n + 1 : i \in 1 .. n \/ i = n + 1
  BY <1>1
<1>5. n + 1 \notin A /\ n + 1 \in 1 .. n + 1 /\ \A i \in 1 .. n : i \in 1 .. n + 1
  BY <1>1, <1>2
<1>6. CASE x = c
  <2>1. B = A \cup {n + 1}
    BY <1>1, <1>2, <1>3, <1>4, <1>5, <1>6
  <2> HIDE DEF A, B
  <2>2. Cardinality(B) = Cardinality(A) + 1
    BY <1>2, <1>5, <2>1, FS_AddElement
  <2> QED
    BY <1>2, <1>6, <2>2 DEF Occurrences, B, t
<1>7. CASE x # c
  <2>1. B = A
    BY <1>1, <1>2, <1>3, <1>4, <1>5, <1>7
  <2>2. Occurrences(c, q) \in Nat
    BY OccurrencesFinite
  <2>3. Occurrences(c, t) = Cardinality(B)
    BY DEF Occurrences
  <2> HIDE DEF A, B
  <2>4. Occurrences(c, t) = Occurrences(c, q) + 0
    BY <1>2, <2>1, <2>2, <2>3
  <2> QED
    BY <1>7, <2>4 DEF t
<1> QED
  BY <1>6, <1>7

LEMMA OccurrencesTail ==
  ASSUME NEW S, NEW q \in Seq(S), q # <<>>, NEW c
  PROVE  Occurrences(c, q) = Occurrences(c, Tail(q)) + (IF Head(q) = c THEN 1 ELSE 0)
<1> DEFINE t == Tail(q)
           n == Len(q)
           A == {i \in DOMAIN q : q[i] = c}
           B == {i \in DOMAIN t : t[i] = c}
           C == A \ {1}
           f == [j \in B |-> j + 1]
<1>1. /\ t \in Seq(S) /\ Len(t) = n - 1 /\ n \in Nat /\ 1 \in 1 .. n /\ Head(q) = q[1]
      /\ \A i \in 1 .. Len(t) : t[i] = q[i + 1]
  BY TailFacts
<1>2. DOMAIN q = 1 .. n /\ IsFiniteSet(A) /\ Occurrences(c, q) = Cardinality(A)
  BY OccurrencesFinite DEF Occurrences
<1> HIDE DEF t
<1>3. /\ DOMAIN t = 1 .. Len(t) /\ IsFiniteSet(B) /\ Occurrences(c, t) = Cardinality(B)
      /\ Occurrences(c, t) \in Nat
  BY <1>1, OccurrencesFinite DEF Occurrences
<1>4. /\ C = {k \in 1 .. n : q[k] = c /\ k # 1}
      /\ B = {j \in 1 .. n - 1 : t[j] = c}
      /\ 1 \in A <=> Head(q) = c
  BY <1>1, <1>2, <1>3
<1> HIDE DEF A
<1>5. Cardinality(C) = IF Head(q) = c THEN Cardinality(A) - 1 ELSE Cardinality(A)
  BY <1>2, <1>4, FS_RemoveElement
<1> HIDE DEF B, C, n
<1>6. \A j \in B : f[j] \in C
  <2> SUFFICES ASSUME NEW j \in B
               PROVE  j + 1 \in C
    OBVIOUS
  <2>1. j \in 1 .. n - 1 /\ t[j] = c
    BY <1>4
  <2>2. j + 1 \in 1 .. n /\ j + 1 # 1 /\ q[j + 1] = c
    BY <1>1, <2>1
  <2> QED
    BY <1>4, <2>2
<1>7. \A a, b \in B : f[a] = f[b] => a = b
  BY <1>4
<1>8. \A k \in C : \E j \in B : f[j] = k
  <2> SUFFICES ASSUME NEW k \in C
               PROVE  \E j \in B : j + 1 = k
    OBVIOUS
  <2>1. k \in 1 .. n /\ q[k] = c /\ k # 1
    BY <1>4
  <2>2. k - 1 \in 1 .. n - 1 /\ (k - 1) + 1 = k
    BY <1>1, <2>1
  <2>3. t[k - 1] = c
    BY <1>1, <2>1, <2>2
  <2> QED
    BY <1>4, <2>2, <2>3
<1>9. f \in Bijection(B, C)
  <2>1. f \in [B -> C]
    BY <1>6
  <2> HIDE DEF f
  <2> QED
    BY <1>7, <1>8, <2>1, Fun_IsBij
<1>10. Cardinality(B) = Cardinality(C)
  BY <1>3, <1>9, Fun_ExistsBij, FS_Bijection
<1>11. Cardinality(A) \in Nat
  BY <1>2, FS_CardinalityType
<1>12. Occurrences(c, q) = Occurrences(c, t) + (IF Head(q) = c THEN 1 ELSE 0)
  BY <1>2, <1>3, <1>5, <1>10, <1>11
<1> QED
  BY <1>12 DEF t

-----------------------------------------------------------------------------
(* Everything is shown once                                                 *)

EchoInTime == reflects /\ pending => age <= EchoMaxAge

Awaited(c) == IF pending /\ expected = c THEN 1 ELSE 0

\* What has been shown, or is on its way to the screen, is what is owed, but for
\* the reflection that will be kept off it.
Balance ==
  reflects => \A c \in Shown \ {"NL"} :
    Occurrences(c, screen) + Occurrences(c, toTerminal) = owed[c] + Awaited(c)

\* A line feed makes a line break unless a CR has just made it.
Breaks ==
  Occurrences("NL", screen) + Occurrences("LF", toTerminal)
    >= owed["NL"] + (IF afterCr THEN 1 ELSE 0)

ShownInv == TypeOK /\ EchoInTime /\ Balance /\ Breaks

LEMMA EchoStep ==
  ASSUME ~LateReflections, TypeOK, EchoInTime, [Next]_vars
  PROVE  EchoInTime'
<1>1. CASE \/ \E key \in Keys : Type(key)
           \/ Stop \/ AdapterReads \/ AdapterSays \/ UNCHANGED vars
  BY <1>1 DEF EchoInTime, Type, Stop, AdapterReads, AdapterSays, vars, reflection
<1>2. CASE HandleByte
  BY <1>2 DEF EchoInTime, HandleByte
<1>3. CASE Expire
  BY <1>3 DEF EchoInTime, Expire
<1>4. CASE Send
  BY <1>4, Sizes DEF EchoInTime, Send, Room
<1>5. CASE Tick
  BY <1>5, Types, Sizes DEF EchoInTime, Tick, Room
<1> QED
  BY <1>1, <1>2, <1>3, <1>4, <1>5 DEF Next, Loop, Adapter, Closed

LEMMA Counts ==
  ASSUME TypeOK, NEW c
  PROVE  /\ Occurrences(c, screen) \in Nat /\ Occurrences(c, toTerminal) \in Nat
         /\ c \in Shown => owed[c] \in Nat
<1>1. screen \in Seq(Keys \cup Shown) /\ toTerminal \in Seq(Carried) /\ owed \in [Shown -> Nat]
  BY Types
<1> QED
  BY <1>1, OccurrencesFinite

\* The bytes on their way after the first of them has arrived.
LEMMA Arrives ==
  ASSUME TypeOK, HandleByte, NEW c
  PROVE  /\ Head(toTerminal) \in Carried
         /\ Occurrences(c, toTerminal) =
              Occurrences(c, toTerminal') + (IF Head(toTerminal) = c THEN 1 ELSE 0)
<1>1. toTerminal # <<>> /\ toTerminal' = Tail(toTerminal) /\ toTerminal \in Seq(Carried)
  BY Types DEF HandleByte
<1> QED
  BY <1>1, OccurrencesTail, TailFacts

LEMMA OnScreen ==
  ASSUME TypeOK, NEW x \in Keys \cup Shown, NEW c, screen' = Append(screen, x)
  PROVE  Occurrences(c, screen') = Occurrences(c, screen) + (IF x = c THEN 1 ELSE 0)
<1>1. screen \in Seq(Keys \cup Shown)
  BY Types
<1> QED
  BY <1>1, OccurrencesAppend

LEMMA OnItsWay ==
  ASSUME TypeOK, NEW x \in Carried, NEW c, toTerminal' = Append(toTerminal, x)
  PROVE  Occurrences(c, toTerminal') = Occurrences(c, toTerminal) + (IF x = c THEN 1 ELSE 0)
<1>1. toTerminal \in Seq(Carried)
  BY Types
<1> QED
  BY <1>1, OccurrencesAppend

LEMMA SymbolFacts ==
  /\ Keys \subseteq Carried /\ "LF" \in Carried /\ "LF" \notin Keys /\ "NL" \notin Carried
  /\ \A c \in Carried : c \notin {"CR", "LF"} => c \in Keys \cup Shown
  /\ "NL" \in Shown /\ "CR" \notin Shown /\ "LF" \notin Shown
BY DEF Keys, Carried, Shown

\* What a byte that is shown adds to the screen.
LEMMA Received ==
  ASSUME TypeOK, NEW d \in Carried, ShowReceived(d)
  PROVE  /\ \A c \in Shown \ {"NL"} :
              Occurrences(c, screen') = Occurrences(c, screen) + (IF d = c THEN 1 ELSE 0)
         /\ d = "CR" => /\ Occurrences("NL", screen') = Occurrences("NL", screen) + 1
                        /\ afterCr' = TRUE
         /\ d = "LF" => /\ Occurrences("NL", screen') =
                             Occurrences("NL", screen) + (IF afterCr THEN 0 ELSE 1)
                        /\ afterCr' = FALSE
         /\ d \notin {"CR", "LF"} =>
              /\ Occurrences("NL", screen') = Occurrences("NL", screen)
              /\ afterCr' = FALSE
<1>1. /\ d = "CR" => screen' = Append(screen, "NL")
      /\ d = "LF" => screen' = IF afterCr THEN screen ELSE Append(screen, "NL")
      /\ d \notin {"CR", "LF"} => screen' = Append(screen, d)
      /\ afterCr' = (d = "CR")
  BY DEF ShowReceived
<1>2. \A c : Occurrences(c, screen) \in Nat
  BY Counts
<1>3. CASE d = "CR" \/ (d = "LF" /\ ~afterCr)
  <2>1. screen' = Append(screen, "NL") /\ "NL" \in Keys \cup Shown
    BY <1>1, <1>3, SymbolFacts
  <2>2. \A c : Occurrences(c, screen') =
                 Occurrences(c, screen) + (IF "NL" = c THEN 1 ELSE 0)
    BY <2>1, OnScreen
  <2>3. \A c \in Shown : c # d
    BY <1>3, SymbolFacts
  <2> QED
    BY <1>1, <1>2, <1>3, <2>2, <2>3
<1>4. CASE d = "LF" /\ afterCr
  <2>1. screen' = screen /\ \A c \in Shown : c # d
    BY <1>1, <1>4, SymbolFacts
  <2>2. \A c : Occurrences(c, screen') = Occurrences(c, screen)
    BY <2>1
  <2>3. afterCr' = FALSE
    BY <1>1, <1>4
  <2>4. \A c : Occurrences(c, screen') = Occurrences(c, screen) + 0
    BY <1>2, <2>2
  <2> QED
    BY <1>4, <2>1, <2>3, <2>4
<1>5. CASE d \notin {"CR", "LF"}
  <2>1. screen' = Append(screen, d) /\ d \in Keys \cup Shown /\ d # "NL"
    BY <1>1, <1>5, SymbolFacts
  <2>2. \A c : Occurrences(c, screen') =
                 Occurrences(c, screen) + (IF d = c THEN 1 ELSE 0)
    BY <2>1, OnScreen
  <2>3. Occurrences("NL", screen') = Occurrences("NL", screen) + 0
    BY <2>1, <2>2
  <2>4. Occurrences("NL", screen') = Occurrences("NL", screen)
    BY <1>2, <2>3
  <2>5. afterCr' = FALSE
    BY <1>1, <1>5
  <2> QED
    BY <1>5, <2>2, <2>4, <2>5
<1> QED
  BY <1>3, <1>4, <1>5

\* What sending a key does to the screen, to the way back and to what is owed.
LEMMA Sent ==
  ASSUME TypeOK, Send
  PROVE  LET key == value[head] IN
         /\ key \in Keys /\ ~pending /\ pending' = TRUE /\ expected' = key
         /\ afterCr' = afterCr /\ reflects' = reflects
         /\ \A c : Occurrences(c, toTerminal') = Occurrences(c, toTerminal)
                     + (IF reflects /\ key = c THEN 1 ELSE 0)
         /\ \A c \in Shown :
              \/ /\ Occurrences(c, screen') = Occurrences(c, screen)
                 /\ owed'[c] = owed[c]
              \/ /\ key = c /\ owed'[c] = owed[c] + 1
                 /\ Occurrences(c, screen') = Occurrences(c, screen) + 1
<1> DEFINE key == value[head]
<1>1. /\ ~pending /\ count > 0 /\ KeyPop
      /\ toTerminal' = IF reflects THEN Append(toTerminal, key) ELSE toTerminal
      /\ pending' = TRUE /\ expected' = key
      /\ screen' = (IF ~hide /\ key # "CR" THEN Append(screen, key) ELSE screen)
      /\ owed' = IF (~hide /\ key # "CR") /\ key \in Shown
                 THEN [owed EXCEPT ![key] = @ + 1] ELSE owed
      /\ afterCr' = afterCr /\ reflects' = reflects
  BY DEF Send
<1>2. key \in Keys
  BY <1>1, KeyTaken
<1> HIDE DEF key
<1>3. key \in Carried /\ key \in Keys \cup Shown
  BY <1>2, SymbolFacts
<1>4. \A c : Occurrences(c, screen) \in Nat /\ Occurrences(c, toTerminal) \in Nat
  BY Counts
<1>5. \A c : Occurrences(c, toTerminal') = Occurrences(c, toTerminal)
                     + (IF reflects /\ key = c THEN 1 ELSE 0)
  <2>1. CASE reflects
    <3>1. toTerminal' = Append(toTerminal, key)
      BY <1>1, <2>1
    <3>2. \A c : Occurrences(c, toTerminal') =
                   Occurrences(c, toTerminal) + (IF key = c THEN 1 ELSE 0)
      BY <1>3, <3>1, OnItsWay
    <3> QED
      BY <2>1, <3>2
  <2>2. CASE ~reflects
    BY <1>1, <1>4, <2>2
  <2> QED
    BY <2>1, <2>2
<1>6. ASSUME NEW c \in Shown
      PROVE  \/ /\ Occurrences(c, screen') = Occurrences(c, screen)
                /\ owed'[c] = owed[c]
             \/ /\ key = c /\ owed'[c] = owed[c] + 1
                /\ Occurrences(c, screen') = Occurrences(c, screen) + 1
  <2>1. owed \in [Shown -> Nat]
    BY Types
  <2>2. CASE ~hide /\ key # "CR"
    <3>1. screen' = Append(screen, key)
      BY <1>1, <2>2
    <3>2. Occurrences(c, screen') = Occurrences(c, screen) + (IF key = c THEN 1 ELSE 0)
      BY <1>3, <3>1, OnScreen
    <3>3. owed'[c] = owed[c] + (IF key = c THEN 1 ELSE 0)
      <4>1. owed' = IF key \in Shown THEN [owed EXCEPT ![key] = @ + 1] ELSE owed
        BY <1>1, <2>2
      <4>2. owed[c] \in Nat
        BY <2>1
      <4> QED
        BY <2>1, <4>1, <4>2
    <3>4. owed[c] \in Nat /\ Occurrences(c, screen) \in Nat
      BY <1>4, <2>1
    <3> QED
      BY <3>2, <3>3, <3>4
  <2>3. CASE ~(~hide /\ key # "CR")
    <3>1. screen' = screen /\ owed' = owed
      BY <1>1, <2>3
    <3> QED
      BY <3>1
  <2> QED
    BY <2>2, <2>3
<1> QED
  BY <1>1, <1>2, <1>5, <1>6 DEF key

\* What the adapter says is owed.
LEMMA Said ==
  ASSUME TypeOK, AdapterSays
  PROVE  LET h == Head(saying) IN
         /\ h \in Carried
         /\ \A c : Occurrences(c, toTerminal') =
                     Occurrences(c, toTerminal) + (IF h = c THEN 1 ELSE 0)
         /\ \A c \in Shown \ {"NL"} : owed'[c] = owed[c] + (IF h = c THEN 1 ELSE 0)
         /\ owed'["NL"] = owed["NL"] + (IF h = "LF" THEN 1 ELSE 0)
<1> DEFINE h == Head(saying)
           x == IF h = "LF" THEN "NL" ELSE h
<1>1. /\ saying # <<>> /\ toTerminal' = Append(toTerminal, h)
      /\ owed' = IF x \in Shown THEN [owed EXCEPT ![x] = @ + 1] ELSE owed
  BY DEF AdapterSays
<1>2. h \in Carried
  BY <1>1, Types, TailFacts
<1> HIDE DEF h
<1>3. \A c : Occurrences(c, toTerminal') =
               Occurrences(c, toTerminal) + (IF h = c THEN 1 ELSE 0)
  BY <1>1, <1>2, OnItsWay
<1>4. \A c \in Shown : owed'[c] = owed[c] + (IF x = c THEN 1 ELSE 0)
  <2> SUFFICES ASSUME NEW c \in Shown
               PROVE  owed'[c] = owed[c] + (IF x = c THEN 1 ELSE 0)
    OBVIOUS
  <2> HIDE DEF x
  <2>1. owed \in [Shown -> Nat] /\ owed[c] \in Nat
    BY Types
  <2> QED
    BY <1>1, <2>1
<1>5. /\ \A c \in Shown \ {"NL"} : x = c <=> h = c
      /\ x = "NL" <=> h = "LF"
  BY <1>2, SymbolFacts
<1> HIDE DEF x
<1>6. \A c \in Shown \ {"NL"} : owed'[c] = owed[c] + (IF h = c THEN 1 ELSE 0)
  BY <1>4, <1>5
<1>7. owed'["NL"] = owed["NL"] + (IF h = "LF" THEN 1 ELSE 0)
  BY <1>4, <1>5, SymbolFacts
<1> QED
  BY <1>2, <1>3, <1>6, <1>7 DEF h

LEMMA BalanceStep ==
  ASSUME TypeOK, EchoInTime, Balance, [Next]_vars
  PROVE  Balance'
<1> SUFFICES ASSUME reflects', NEW c \in Shown \ {"NL"}
             PROVE  Occurrences(c, screen') + Occurrences(c, toTerminal')
                      = owed'[c] + Awaited(c)'
  BY DEF Balance
<1>1. c \in Shown /\ c \notin {"CR", "LF", "NL"}
  BY SymbolFacts
<1>2. /\ Occurrences(c, screen) \in Nat /\ Occurrences(c, toTerminal) \in Nat
      /\ owed[c] \in Nat
  BY <1>1, Counts
<1>3. reflects =>
        Occurrences(c, screen) + Occurrences(c, toTerminal) = owed[c] + Awaited(c)
  BY DEF Balance
<1>4. CASE UNCHANGED <<reflects, screen, toTerminal, owed, pending, expected>>
  BY <1>3, <1>4 DEF Awaited
<1>5. CASE HandleByte
  <2> DEFINE d == Head(toTerminal)
  <2>1. /\ d \in Carried
        /\ Occurrences(c, toTerminal) =
             Occurrences(c, toTerminal') + (IF d = c THEN 1 ELSE 0)
    BY <1>5, Arrives
  <2>2. /\ reflects' = reflects /\ owed' = owed /\ expected' = expected
        /\ IF IsReflection(d) THEN pending' = FALSE /\ screen' = screen
           ELSE ShowReceived(d) /\ pending' = pending
    BY <1>5 DEF HandleByte, display
  <2> HIDE DEF d
  <2>3. Occurrences(c, toTerminal') \in Nat
    <3>1. toTerminal # <<>> /\ toTerminal' = Tail(toTerminal) /\ toTerminal \in Seq(Carried)
      BY <1>5, Types DEF HandleByte
    <3>2. toTerminal' \in Seq(Carried)
      BY <3>1, TailFacts
    <3> QED
      BY <3>2, OccurrencesFinite
  <2>4. CASE IsReflection(d)
    <3>1. Awaited(c) = (IF d = c THEN 1 ELSE 0) /\ Awaited(c)' = 0
      BY <2>2, <2>4 DEF Awaited, IsReflection
    <3>2. Occurrences(c, screen') = Occurrences(c, screen)
      BY <2>2, <2>4
    <3> QED
      BY <1>2, <1>3, <2>1, <2>2, <2>3, <3>1, <3>2
  <2>5. CASE ~IsReflection(d)
    <3>1. Occurrences(c, screen') = Occurrences(c, screen) + (IF d = c THEN 1 ELSE 0)
      BY <2>1, <2>2, <2>5, Received
    <3>2. Awaited(c)' = Awaited(c) /\ Awaited(c) \in Nat
      BY <2>2, <2>5 DEF Awaited
    <3> QED
      BY <1>2, <1>3, <2>1, <2>2, <2>3, <3>1, <3>2
  <2> QED
    BY <2>4, <2>5
<1>6. CASE Expire
  <2>1. ~reflects /\ reflects' = reflects
    BY <1>6, Types, Sizes DEF Expire, Overdue, EchoInTime, Room
  <2> QED
    BY <2>1
<1>7. CASE Send
  <2> DEFINE key == value[head]
  <2>1. /\ ~pending /\ pending' = TRUE /\ expected' = key /\ reflects' = reflects
        /\ Occurrences(c, toTerminal') = Occurrences(c, toTerminal)
             + (IF reflects /\ key = c THEN 1 ELSE 0)
        /\ \/ /\ Occurrences(c, screen') = Occurrences(c, screen)
              /\ owed'[c] = owed[c]
           \/ /\ key = c /\ owed'[c] = owed[c] + 1
              /\ Occurrences(c, screen') = Occurrences(c, screen) + 1
    BY <1>1, <1>7, Sent
  <2> HIDE DEF key
  <2>2. Awaited(c) = 0 /\ Awaited(c)' = (IF key = c THEN 1 ELSE 0)
    BY <2>1 DEF Awaited
  <2> QED
    BY <1>2, <1>3, <2>1, <2>2
<1>8. CASE AdapterSays
  <2> DEFINE h == Head(saying)
  <2>1. /\ Occurrences(c, toTerminal') = Occurrences(c, toTerminal) + (IF h = c THEN 1 ELSE 0)
        /\ owed'[c] = owed[c] + (IF h = c THEN 1 ELSE 0)
    BY <1>1, <1>8, Said
  <2>2. UNCHANGED <<reflects, screen, pending, expected>>
    BY <1>8 DEF AdapterSays, reflection, display
  <2> HIDE DEF h
  <2>3. Awaited(c)' = Awaited(c) /\ Awaited(c) \in Nat
        /\ Occurrences(c, screen') = Occurrences(c, screen)
    BY <2>2 DEF Awaited
  <2> QED
    BY <1>2, <1>3, <2>1, <2>2, <2>3
<1> QED
  BY <1>4, <1>5, <1>6, <1>7, <1>8 DEF Next, Loop, Adapter, Closed, Type, Stop, Tick,
     AdapterReads, vars, reflection, display

LEMMA BreaksStep ==
  ASSUME TypeOK, Breaks, [Next]_vars
  PROVE  Breaks'
<1>1. /\ Occurrences("NL", screen) \in Nat /\ Occurrences("LF", toTerminal) \in Nat
      /\ owed["NL"] \in Nat
  BY Counts, SymbolFacts
<1>2. Occurrences("NL", screen) + Occurrences("LF", toTerminal)
        >= owed["NL"] + (IF afterCr THEN 1 ELSE 0)
  BY DEF Breaks
<1>3. CASE UNCHANGED <<screen, toTerminal, owed, afterCr>>
  BY <1>3 DEF Breaks
<1>4. CASE HandleByte
  <2> DEFINE d == Head(toTerminal)
  <2>1. /\ d \in Carried
        /\ Occurrences("LF", toTerminal) =
             Occurrences("LF", toTerminal') + (IF d = "LF" THEN 1 ELSE 0)
    BY <1>4, Arrives
  <2>2. /\ owed' = owed
        /\ IF IsReflection(d) THEN screen' = screen /\ afterCr' = afterCr
           ELSE ShowReceived(d)
    BY <1>4 DEF HandleByte, display
  <2> HIDE DEF d
  <2>3. Occurrences("LF", toTerminal') \in Nat
    <3>1. toTerminal # <<>> /\ toTerminal' = Tail(toTerminal) /\ toTerminal \in Seq(Carried)
      BY <1>4, Types DEF HandleByte
    <3>2. toTerminal' \in Seq(Carried)
      BY <3>1, TailFacts
    <3> QED
      BY <3>2, OccurrencesFinite
  <2>4. CASE IsReflection(d)
    <3>1. d # "LF"
      BY <2>4, Types, SymbolFacts DEF IsReflection
    <3>2. screen' = screen /\ afterCr' = afterCr
      BY <2>2, <2>4
    <3>3. Occurrences("LF", toTerminal') = Occurrences("LF", toTerminal)
      BY <1>1, <2>1, <2>3, <3>1
    <3> QED
      BY <1>2, <2>2, <3>2, <3>3 DEF Breaks
  <2>5. CASE ~IsReflection(d)
    <3>1. ShowReceived(d)
      BY <2>2, <2>5
    <3>2. CASE d = "CR"
      <4>1. Occurrences("NL", screen') = Occurrences("NL", screen) + 1 /\ afterCr' = TRUE
        BY <2>1, <3>1, <3>2, Received
      <4> QED
        BY <1>1, <1>2, <2>1, <2>2, <2>3, <3>2, <4>1 DEF Breaks
    <3>3. CASE d = "LF"
      <4>1. /\ Occurrences("NL", screen') =
                 Occurrences("NL", screen) + (IF afterCr THEN 0 ELSE 1)
            /\ afterCr' = FALSE
        BY <2>1, <3>1, <3>3, Received
      <4> QED
        BY <1>1, <1>2, <2>1, <2>2, <2>3, <3>3, <4>1 DEF Breaks
    <3>4. CASE d \notin {"CR", "LF"}
      <4>1. Occurrences("NL", screen') = Occurrences("NL", screen) /\ afterCr' = FALSE
        BY <2>1, <3>1, <3>4, Received
      <4> QED
        BY <1>1, <1>2, <2>1, <2>2, <2>3, <3>4, <4>1 DEF Breaks
    <3> QED
      BY <3>2, <3>3, <3>4
  <2> QED
    BY <2>4, <2>5
<1>5. CASE Send
  <2> DEFINE key == value[head]
  <2>1. /\ key \in Keys /\ afterCr' = afterCr
        /\ Occurrences("LF", toTerminal') = Occurrences("LF", toTerminal)
             + (IF reflects /\ key = "LF" THEN 1 ELSE 0)
        /\ \/ /\ Occurrences("NL", screen') = Occurrences("NL", screen)
              /\ owed'["NL"] = owed["NL"]
           \/ key = "NL"
    BY <1>5, Sent, SymbolFacts
  <2> HIDE DEF key
  <2>2. key # "LF" /\ key # "NL"
    BY <2>1, SymbolFacts
  <2> QED
    BY <1>1, <1>2, <2>1, <2>2 DEF Breaks
<1>6. CASE AdapterSays
  <2> DEFINE h == Head(saying)
  <2>1. /\ Occurrences("LF", toTerminal') =
             Occurrences("LF", toTerminal) + (IF h = "LF" THEN 1 ELSE 0)
        /\ owed'["NL"] = owed["NL"] + (IF h = "LF" THEN 1 ELSE 0)
    BY <1>6, Said
  <2>2. screen' = screen /\ afterCr' = afterCr
    BY <1>6 DEF AdapterSays, display
  <2> HIDE DEF h
  <2>3. Occurrences("NL", screen') = Occurrences("NL", screen)
    BY <2>2
  <2> QED
    BY <1>1, <1>2, <2>1, <2>2, <2>3 DEF Breaks
<1> QED
  BY <1>3, <1>4, <1>5, <1>6 DEF Next, Loop, Adapter, Closed, Type, Stop, Tick, Expire,
     AdapterReads, vars, display

LEMMA ShownInit ==
  ASSUME Init
  PROVE  ShownInv
<1>1. /\ pending = FALSE /\ afterCr = FALSE /\ screen = <<>> /\ toTerminal = <<>>
      /\ owed = [c \in Shown |-> 0]
  BY DEF Init
<1>2. \A c : Occurrences(c, screen) = 0 /\ Occurrences(c, toTerminal) = 0
  BY <1>1, OccurrencesNone
<1>3. \A c \in Shown : owed[c] = 0
  BY <1>1
<1>4. Balance
  BY <1>1, <1>2, <1>3 DEF Balance, Awaited
<1>5. Breaks
  BY <1>1, <1>2, <1>3, SymbolFacts DEF Breaks
<1>6. EchoInTime
  BY <1>1 DEF EchoInTime
<1> QED
  BY <1>4, <1>5, <1>6, TypeInit DEF ShownInv

LEMMA ShownInvariant ==
  ASSUME ~LateReflections
  PROVE  Spec => []ShownInv
<1>1. ShownInv /\ [Next]_vars => ShownInv'
  BY TypeStep, EchoStep, BalanceStep, BreaksStep DEF ShownInv
<1> QED
  BY ShownInit, <1>1, PTL DEF Spec

-----------------------------------------------------------------------------
(* The keys under way are the last that were typed                          *)

\* s ends in q.
EndsIn(s, q) ==
  /\ Len(q) <= Len(s)
  /\ \A i \in 1 .. Len(q) : q[i] = s[(Len(s) - Len(q)) + i]

OrderInv == TypeOK /\ (running => EndsIn(typed, UnderWay))

LEMMA EndsAppend ==
  ASSUME NEW S, NEW s \in Seq(S), NEW q \in Seq(S), NEW x \in S, EndsIn(s, q)
  PROVE  EndsIn(Append(s, x), Append(q, x))
<1> DEFINE t == Append(s, x)
           r == Append(q, x)
<1>1. /\ Len(t) = Len(s) + 1 /\ Len(s) \in Nat /\ t[Len(s) + 1] = x
      /\ \A i \in 1 .. Len(s) : t[i] = s[i]
  BY AppendFacts
<1>2. /\ Len(r) = Len(q) + 1 /\ Len(q) \in Nat /\ r[Len(q) + 1] = x
      /\ \A i \in 1 .. Len(q) : r[i] = q[i]
  BY AppendFacts
<1>3. /\ Len(q) <= Len(s)
      /\ \A i \in 1 .. Len(q) : q[i] = s[(Len(s) - Len(q)) + i]
  BY DEF EndsIn
<1> HIDE DEF t, r
<1>4. ASSUME NEW i \in 1 .. Len(r)
      PROVE  r[i] = t[(Len(t) - Len(r)) + i]
  <2>1. Len(t) - Len(r) = Len(s) - Len(q)
    BY <1>1, <1>2
  <2>2. CASE i \in 1 .. Len(q)
    <3>1. (Len(s) - Len(q)) + i \in 1 .. Len(s)
      BY <1>1, <1>2, <1>3, <2>2
    <3>2. r[i] = q[i] /\ q[i] = s[(Len(s) - Len(q)) + i]
      BY <1>2, <1>3, <2>2
    <3>3. t[(Len(s) - Len(q)) + i] = s[(Len(s) - Len(q)) + i]
      BY <1>1, <3>1
    <3> QED
      BY <2>1, <3>2, <3>3
  <2>3. CASE i = Len(q) + 1
    <3>1. (Len(s) - Len(q)) + i = Len(s) + 1
      BY <1>1, <1>2, <2>3
    <3> QED
      BY <1>1, <1>2, <2>1, <2>3, <3>1
  <2> QED
    BY <1>2, <2>2, <2>3
<1>5. EndsIn(t, r)
  BY <1>1, <1>2, <1>3, <1>4 DEF EndsIn
<1> QED
  BY <1>5 DEF t, r

LEMMA EndsTail ==
  ASSUME NEW S, NEW s \in Seq(S), NEW q \in Seq(S), q # <<>>, EndsIn(s, q)
  PROVE  EndsIn(s, Tail(q))
<1> DEFINE t == Tail(q)
<1>1. /\ Len(t) = Len(q) - 1 /\ Len(q) \in Nat
      /\ \A i \in 1 .. Len(t) : i + 1 \in 1 .. Len(q) /\ t[i] = q[i + 1]
  BY TailFacts
<1>2. /\ Len(q) <= Len(s)
      /\ \A i \in 1 .. Len(q) : q[i] = s[(Len(s) - Len(q)) + i]
  BY DEF EndsIn
<1>3. Len(s) \in Nat
  BY LenProperties
<1> HIDE DEF t
<1>4. ASSUME NEW i \in 1 .. Len(t)
      PROVE  t[i] = s[(Len(s) - Len(t)) + i]
  <2>1. (Len(s) - Len(q)) + (i + 1) = (Len(s) - Len(t)) + i
    BY <1>1, <1>3
  <2>2. t[i] = q[i + 1] /\ q[i + 1] = s[(Len(s) - Len(q)) + (i + 1)]
    BY <1>1, <1>2
  <2> QED
    BY <2>1, <2>2
<1>5. EndsIn(s, t)
  BY <1>1, <1>2, <1>3, <1>4 DEF EndsIn
<1> QED
  BY <1>5 DEF t

LEMMA EndsSplit ==
  ASSUME NEW S, NEW s \in Seq(S), NEW q \in Seq(S), EndsIn(s, q)
  PROVE  s = SubSeq(s, 1, Len(s) - Len(q)) \o q
<1> DEFINE m == Len(s) - Len(q)
           p == SubSeq(s, 1, m)
           t == p \o q
<1>1. /\ Len(q) <= Len(s)
      /\ \A i \in 1 .. Len(q) : q[i] = s[(Len(s) - Len(q)) + i]
  BY DEF EndsIn
<1>2. Len(s) \in Nat /\ Len(q) \in Nat
  BY LenProperties
<1>3. m \in Nat /\ Len(s) = m + Len(q) /\ m <= Len(s)
  BY <1>1, <1>2
<1> HIDE DEF m
<1>4. \A i \in 1 .. m : s[i] \in S
  BY <1>2, <1>3
<1>5. /\ p \in Seq(S)
      /\ Len(p) = IF 1 <= m THEN (m - 1) + 1 ELSE 0
      /\ \A i \in 1 .. (m - 1) + 1 : p[i] = s[(1 + i) - 1]
  BY <1>3, <1>4, SubSeqProperties
<1> HIDE DEF p
<1>6. Len(p) = m /\ \A i \in 1 .. m : p[i] = s[i]
  BY <1>3, <1>5
<1>7. p \in Seq(S)
  BY <1>5
<1>8. /\ t \in Seq(S) /\ Len(t) = Len(p) + Len(q)
      /\ \A i \in 1 .. Len(p) : t[i] = p[i]
      /\ \A i \in 1 .. Len(q) : t[Len(p) + i] = q[i]
  BY <1>7, ConcatFacts
<1> HIDE DEF t
<1>9. ASSUME NEW i \in 1 .. Len(s)
      PROVE  s[i] = t[i]
  <2>1. i \in 1 .. m \/ i \notin 1 .. m
    OBVIOUS
  <2>2. CASE i \in 1 .. m
    BY <1>6, <1>8, <2>2
  <2>3. CASE i \notin 1 .. m
    <3> DEFINE k == i - m
    <3>1. k \in 1 .. Len(q) /\ i = m + k
      BY <1>2, <1>3, <2>3
    <3> HIDE DEF k
    <3>2. t[m + k] = q[k] /\ q[k] = s[m + k]
      BY <1>1, <1>6, <1>8, <3>1 DEF m
    <3> QED
      BY <3>1, <3>2
  <2> QED
    BY <2>1, <2>2, <2>3
<1>10. s = t
  BY <1>3, <1>6, <1>8, <1>9, SeqEqual
<1> QED
  BY <1>10 DEF t, p, m

LEMMA OrderInit ==
  ASSUME Init
  PROVE  OrderInv
<1>1. TypeOK /\ toAdapter = <<>> /\ count = 0 /\ typed = <<>>
  BY TypeInit DEF Init
<1>2. Len(UnderWay) = 0
  BY <1>1, Pipe
<1>3. Len(typed) = 0
  BY <1>1
<1> QED
  BY <1>1, <1>2, <1>3 DEF OrderInv, EndsIn

LEMMA OrderStep ==
  ASSUME OrderInv, [Next]_vars
  PROVE  OrderInv'
<1>1. TypeOK /\ TypeOK'
  BY TypeStep DEF OrderInv
<1> SUFFICES ASSUME running'
             PROVE  EndsIn(typed, UnderWay)'
  BY <1>1 DEF OrderInv
<1>2. typed \in Seq(Keys) /\ UnderWay \in Seq(Keys) /\ running \in BOOLEAN
  BY <1>1, Types, Pipe
<1>3. running => EndsIn(typed, UnderWay)
  BY DEF OrderInv
<1>4. CASE running /\ typed' = typed /\ UnderWay' = UnderWay
  BY <1>3, <1>4 DEF EndsIn
<1>5. ASSUME NEW key \in Keys, Type(key)
      PROVE  EndsIn(typed, UnderWay)'
  <2>1. running /\ ~Full
    BY <1>5 DEF Type
  <2>2. UnderWay' = Append(UnderWay, key) /\ typed' = Append(typed, key)
    BY <1>1, <1>5, <2>1, TypedUnderWay
  <2>3. EndsIn(Append(typed, key), Append(UnderWay, key))
    BY <1>2, <1>3, <2>1, EndsAppend
  <2> QED
    BY <2>2, <2>3 DEF EndsIn
<1>6. CASE AdapterReads
  <2>1. running /\ typed' = typed
    BY <1>6 DEF AdapterReads
  <2>2. UnderWay # <<>> /\ UnderWay' = Tail(UnderWay)
    BY <1>1, <1>6, ReadUnderWay
  <2>3. EndsIn(typed, Tail(UnderWay))
    BY <1>2, <1>3, <2>1, <2>2, EndsTail
  <2> QED
    BY <2>1, <2>2, <2>3 DEF EndsIn
<1>7. CASE Send
  BY <1>1, <1>4, <1>7, SentUnderWay DEF Send
<1>8. CASE HandleByte \/ Expire \/ Tick \/ AdapterSays
  BY <1>4, <1>8, SameUnderWay DEF HandleByte, Expire, Tick, AdapterSays
<1>9. CASE Stop \/ Closed
  BY <1>9, <1>2 DEF Stop, Closed, vars
<1>10. CASE UNCHANGED vars
  <2>1. running /\ typed' = typed /\ UNCHANGED <<toAdapter, queue>>
    BY <1>10 DEF vars
  <2> QED
    BY <1>4, <2>1, SameUnderWay
<1> QED
  BY <1>5, <1>6, <1>7, <1>8, <1>9, <1>10 DEF Next, Loop, Adapter

-----------------------------------------------------------------------------
(* The password stays hidden                                                *)

HasEnter(s) == \E i \in 1 .. Len(s) : s[i] = "CR"
NoPassword(s) == \A i \in 1 .. Len(s) : s[i] # "s"
OnlyPassword(s) == \A i \in 1 .. Len(s) : s[i] = "s"

\* Whoever types a password, with nothing typed ahead of the prompt, does so
\* behind every Enter, and it is not displayed.
QueuedHidden ==
  \A i \in 1 .. count : Queued[i] = "s" =>
    hide /\ \A j \in 1 .. i - 1 : Queued[j] # "CR"

ExpectsTheLast == toAdapter # <<>> => expected = toAdapter[Len(toAdapter)]

\* A byte of the password that comes back is the reflection that is waited for.
EchoIsAwaited ==
  /\ \A i \in 1 .. Len(toTerminal) : toTerminal[i] = "s" =>
       /\ reflects /\ pending /\ expected = "s"
       /\ \A j \in 1 .. Len(toTerminal) : toTerminal[j] = "s" => j = i
  /\ NoPassword(saying)

EnterIsLast ==
  NothingAhead /\ HasEnter(UnderWay) => UnderWay[Len(UnderWay)] = "CR"

\* The answer to the last Enter is on its way, nothing else is typed, and no key
\* is taken for a part of it: in the end the display is off, or it does not show
\* the prompt.
Answering(stream) ==
  LET n == Len(stream) IN
    /\ n >= 2 => stream[n - 1] = "P" /\ stream[n] \in {"t", ":"}
    /\ n = 1 => stream[1] \in {"t", ":"} /\ matched = 1
    /\ n = 0 => hide \/ ~ShowsMarker

Answered ==
  /\ UnderWay = <<>> /\ expected = "CR"
  /\ NoPassword(toTerminal) /\ Answering(toTerminal \o saying)

\* The display is off and only the password is under way.
Prompted ==
  /\ hide /\ saying = <<>>
  /\ OnlyPassword(toTerminal) /\ OnlyPassword(UnderWay)

Settled == NothingAhead /\ ~HasEnter(UnderWay) => Answered \/ Prompted

Hidden ==
  /\ QueuedHidden /\ ExpectsTheLast /\ EchoIsAwaited /\ EnterIsLast /\ Settled

HiddenInv ==
  TypeOK /\ EchoInTime /\ PasswordStaysHidden /\ (running => Hidden)

\* The two halves of what is under way, by position.
LEMMA UnderWayParts ==
  ASSUME TypeOK
  PROVE  /\ Len(UnderWay) \in Nat
         /\ UnderWay = <<>> => count = 0 /\ toAdapter = <<>>
         /\ ~HasEnter(UnderWay) => \A i \in 1 .. count : Queued[i] # "CR"
         /\ OnlyPassword(UnderWay) => \A i \in 1 .. count : Queued[i] = "s"
<1>1. /\ UnderWay \in Seq(Keys) /\ Len(UnderWay) = Len(toAdapter) + count
      /\ Len(toAdapter) \in Nat /\ count \in Nat
      /\ \A i \in 1 .. count : UnderWay[Len(toAdapter) + i] = Queued[i]
  BY Pipe
<1>2. \A i \in 1 .. count : Len(toAdapter) + i \in 1 .. Len(UnderWay)
  BY <1>1
<1>3. UnderWay = <<>> => Len(UnderWay) = 0
  BY Zenon, EmptySeq
<1>4. Len(toAdapter) = 0 => toAdapter = <<>>
  <2>1. toAdapter \in Seq(Keys)
    BY Types
  <2> QED
    BY <2>1, EmptySeq
<1>5. UnderWay = <<>> => count = 0 /\ toAdapter = <<>>
  BY <1>1, <1>3, <1>4
<1>6. ~HasEnter(UnderWay) => \A i \in 1 .. count : Queued[i] # "CR"
  BY <1>1, <1>2 DEF HasEnter
<1>7. OnlyPassword(UnderWay) => \A i \in 1 .. count : Queued[i] = "s"
  BY <1>1, <1>2 DEF OnlyPassword
<1> QED
  BY <1>1, <1>5, <1>6, <1>7

\* What a password is typed at.
LEMMA PromptSeen ==
  ASSUME ~TypesAhead, TypeOK, AtPrompt
  PROVE  /\ ShowsMarker /\ NothingAhead /\ saying = <<>>
         /\ OnlyPassword(toTerminal) /\ ~HasEnter(UnderWay)
<1>1. /\ toTerminal \in Seq(Carried) /\ UnderWay \in Seq(Keys)
  BY Types, Pipe
<1>2. DOMAIN toTerminal = 1 .. Len(toTerminal) /\ DOMAIN UnderWay = 1 .. Len(UnderWay)
  BY <1>1, LenProperties
<1>3. OnlyPassword(toTerminal)
  BY <1>2 DEF AtPrompt, OnlyPassword, ToSet
<1>4. ~HasEnter(UnderWay)
  BY <1>2 DEF AtPrompt, HasEnter, ToSet
<1> QED
  BY <1>3, <1>4 DEF AtPrompt

\* A password is typed only while the display is off.
LEMMA PromptIsHidden ==
  ASSUME ~TypesAhead, TypeOK, Hidden, AtPrompt
  PROVE  hide /\ OnlyPassword(UnderWay)
<1>1. /\ ShowsMarker /\ NothingAhead /\ saying = <<>>
      /\ OnlyPassword(toTerminal) /\ ~HasEnter(UnderWay)
  BY PromptSeen
<1>2. Answered \/ Prompted
  BY <1>1 DEF Hidden, Settled
<1>3. CASE Prompted
  BY <1>3 DEF Prompted
<1>4. CASE Answered
  <2>1. /\ UnderWay = <<>> /\ NoPassword(toTerminal)
        /\ Answering(toTerminal \o saying)
    BY <1>4 DEF Answered
  <2>2. toTerminal \in Seq(Carried) /\ saying \in Seq(Carried)
    BY Types
  <2>3. toTerminal = <<>>
    <3>1. Len(toTerminal) \in Nat
      BY <2>2, LenProperties
    <3>2. Len(toTerminal) = 0
      <4>1. \A i \in 1 .. Len(toTerminal) : FALSE
        BY <1>1, <2>1 DEF OnlyPassword, NoPassword
      <4>2. Len(toTerminal) > 0 => 1 \in 1 .. Len(toTerminal)
        BY <3>1
      <4> QED
        BY <3>1, <4>1, <4>2
    <3> QED
      BY <2>2, <3>1, <3>2, EmptySeq
  <2>4. toTerminal \o saying = <<>>
    BY <1>1, <2>2, <2>3, ConcatEmptySeq
  <2>5. Answering(<<>>)
    BY <2>1, <2>4
  <2>6. Len(<<>>) = 0
    OBVIOUS
  <2>7. hide \/ ~ShowsMarker
    BY <2>5, <2>6 DEF Answering
  <2>8. OnlyPassword(<<>>)
    BY <2>6 DEF OnlyPassword
  <2> QED
    BY <1>1, <2>1, <2>7, <2>8
<1> QED
  BY <1>2, <1>3, <1>4

LEMMA QueuedHiddenStep ==
  ASSUME ~TypesAhead, TypeOK, running, Hidden, [Next]_vars, running'
  PROVE  QueuedHidden'
<1>1. \A i \in 1 .. count : Queued[i] = "s" =>
        hide /\ \A j \in 1 .. i - 1 : Queued[j] # "CR"
  BY DEF Hidden, QueuedHidden
<1>2. Queued \in Seq(Keys) /\ Len(Queued) = count /\ count \in Nat
  BY QueuedKeys
<1>3. ASSUME UNCHANGED queue, hide => hide'
      PROVE  QueuedHidden'
  <2>1. Queued' = Queued /\ count' = count
    BY <1>3 DEF Queued, queue
  <2> QED
    BY <1>1, <1>3, <2>1 DEF QueuedHidden
<1>4. ASSUME NEW key \in Keys, Type(key)
      PROVE  QueuedHidden'
  <2>1. ~Full /\ count' = count + 1 /\ hide' = hide /\ (key = "s" => AtPrompt)
    BY <1>4 DEF Type, display
  <2>2. Queued' = Append(Queued, key)
    BY <1>4, <2>1, KeyQueued DEF Type
  <2>3. /\ \A i \in 1 .. count : Queued'[i] = Queued[i]
        /\ Queued'[count + 1] = key
    BY <1>2, <2>2, AppendFacts
  <2>4. key = "s" => hide /\ \A j \in 1 .. count : Queued[j] # "CR"
    <3>1. ASSUME key = "s"
          PROVE  hide /\ ~HasEnter(UnderWay)
      BY <2>1, <3>1, PromptIsHidden, PromptSeen
    <3> QED
      BY <3>1, UnderWayParts
  <2>5. ASSUME NEW i \in 1 .. count', Queued'[i] = "s"
        PROVE  hide' /\ \A j \in 1 .. i - 1 : Queued'[j] # "CR"
    <3>1. CASE i \in 1 .. count
      <4>1. \A j \in 1 .. i - 1 : j \in 1 .. count
        BY <1>2, <3>1
      <4> QED
        BY <1>1, <2>1, <2>3, <2>5, <3>1, <4>1
    <3>2. CASE i = count + 1
      <4>1. \A j \in 1 .. i - 1 : j \in 1 .. count
        BY <1>2, <3>2
      <4> QED
        BY <2>1, <2>3, <2>4, <2>5, <3>2, <4>1
    <3> QED
      BY <1>2, <2>1, <3>1, <3>2
  <2> QED
    BY <2>5 DEF QueuedHidden
<1>5. CASE Send
  <2>1. count > 0 /\ KeyPop /\ hide' = HiddenAfter(value[head]) /\ count' = count - 1
    BY <1>5 DEF Send, KeyPop
  <2>2. Queued # <<>> /\ Head(Queued) = value[head] /\ Queued' = Tail(Queued)
    BY <2>1, KeyTaken
  <2>3. /\ 1 \in 1 .. count /\ Head(Queued) = Queued[1]
        /\ \A i \in 1 .. count' : i + 1 \in 1 .. count /\ Queued'[i] = Queued[i + 1]
    BY <1>2, <2>1, <2>2, TailFacts
  <2>4. ASSUME NEW i \in 1 .. count', Queued'[i] = "s"
        PROVE  hide' /\ \A j \in 1 .. i - 1 : Queued'[j] # "CR"
    <3>1. i + 1 \in 1 .. count /\ Queued[i + 1] = "s"
      BY <2>3, <2>4
    <3>2. hide /\ \A j \in 1 .. i : Queued[j] # "CR"
      <4>1. (i + 1) - 1 = i
        BY <1>2, <2>1
      <4>2. hide /\ \A j \in 1 .. (i + 1) - 1 : Queued[j] # "CR"
        BY <1>1, <3>1
      <4> QED
        BY <4>1, <4>2
    <3>3. 1 \in 1 .. i /\ \A j \in 1 .. i - 1 : j \in 1 .. count' /\ j + 1 \in 1 .. i
      BY <1>2, <2>1
    <3>4. value[head] # "CR"
      BY <2>2, <2>3, <3>2, <3>3
    <3> QED
      BY <2>1, <2>3, <3>2, <3>3, <3>4 DEF HiddenAfter
  <2> QED
    BY <2>4 DEF QueuedHidden
<1>6. CASE HandleByte
  BY <1>3, <1>6 DEF HandleByte, display
<1>7. CASE Stop \/ Closed
  BY <1>7 DEF Stop, Closed
<1>8. CASE Expire \/ Tick \/ AdapterReads \/ AdapterSays \/ UNCHANGED vars
  BY <1>3, <1>8 DEF Expire, Tick, AdapterReads, AdapterSays, vars, display
<1> QED
  BY <1>4, <1>5, <1>6, <1>7, <1>8 DEF Next, Loop, Adapter

LEMMA ExpectsStep ==
  ASSUME TypeOK, running, Hidden, [Next]_vars
  PROVE  ExpectsTheLast'
<1>1. toAdapter # <<>> => expected = toAdapter[Len(toAdapter)]
  BY DEF Hidden, ExpectsTheLast
<1>2. toAdapter \in Seq(Keys)
  BY Types
<1>3. CASE UNCHANGED <<toAdapter, expected>>
  BY <1>1, <1>3 DEF ExpectsTheLast
<1>4. CASE Send
  <2> DEFINE key == value[head]
  <2>1. toAdapter' = Append(toAdapter, key) /\ expected' = key /\ key \in Keys
    BY <1>4, KeyTaken DEF Send
  <2> HIDE DEF key
  <2>2. Len(toAdapter') = Len(toAdapter) + 1 /\ toAdapter'[Len(toAdapter) + 1] = key
    BY <1>2, <2>1, AppendFacts
  <2> QED
    BY <2>1, <2>2 DEF ExpectsTheLast
<1>5. CASE AdapterReads
  <2>1. toAdapter # <<>> /\ toAdapter' = Tail(toAdapter) /\ expected' = expected
    BY <1>5 DEF AdapterReads, reflection
  <2>2. /\ Len(toAdapter') = Len(toAdapter) - 1 /\ Len(toAdapter) \in Nat
        /\ toAdapter' \in Seq(Keys)
        /\ \A i \in 1 .. Len(toAdapter') : toAdapter'[i] = toAdapter[i + 1]
    BY <1>2, <2>1, TailFacts
  <2>3. ASSUME toAdapter' # <<>>
        PROVE  expected' = toAdapter'[Len(toAdapter')]
    <3>1. Len(toAdapter') \in 1 .. Len(toAdapter')
      <4>1. Len(toAdapter') \in Nat \ {0}
        BY <2>2, <2>3, EmptySeq
      <4> QED
        BY <4>1
    <3>2. toAdapter'[Len(toAdapter')] = toAdapter[Len(toAdapter') + 1]
      BY <2>2, <3>1
    <3>3. Len(toAdapter') + 1 = Len(toAdapter)
      BY <2>2
    <3> QED
      BY <1>1, <2>1, <3>2, <3>3
  <2> QED
    BY <2>3 DEF ExpectsTheLast
<1> QED
  BY <1>3, <1>4, <1>5 DEF Next, Loop, Adapter, Type, Stop, HandleByte, Expire, Tick,
     AdapterSays, Closed, vars, reflection

\* What the adapter says to an Enter.
LEMMA AnswerFacts ==
  ASSUME NEW answer \in Answers
  PROVE  LET s == Break \o answer IN
         /\ s \in Seq(Carried) /\ Len(s) = 4 /\ NoPassword(s)
         /\ s[3] = "P" /\ s[4] \in {"t", ":"}
<1> DEFINE s == Break \o answer
<1>1. Break \in Seq(Carried) /\ Len(Break) = 2 /\ Break[1] = "CR" /\ Break[2] = "LF"
  BY DEF Break, Carried, Keys
<1>2. /\ answer \in Seq(Carried) /\ Len(answer) = 2
      /\ answer[1] = "P" /\ answer[2] \in {"t", ":"}
  <2>1. /\ <<"P", "t">> \in Seq(Carried) /\ <<"P", ":">> \in Seq(Carried)
        /\ Len(<<"P", "t">>) = 2 /\ Len(<<"P", ":">>) = 2
    BY DEF Carried, Keys
  <2>2. answer = <<"P", "t">> \/ answer = <<"P", ":">>
    BY DEF Answers, Marker
  <2>3. CASE answer = <<"P", "t">>
    BY <2>1, <2>3
  <2>4. CASE answer = <<"P", ":">>
    BY <2>1, <2>4
  <2> QED
    BY <2>2, <2>3, <2>4
<1>3. Break \in Seq(Carried) /\ answer \in Seq(Carried)
  BY <1>1, <1>2
<1>4. /\ s \in Seq(Carried) /\ Len(s) = Len(Break) + Len(answer)
      /\ \A i \in 1 .. Len(Break) : s[i] = Break[i]
      /\ \A i \in 1 .. Len(answer) : s[Len(Break) + i] = answer[i]
  BY <1>3, ConcatFacts
<1> HIDE DEF s
<1>5. /\ Len(s) = 4 /\ s[1] = "CR" /\ s[2] = "LF" /\ s[2 + 1] = "P"
      /\ s[2 + 2] \in {"t", ":"}
  BY <1>1, <1>2, <1>4
<1>6. NoPassword(s)
  BY <1>5 DEF NoPassword
<1> QED
  BY <1>4, <1>5, <1>6 DEF s

LEMMA NoPasswordTail ==
  ASSUME NEW S, NEW q \in Seq(S), q # <<>>, NoPassword(q)
  PROVE  NoPassword(Tail(q)) /\ Head(q) # "s"
BY TailFacts DEF NoPassword

\* A byte of the password that arrives is taken for the reflection it is.
LEMMA PasswordIsReflection ==
  ASSUME TypeOK, EchoInTime, Hidden, toTerminal # <<>>, Head(toTerminal) = "s"
  PROVE  IsReflection(Head(toTerminal))
<1>1. toTerminal \in Seq(Carried)
  BY Types
<1>2. 1 \in 1 .. Len(toTerminal) /\ Head(toTerminal) = toTerminal[1]
  BY <1>1, TailFacts
<1>3. reflects /\ pending /\ expected = "s"
  BY <1>2 DEF Hidden, EchoIsAwaited
<1> QED
  BY <1>3 DEF EchoInTime, IsReflection

LEMMA AwaitedStep ==
  ASSUME TypeOK, EchoInTime, running, Hidden, [Next]_vars, running'
  PROVE  EchoIsAwaited'
<1> DEFINE n == Len(toTerminal)
<1>1. /\ \A i \in 1 .. n : toTerminal[i] = "s" =>
           /\ reflects /\ pending /\ expected = "s"
           /\ \A j \in 1 .. n : toTerminal[j] = "s" => j = i
      /\ NoPassword(saying)
  BY DEF Hidden, EchoIsAwaited
<1>2. toTerminal \in Seq(Carried) /\ saying \in Seq(Carried)
  BY Types
<1>3. CASE UNCHANGED <<reflects, pending, expected, toTerminal>> /\ NoPassword(saying')
  BY <1>1, <1>3 DEF EchoIsAwaited, NoPassword
<1>4. CASE HandleByte
  <2> DEFINE d == Head(toTerminal)
             m == Len(toTerminal')
  <2>1. /\ toTerminal # <<>> /\ toTerminal' = Tail(toTerminal)
        /\ UNCHANGED <<reflects, expected, saying>>
        /\ IF IsReflection(d) THEN pending' = FALSE ELSE pending' = pending
    BY <1>4 DEF HandleByte, adapter
  <2>2. /\ d = toTerminal[1] /\ 1 \in 1 .. n /\ m = n - 1 /\ n \in Nat
        /\ \A i \in 1 .. m : i + 1 \in 1 .. n /\ toTerminal'[i] = toTerminal[i + 1]
    BY <1>2, <2>1, TailFacts
  <2>3. d = "s" => IsReflection(d)
    BY <2>1, PasswordIsReflection
  <2> HIDE DEF n, m
  <2>4. ASSUME NEW i \in 1 .. m, toTerminal'[i] = "s"
        PROVE  /\ reflects' /\ pending' /\ expected' = "s"
               /\ \A j \in 1 .. m : toTerminal'[j] = "s" => j = i
    <3>1. /\ i + 1 \in 1 .. n /\ toTerminal[i + 1] = "s"
      BY <2>2, <2>4
    <3>2. /\ reflects /\ pending /\ expected = "s"
          /\ \A j \in 1 .. n : toTerminal[j] = "s" => j = i + 1
      BY <1>1, <3>1
    <3>3. d # "s"
      BY <2>2, <3>2
    <3>4. ~IsReflection(d)
      BY <3>2, <3>3 DEF IsReflection
    <3>5. ASSUME NEW j \in 1 .. m, toTerminal'[j] = "s"
          PROVE  j = i
      <4>1. j + 1 \in 1 .. n /\ toTerminal[j + 1] = "s"
        BY <2>2, <3>5
      <4>2. j + 1 = i + 1
        BY <3>2, <4>1
      <4> QED
        BY <2>2, <4>2
    <3> QED
      BY <2>1, <3>2, <3>4, <3>5
  <2>5. NoPassword(saying')
    BY <1>1, <2>1
  <2> QED
    BY <2>4, <2>5 DEF EchoIsAwaited, NoPassword, m
<1>5. CASE Expire
  <2>1. pending /\ ~reflects /\ UNCHANGED <<reflects, expected, toTerminal, saying>>
    BY <1>5, Types, Sizes DEF Expire, Overdue, EchoInTime, Room, adapter
  <2> QED
    BY <1>1, <2>1 DEF EchoIsAwaited, NoPassword
<1>6. CASE Send
  <2> DEFINE key == value[head]
             m == Len(toTerminal')
  <2>1. /\ ~pending /\ pending' = TRUE /\ expected' = key /\ key \in Keys
        /\ toTerminal' = (IF reflects THEN Append(toTerminal, key) ELSE toTerminal)
        /\ UNCHANGED <<reflects, saying>>
    BY <1>6, KeyTaken DEF Send, adapter
  <2>2. key \in Carried
    BY <2>1, SymbolFacts
  <2>3. \A i \in 1 .. n : toTerminal[i] # "s"
    BY <1>1, <2>1
  <2> HIDE DEF key
  <2>4. NoPassword(saying')
    BY <1>1, <2>1
  <2>5. CASE reflects
    <3>1. /\ m = n + 1 /\ n \in Nat /\ toTerminal'[n + 1] = key
          /\ \A i \in 1 .. n : toTerminal'[i] = toTerminal[i]
      BY <1>2, <2>1, <2>2, <2>5, AppendFacts
    <3> HIDE DEF n, m
    <3>2. ASSUME NEW i \in 1 .. m, toTerminal'[i] = "s"
          PROVE  i = n + 1 /\ key = "s"
      BY <2>3, <3>1, <3>2
    <3>3. \A i \in 1 .. m : toTerminal'[i] = "s" =>
            /\ reflects' /\ pending' /\ expected' = "s"
            /\ \A j \in 1 .. m : toTerminal'[j] = "s" => j = i
      BY <2>1, <2>5, <3>2
    <3> QED
      BY <2>4, <3>3 DEF EchoIsAwaited, NoPassword, m
  <2>6. CASE ~reflects
    BY <2>1, <2>3, <2>4, <2>6 DEF EchoIsAwaited, NoPassword
  <2> QED
    BY <2>5, <2>6
<1>7. CASE AdapterReads
  <2>1. /\ UNCHANGED <<reflects, pending, expected, toTerminal>>
        /\ \/ \E answer \in Answers : saying' = Break \o answer
           \/ saying' = saying
    BY <1>7 DEF AdapterReads, reflection
  <2>2. NoPassword(saying')
    BY <1>1, <2>1, AnswerFacts
  <2> QED
    BY <1>3, <2>1, <2>2
<1>8. CASE AdapterSays
  <2> DEFINE h == Head(saying)
             m == Len(toTerminal')
  <2>1. /\ saying # <<>> /\ saying' = Tail(saying) /\ toTerminal' = Append(toTerminal, h)
        /\ UNCHANGED <<reflects, pending, expected>>
    BY <1>8 DEF AdapterSays, reflection
  <2>2. h # "s" /\ NoPassword(saying') /\ h \in Carried
    BY <1>1, <1>2, <2>1, NoPasswordTail, TailFacts
  <2> HIDE DEF h
  <2>3. /\ m = n + 1 /\ n \in Nat /\ toTerminal'[n + 1] = h
        /\ \A i \in 1 .. n : toTerminal'[i] = toTerminal[i]
    BY <1>2, <2>1, <2>2, AppendFacts
  <2> HIDE DEF n, m
  <2>4. \A i \in 1 .. m : toTerminal'[i] = "s" => i \in 1 .. n /\ toTerminal[i] = "s"
    BY <2>2, <2>3
  <2>5. \A i \in 1 .. m : toTerminal'[i] = "s" =>
          /\ reflects' /\ pending' /\ expected' = "s"
          /\ \A j \in 1 .. m : toTerminal'[j] = "s" => j = i
    BY <1>1, <2>1, <2>4
  <2> QED
    BY <2>2, <2>5 DEF EchoIsAwaited, NoPassword, m
<1>9. CASE \/ \E key \in Keys : Type(key)
           \/ Tick \/ UNCHANGED vars
  <2>1. UNCHANGED <<reflects, pending, expected, toTerminal, saying>>
    BY <1>9 DEF Type, Tick, vars, reflection, adapter
  <2> QED
    BY <1>1, <1>3, <2>1 DEF NoPassword
<1>10. CASE Stop \/ Closed
  BY <1>10 DEF Stop, Closed
<1> QED
  BY <1>4, <1>5, <1>6, <1>7, <1>8, <1>9, <1>10 DEF Next, Loop, Adapter

\* What the key that was typed last says about those before it.
LEMMA TypedAhead ==
  ASSUME TypeOK, NEW key \in Keys, typed' = Append(typed, key)
  PROVE  NothingAhead' => key \in {"CR", "s"}
<1>1. typed \in Seq(Keys)
  BY Types
<1>2. /\ Len(typed') = Len(typed) + 1 /\ Len(typed) \in Nat
      /\ typed'[Len(typed) + 1] = key /\ typed' \in Seq(Keys)
  BY <1>1, AppendFacts
<1>3. DOMAIN typed' = 1 .. Len(typed')
  BY <1>2, LenProperties
<1> SUFFICES ASSUME NEW i \in DOMAIN typed', typed'[i] = "CR",
                    \A j \in i + 1 .. Len(typed') : typed'[j] = "s"
             PROVE  key \in {"CR", "s"}
  BY DEF NothingAhead
<1>4. CASE i = Len(typed) + 1
  BY <1>2, <1>4
<1>5. CASE i # Len(typed) + 1
  <2>1. Len(typed) + 1 \in i + 1 .. Len(typed')
    BY <1>2, <1>3, <1>5
  <2> QED
    BY <1>2, <2>1
<1> QED
  BY <1>4, <1>5

LEMMA EnterAppended ==
  ASSUME NEW S, NEW q \in Seq(S), NEW x \in S
  PROVE  /\ x = "CR" => HasEnter(Append(q, x)) /\ Append(q, x)[Len(Append(q, x))] = "CR"
         /\ x # "CR" /\ ~HasEnter(q) => ~HasEnter(Append(q, x))
         /\ x = "s" /\ OnlyPassword(q) => OnlyPassword(Append(q, x))
<1> DEFINE t == Append(q, x)
<1>1. /\ Len(t) = Len(q) + 1 /\ Len(q) \in Nat /\ t[Len(q) + 1] = x
      /\ \A i \in 1 .. Len(q) : t[i] = q[i]
  BY AppendFacts
<1> HIDE DEF t
<1>2. /\ x = "CR" => HasEnter(t) /\ t[Len(t)] = "CR"
      /\ x # "CR" /\ ~HasEnter(q) => ~HasEnter(t)
      /\ x = "s" /\ OnlyPassword(q) => OnlyPassword(t)
  BY <1>1 DEF HasEnter, OnlyPassword
<1> QED
  BY <1>2 DEF t

LEMMA EnterTail ==
  ASSUME NEW S, NEW q \in Seq(S), q # <<>>
  PROVE  /\ HasEnter(Tail(q)) => HasEnter(q) /\ Tail(q)[Len(Tail(q))] = q[Len(q)]
         /\ Head(q) # "CR" /\ HasEnter(q) => HasEnter(Tail(q))
         /\ Len(q) > 1 /\ q[Len(q)] = "CR" => HasEnter(Tail(q))
         /\ Head(q) = "CR" => HasEnter(q)
         /\ OnlyPassword(q) => OnlyPassword(Tail(q)) /\ Head(q) = "s"
<1> DEFINE t == Tail(q)
<1>1. /\ Len(t) = Len(q) - 1 /\ Len(q) \in Nat /\ 1 \in 1 .. Len(q) /\ Head(q) = q[1]
      /\ \A i \in 1 .. Len(t) : i + 1 \in 1 .. Len(q) /\ t[i] = q[i + 1]
  BY TailFacts
<1> HIDE DEF t
<1>2. HasEnter(t) => HasEnter(q) /\ t[Len(t)] = q[Len(q)]
  BY <1>1 DEF HasEnter
<1>3. Head(q) # "CR" /\ HasEnter(q) => HasEnter(t)
  <2> SUFFICES ASSUME Head(q) # "CR", NEW i \in 1 .. Len(q), q[i] = "CR"
               PROVE  HasEnter(t)
    BY DEF HasEnter
  <2>1. i # 1
    BY <1>1
  <2>2. i - 1 \in 1 .. Len(t) /\ (i - 1) + 1 = i
    BY <1>1, <2>1
  <2> QED
    BY <1>1, <2>2 DEF HasEnter
<1>4. Len(q) > 1 /\ q[Len(q)] = "CR" => HasEnter(t)
  BY <1>1 DEF HasEnter
<1>5. Head(q) = "CR" => HasEnter(q)
  BY <1>1 DEF HasEnter
<1>6. OnlyPassword(q) => OnlyPassword(t) /\ Head(q) = "s"
  BY <1>1 DEF OnlyPassword
<1> QED
  BY <1>2, <1>3, <1>4, <1>5, <1>6 DEF t

LEMMA EnterStep ==
  ASSUME ~TypesAhead, TypeOK, running, Hidden, [Next]_vars, running'
  PROVE  EnterIsLast'
<1>1. NothingAhead /\ HasEnter(UnderWay) => UnderWay[Len(UnderWay)] = "CR"
  BY DEF Hidden, EnterIsLast
<1>2. UnderWay \in Seq(Keys)
  BY Pipe
<1>3. CASE UnderWay' = UnderWay /\ typed' = typed
  BY <1>1, <1>3 DEF EnterIsLast, NothingAhead, HasEnter
<1>4. ASSUME NEW key \in Keys, Type(key)
      PROVE  EnterIsLast'
  <2>1. ~Full /\ (key = "s" => AtPrompt)
    BY <1>4 DEF Type
  <2>2. UnderWay' = Append(UnderWay, key) /\ typed' = Append(typed, key)
    BY <1>4, <2>1, TypedUnderWay
  <2>3. CASE key = "CR"
    <3>1. UnderWay'[Len(UnderWay')] = "CR"
      BY <1>2, <2>2, <2>3, EnterAppended
    <3> QED
      BY <3>1 DEF EnterIsLast
  <2>4. CASE key = "s"
    <3>1. ~HasEnter(UnderWay)
      BY <2>1, <2>4, PromptSeen
    <3>2. ~HasEnter(UnderWay')
      BY <1>2, <2>2, <2>4, <3>1, EnterAppended
    <3> QED
      BY <3>2 DEF EnterIsLast, HasEnter
  <2>5. CASE key \notin {"CR", "s"}
    BY <2>2, <2>5, TypedAhead DEF EnterIsLast
  <2> QED
    BY <2>3, <2>4, <2>5
<1>5. CASE AdapterReads
  <2>1. UnderWay # <<>> /\ UnderWay' = Tail(UnderWay) /\ typed' = typed
    BY <1>5, ReadUnderWay DEF AdapterReads
  <2>2. HasEnter(Tail(UnderWay)) =>
          HasEnter(UnderWay) /\ Tail(UnderWay)[Len(Tail(UnderWay))] = UnderWay[Len(UnderWay)]
    BY <1>2, <2>1, EnterTail
  <2>3. NothingAhead' = NothingAhead /\ HasEnter(UnderWay)' = HasEnter(Tail(UnderWay))
    BY <2>1 DEF NothingAhead, HasEnter
  <2> QED
    BY <1>1, <2>1, <2>2, <2>3 DEF EnterIsLast
<1>6. CASE Send
  BY <1>3, <1>6, SentUnderWay DEF Send
<1>7. CASE HandleByte \/ Expire \/ Tick \/ AdapterSays
  BY <1>3, <1>7, SameUnderWay DEF HandleByte, Expire, Tick, AdapterSays
<1>8. CASE Stop \/ Closed
  BY <1>8 DEF Stop, Closed
<1>9. CASE UNCHANGED vars
  <2>1. typed' = typed /\ UNCHANGED <<toAdapter, queue>>
    BY <1>9 DEF vars
  <2> QED
    BY <1>3, <2>1, SameUnderWay
<1> QED
  BY <1>4, <1>5, <1>6, <1>7, <1>8, <1>9 DEF Next, Loop, Adapter

LEMMA OnlyPasswordTail ==
  ASSUME NEW S, NEW q \in Seq(S), q # <<>>, OnlyPassword(q)
  PROVE  OnlyPassword(Tail(q)) /\ Head(q) = "s"
BY TailFacts DEF OnlyPassword

LEMMA OnlyPasswordAppend ==
  ASSUME NEW S, NEW q \in Seq(S), "s" \in S, OnlyPassword(q)
  PROVE  OnlyPassword(Append(q, "s"))
BY EnterAppended

\* The display does not show the prompt when something else was shown last.
LEMMA NoMarker ==
  ASSUME TypeOK, NEW x \in Keys \cup Shown, x # ":", screen' = Append(screen, x)
  PROVE  ~ShowsMarker'
<1>1. screen \in Seq(Keys \cup Shown)
  BY Types
<1>2. /\ Len(screen') = Len(screen) + 1 /\ Len(screen) \in Nat
      /\ screen'[Len(screen) + 1] = x
  BY <1>1, AppendFacts
<1>3. Len(Marker) = 2 /\ Marker[2] = ":"
  BY DEF Marker
<1> SUFFICES ASSUME ShowsMarker'
             PROVE  FALSE
  OBVIOUS
<1>4. screen'[(Len(screen') - 2) + 2] = ":"
  BY <1>3 DEF ShowsMarker
<1>5. (Len(screen') - 2) + 2 = Len(screen) + 1
  BY <1>2
<1> QED
  BY <1>2, <1>4, <1>5

\* A byte of the answer is shown, and the last one decides.
LEMMA AnswerArrives ==
  ASSUME TypeOK, Hidden, Answered, HandleByte
  PROVE  Answered'
<1> DEFINE d == Head(toTerminal)
           stream == toTerminal \o saying
           rest == Tail(toTerminal) \o saying
           n == Len(stream)
           m == Len(rest)
<1>1. /\ UnderWay = <<>> /\ expected = "CR" /\ NoPassword(toTerminal)
      /\ Answering(stream)
  BY DEF Answered
<1>2. /\ toTerminal # <<>> /\ toTerminal' = Tail(toTerminal)
      /\ UNCHANGED <<toAdapter, queue, expected, saying>>
      /\ IF IsReflection(d) THEN pending' = FALSE /\ UNCHANGED display
         ELSE /\ ShowReceived(d) /\ matched' = Match(d) % Len(Marker)
              /\ hide' = (hide \/ Match(d) = Len(Marker))
  BY DEF HandleByte, adapter
<1>3. toTerminal \in Seq(Carried) /\ saying \in Seq(Carried)
  BY Types
<1>4. NoPassword(toTerminal')
  BY <1>1, <1>2, <1>3, NoPasswordTail
<1>5. UnderWay' = <<>> /\ expected' = "CR"
  BY <1>1, <1>2, SameUnderWay
<1>6. rest = Tail(stream) /\ d = Head(stream) /\ stream # <<>>
  BY <1>2, <1>3, TailOfPipe
<1>7. stream \in Seq(Carried)
  BY <1>3, ConcatFacts
<1>8. toTerminal' \o saying' = rest
  BY <1>2
<1> HIDE DEF d, stream, rest
<1>9. /\ d = stream[1] /\ m = n - 1 /\ n \in Nat /\ n > 0 /\ d \in Carried
      /\ \A i \in 1 .. m : rest[i] = stream[i + 1]
  BY <1>6, <1>7, TailFacts
<1> HIDE DEF n, m
<1>10. Len(Marker) = 2 /\ Marker[1] = "P" /\ Marker[2] = ":"
  BY DEF Marker
<1>11. CASE n > 2
  <2>1. stream[n - 1] = "P" /\ stream[n] \in {"t", ":"}
    BY <1>1, <1>9, <1>11 DEF Answering, n
  <2>2. /\ m >= 2 /\ rest[m - 1] = stream[n - 1] /\ rest[m] = stream[n]
    <3>1. m - 1 \in 1 .. m /\ m \in 1 .. m /\ (m - 1) + 1 = n - 1 /\ m + 1 = n /\ m >= 2
      BY <1>9, <1>11
    <3> QED
      BY <1>9, <3>1
  <2> QED
    BY <1>4, <1>5, <1>8, <2>1, <2>2 DEF Answered, Answering, m
<1>12. CASE n = 2
  <2>1. stream[1] = "P" /\ stream[2] \in {"t", ":"}
    <3>1. n - 1 = 1
      BY <1>12
    <3> QED
      BY <1>1, <1>12, <3>1 DEF Answering, n
  <2>2. ~IsReflection(d)
    BY <1>1, <1>9, <2>1 DEF IsReflection
  <2>3. matched' = Match(d) % 2
    BY <1>2, <1>10, <2>2
  <2>4. Match(d) = 1
    <3>1. d = "P" /\ matched \in 0 .. 1
      BY <1>9, <2>1, Types
    <3>2. CASE matched = 0
      BY <1>10, <3>1, <3>2 DEF Match
    <3>3. CASE matched = 1
      BY <1>10, <3>1, <3>3 DEF Match
    <3> QED
      BY <3>1, <3>2, <3>3
  <2>5. matched' = 1
    BY <2>3, <2>4
  <2>6. m = 1 /\ rest[1] \in {"t", ":"}
    <3>1. m = 1 /\ 1 \in 1 .. m /\ 1 + 1 = 2
      BY <1>9, <1>12
    <3> QED
      BY <1>9, <2>1, <3>1
  <2> QED
    BY <1>4, <1>5, <1>8, <2>5, <2>6 DEF Answered, Answering, m
<1>13. CASE n = 1
  <2>1. d \in {"t", ":"} /\ matched = 1
    BY <1>1, <1>9, <1>13 DEF Answering, n
  <2>2. ~IsReflection(d)
    BY <1>1, <2>1 DEF IsReflection
  <2>3. ShowReceived(d) /\ hide' = (hide \/ Match(d) = 2)
    BY <1>2, <1>10, <2>2
  <2>4. hide' \/ ~ShowsMarker'
    <3>1. CASE d = ":"
      <4>1. Match(d) = 2
        BY <1>10, <2>1, <3>1 DEF Match
      <4> QED
        BY <2>3, <4>1
    <3>2. CASE d = "t"
      <4>1. screen' = Append(screen, "t") /\ "t" \in Keys \cup Shown
        BY <2>3, <3>2 DEF ShowReceived, Shown
      <4> QED
        BY <4>1, NoMarker
    <3> QED
      BY <2>1, <3>1, <3>2
  <2>5. m = 0
    BY <1>9, <1>13
  <2> QED
    BY <1>4, <1>5, <1>8, <2>4, <2>5 DEF Answered, Answering, m
<1> QED
  BY <1>9, <1>11, <1>12, <1>13

\* The adapter begins its answer to the last Enter.
LEMMA AnswerBegins ==
  ASSUME TypeOK, Hidden, AdapterReads, Head(toAdapter) = "CR",
         NothingAhead, ~HasEnter(Tail(UnderWay))
  PROVE  Answered'
<1>1. /\ UnderWay # <<>> /\ Head(UnderWay) = "CR" /\ UnderWay' = Tail(UnderWay)
      /\ UnderWay \in Seq(Keys)
  BY ReadUnderWay, Pipe
<1>2. UnderWay[Len(UnderWay)] = "CR"
  BY <1>1, EnterTail DEF Hidden, EnterIsLast
<1>3. Len(UnderWay) = 1
  <2>1. ~(Len(UnderWay) > 1)
    BY <1>1, <1>2, EnterTail
  <2>2. Len(UnderWay) \in Nat \ {0}
    BY <1>1, EmptySeq
  <2> DEFINE k == Len(UnderWay)
  <2> HIDE DEF k
  <2>3. k \in Nat \ {0} /\ ~(k > 1)
    BY <2>1, <2>2 DEF k
  <2>4. k = 1
    BY <2>3
  <2> QED
    BY <2>4 DEF k
<1>4. UnderWay' = <<>>
  <2>1. UnderWay' \in Seq(Keys) /\ Len(UnderWay') = 0
    BY <1>1, <1>3, TailFacts
  <2> QED
    BY <2>1, EmptySeq
<1>5. /\ toAdapter # <<>> /\ expected' = expected /\ toTerminal' = toTerminal
      /\ \E answer \in Answers : saying' = Break \o answer
  BY DEF AdapterReads, reflection
<1>6. expected = "CR"
  <2>1. toAdapter \in Seq(Keys) /\ Len(toAdapter) \in Nat \ {0}
    BY <1>5, Types, EmptySeq
  <2>2. Len(toAdapter) + count = 1 /\ count \in Nat
    BY <1>3, Pipe
  <2>3. Len(toAdapter) = 1
    <3> DEFINE k == Len(toAdapter)
    <3> HIDE DEF k
    <3>1. k \in Nat \ {0} /\ k + count = 1 /\ count \in Nat
      BY <2>1, <2>2 DEF k
    <3>2. k = 1
      BY <3>1
    <3> QED
      BY <3>2 DEF k
  <2>4. expected = toAdapter[1] /\ Head(toAdapter) = toAdapter[1]
    <3>1. expected = toAdapter[Len(toAdapter)]
      BY <1>5 DEF Hidden, ExpectsTheLast
    <3>2. Head(toAdapter) = toAdapter[1]
      BY <1>5, <2>1, TailFacts
    <3> QED
      BY <2>3, <3>1, <3>2
  <2> QED
    BY <2>4
<1>7. NoPassword(toTerminal')
  BY <1>5, <1>6 DEF Hidden, EchoIsAwaited, NoPassword
<1>8. Answering(toTerminal \o saying)'
  <2>1. PICK answer \in Answers : saying' = Break \o answer
    BY <1>5
  <2>2. /\ saying' \in Seq(Carried) /\ Len(saying') = 4
        /\ saying'[3] = "P" /\ saying'[4] \in {"t", ":"}
    BY <2>1, AnswerFacts
  <2>3. toTerminal' \in Seq(Carried)
    BY <1>5, Types
  <2>4. saying' \in Seq(Carried)
    BY <2>2
  <2> DEFINE a == toTerminal'
             b == saying'
             s == a \o b
  <2>5. a \in Seq(Carried) /\ b \in Seq(Carried)
    BY <2>3, <2>4
  <2>6. Len(b) = 4 /\ b[3] = "P" /\ b[4] \in {"t", ":"}
    BY <2>2
  <2> HIDE DEF a, b
  <2>7. /\ Len(s) = Len(a) + Len(b) /\ Len(a) \in Nat
        /\ \A i \in 1 .. Len(b) : s[Len(a) + i] = b[i]
    BY <2>5, ConcatFacts
  <2> HIDE DEF s
  <2>8. /\ Len(s) = Len(a) + 4 /\ s[Len(a) + 3] = "P" /\ s[Len(a) + 4] \in {"t", ":"}
    BY <2>6, <2>7
  <2>9. Len(s) >= 2 /\ Len(s) - 1 = Len(a) + 3
    BY <2>7, <2>8
  <2>10. Len(s) >= 2 /\ s[Len(s) - 1] = "P" /\ s[Len(s)] \in {"t", ":"}
    BY <2>8, <2>9
  <2> QED
    BY <2>10 DEF Answering, s, a, b
<1> QED
  BY <1>4, <1>5, <1>6, <1>7, <1>8 DEF Answered

LEMMA SettledStep ==
  ASSUME ~TypesAhead, TypeOK, EchoInTime, running, Hidden, [Next]_vars, running'
  PROVE  Settled'
<1>1. NothingAhead /\ ~HasEnter(UnderWay) => Answered \/ Prompted
  BY DEF Hidden, Settled
<1>2. /\ UnderWay \in Seq(Keys) /\ toTerminal \in Seq(Carried) /\ saying \in Seq(Carried)
  BY Pipe, Types
<1> SUFFICES ASSUME NothingAhead', ~HasEnter(UnderWay)'
             PROVE  Answered' \/ Prompted'
  BY DEF Settled
<1>3. CASE UNCHANGED <<typed, toAdapter, queue, expected, toTerminal, saying, hide,
                       matched, screen>>
  <2>1. UnderWay' = UnderWay
    BY <1>3, SameUnderWay
  <2>2. NothingAhead /\ ~HasEnter(UnderWay)
    BY <1>3, <2>1 DEF NothingAhead, HasEnter
  <2>3. CASE Answered
    BY <1>3, <2>1, <2>3 DEF Answered, NoPassword, Answering, ShowsMarker
  <2>4. CASE Prompted
    BY <1>3, <2>1, <2>4 DEF Prompted, OnlyPassword
  <2> QED
    BY <1>1, <2>2, <2>3, <2>4
<1>4. ASSUME NEW key \in Keys, Type(key)
      PROVE  Answered' \/ Prompted'
  <2>1. /\ ~Full /\ (key = "s" => AtPrompt)
        /\ UNCHANGED <<hide, saying, toTerminal>>
    BY <1>4 DEF Type, display, adapter
  <2>2. UnderWay' = Append(UnderWay, key) /\ typed' = Append(typed, key)
    BY <1>4, <2>1, TypedUnderWay
  <2>3. key \in {"CR", "s"}
    BY <2>2, TypedAhead
  <2>4. key # "CR"
    <3>1. ~HasEnter(Append(UnderWay, key))
      BY <2>2 DEF HasEnter
    <3> QED
      BY <1>2, <3>1, EnterAppended
  <2>5. key = "s" /\ AtPrompt
    BY <2>1, <2>3, <2>4
  <2>6. hide /\ OnlyPassword(UnderWay) /\ saying = <<>> /\ OnlyPassword(toTerminal)
    BY <2>5, PromptIsHidden, PromptSeen
  <2>7. OnlyPassword(UnderWay')
    BY <1>2, <2>2, <2>5, <2>6, EnterAppended
  <2> QED
    BY <2>1, <2>6, <2>7 DEF Prompted, OnlyPassword
<1>5. CASE HandleByte
  <2>1. /\ toTerminal # <<>> /\ toTerminal' = Tail(toTerminal)
        /\ UNCHANGED <<typed, toAdapter, queue, saying>>
        /\ IsReflection(Head(toTerminal)) => UNCHANGED display
    BY <1>5 DEF HandleByte, adapter
  <2>2. UnderWay' = UnderWay
    BY <2>1, SameUnderWay
  <2>3. NothingAhead /\ ~HasEnter(UnderWay)
    BY <2>1, <2>2 DEF NothingAhead, HasEnter
  <2>4. CASE Answered
    BY <1>5, <2>4, AnswerArrives
  <2>5. CASE Prompted
    <3>1. hide /\ saying = <<>> /\ OnlyPassword(toTerminal) /\ OnlyPassword(UnderWay)
      BY <2>5 DEF Prompted
    <3>2. OnlyPassword(toTerminal') /\ Head(toTerminal) = "s"
      BY <1>2, <2>1, <3>1, OnlyPasswordTail
    <3>3. hide' = hide
      BY <2>1, <3>2, PasswordIsReflection DEF display
    <3> QED
      BY <2>1, <2>2, <3>1, <3>2, <3>3 DEF Prompted, OnlyPassword
  <2> QED
    BY <1>1, <2>3, <2>4, <2>5
<1>6. CASE Send
  <2> DEFINE key == value[head]
  <2>1. /\ count > 0 /\ KeyPop /\ typed' = typed /\ saying' = saying
        /\ toTerminal' = (IF reflects THEN Append(toTerminal, key) ELSE toTerminal)
        /\ hide' = HiddenAfter(key)
    BY <1>6 DEF Send, adapter
  <2>2. UnderWay' = UnderWay
    BY <1>6, SentUnderWay
  <2>3. NothingAhead /\ ~HasEnter(UnderWay)
    BY <2>1, <2>2 DEF NothingAhead, HasEnter
  <2>4. UnderWay # <<>>
    <3>1. count # 0
      BY <2>1
    <3> QED
      BY <3>1, UnderWayParts
  <2>5. Prompted
    BY <1>1, <2>3, <2>4 DEF Answered
  <2>6. hide /\ saying = <<>> /\ OnlyPassword(toTerminal) /\ OnlyPassword(UnderWay)
    BY <2>5 DEF Prompted
  <2>7. key = "s"
    <3>1. Queued # <<>> /\ Head(Queued) = key
      BY <2>1, KeyTaken
    <3>2. Queued \in Seq(Keys) /\ Len(Queued) = count
      BY QueuedKeys
    <3>3. 1 \in 1 .. Len(Queued) /\ Head(Queued) = Queued[1]
      BY <3>1, <3>2, TailFacts
    <3>4. \A i \in 1 .. count : Queued[i] = "s"
      BY <2>6, UnderWayParts
    <3> QED
      BY <3>1, <3>2, <3>3, <3>4
  <2> HIDE DEF key
  <2>8. OnlyPassword(toTerminal')
    <3>1. "s" \in Carried
      BY DEF Carried, Keys
    <3>2. OnlyPassword(Append(toTerminal, "s"))
      BY <1>2, <2>6, <3>1, OnlyPasswordAppend
    <3> QED
      BY <2>1, <2>6, <2>7, <3>2
  <2>9. hide'
    BY <2>1, <2>6, <2>7 DEF HiddenAfter
  <2> QED
    BY <2>1, <2>2, <2>6, <2>8, <2>9 DEF Prompted, OnlyPassword
<1>7. CASE AdapterReads
  <2>1. /\ UnderWay # <<>> /\ Head(toAdapter) = Head(UnderWay)
        /\ UnderWay' = Tail(UnderWay)
    BY <1>7, ReadUnderWay
  <2>2. /\ UNCHANGED <<typed, hide, toTerminal>>
        /\ Head(toAdapter) # "CR" => saying' = saying
    BY <1>7 DEF AdapterReads, display
  <2>3. NothingAhead /\ ~HasEnter(Tail(UnderWay))
    BY <2>1, <2>2 DEF NothingAhead, HasEnter
  <2>4. CASE Head(toAdapter) = "CR"
    BY <1>7, <2>3, <2>4, AnswerBegins
  <2>5. CASE Head(toAdapter) # "CR"
    <3>1. ~HasEnter(UnderWay)
      BY <1>2, <2>1, <2>3, <2>5, EnterTail
    <3>2. Prompted
      BY <1>1, <2>1, <2>3, <3>1 DEF Answered
    <3>3. hide /\ saying = <<>> /\ OnlyPassword(toTerminal) /\ OnlyPassword(UnderWay)
      BY <3>2 DEF Prompted
    <3>4. OnlyPassword(UnderWay')
      BY <1>2, <2>1, <3>3, OnlyPasswordTail
    <3> QED
      BY <2>2, <2>5, <3>3, <3>4 DEF Prompted, OnlyPassword
  <2> QED
    BY <2>4, <2>5
<1>8. CASE AdapterSays
  <2>1. /\ saying # <<>> /\ saying' = Tail(saying)
        /\ toTerminal' = Append(toTerminal, Head(saying))
        /\ UNCHANGED <<typed, queue, toAdapter, expected, hide, matched, screen>>
    BY <1>8 DEF AdapterSays, reflection, display
  <2>2. UnderWay' = UnderWay
    BY <2>1, SameUnderWay
  <2>3. NothingAhead /\ ~HasEnter(UnderWay)
    BY <2>1, <2>2 DEF NothingAhead, HasEnter
  <2>4. Answered
    BY <1>1, <2>1, <2>3 DEF Prompted
  <2>5. toTerminal' \o saying' = toTerminal \o saying
    BY <1>2, <2>1, MoveInPipe
  <2>6. NoPassword(toTerminal')
    <3>1. NoPassword(toTerminal) /\ NoPassword(saying)
      BY <2>4 DEF Answered, Hidden, EchoIsAwaited
    <3>2. Head(saying) # "s" /\ Head(saying) \in Carried
      BY <1>2, <2>1, <3>1, NoPasswordTail, TailFacts
    <3> DEFINE h == Head(saying)
               t == Append(toTerminal, h)
    <3> HIDE DEF h
    <3>3. h # "s" /\ h \in Carried
      BY <3>2 DEF h
    <3>4. /\ Len(t) = Len(toTerminal) + 1 /\ Len(toTerminal) \in Nat
          /\ \A i \in 1 .. Len(toTerminal) : t[i] = toTerminal[i]
          /\ t[Len(toTerminal) + 1] = h
      BY <1>2, <3>3, AppendFacts
    <3> HIDE DEF t
    <3>5. NoPassword(t)
      BY <3>1, <3>3, <3>4 DEF NoPassword
    <3> QED
      BY <2>1, <3>5 DEF t, h
  <2>7. Answering(toTerminal \o saying)'
    BY <2>1, <2>4, <2>5 DEF Answered, Answering, ShowsMarker
  <2> QED
    BY <2>1, <2>2, <2>4, <2>6, <2>7 DEF Answered
<1>9. CASE Expire \/ Tick \/ UNCHANGED vars
  BY <1>3, <1>9 DEF Expire, Tick, vars, reflection, display, adapter
<1>10. CASE Stop \/ Closed
  BY <1>10 DEF Stop, Closed
<1> QED
  BY <1>4, <1>5, <1>6, <1>7, <1>8, <1>9, <1>10 DEF Next, Loop, Adapter

LEMMA NotOnScreen ==
  ASSUME TypeOK, PasswordStaysHidden, NEW x \in Keys \cup Shown, x # "s",
         screen' = Append(screen, x)
  PROVE  PasswordStaysHidden'
<1>1. screen \in Seq(Keys \cup Shown)
  BY Types
<1>2. /\ screen' \in Seq(Keys \cup Shown) /\ Len(screen') = Len(screen) + 1
      /\ Len(screen) \in Nat /\ screen'[Len(screen) + 1] = x
      /\ \A i \in 1 .. Len(screen) : screen'[i] = screen[i]
  BY <1>1, AppendFacts
<1>3. DOMAIN screen = 1 .. Len(screen) /\ DOMAIN screen' = 1 .. Len(screen')
  BY <1>1, <1>2, LenProperties
<1>4. \A i \in 1 .. Len(screen) : screen[i] # "s"
  BY <1>3 DEF PasswordStaysHidden, ToSet
<1>5. \A i \in 1 .. Len(screen') : screen'[i] # "s"
  BY <1>2, <1>4
<1> QED
  BY <1>3, <1>5 DEF PasswordStaysHidden, ToSet

LEMMA PasswordStep ==
  ASSUME HiddenInv, [Next]_vars
  PROVE  PasswordStaysHidden'
<1>1. TypeOK /\ EchoInTime /\ PasswordStaysHidden /\ (running => Hidden)
  BY DEF HiddenInv
<1>2. CASE UNCHANGED screen
  BY <1>1, <1>2 DEF PasswordStaysHidden
<1>3. CASE HandleByte
  <2> DEFINE d == Head(toTerminal)
  <2>1. /\ running /\ toTerminal # <<>>
        /\ IF IsReflection(d) THEN screen' = screen ELSE ShowReceived(d)
    BY <1>3 DEF HandleByte, display
  <2>2. d = "s" => IsReflection(d)
    BY <1>1, <2>1, PasswordIsReflection
  <2>3. d \in Carried
    BY <1>1, <1>3, Arrives
  <2> HIDE DEF d
  <2>4. CASE IsReflection(d)
    BY <1>2, <2>1, <2>4
  <2>5. CASE ~IsReflection(d)
    <3>1. d # "s"
      BY <2>2, <2>5
    <3>2. \/ screen' = screen \/ screen' = Append(screen, "NL")
          \/ d \notin {"CR", "LF"} /\ screen' = Append(screen, d)
      BY <2>1, <2>5 DEF ShowReceived
    <3>3. "NL" \in Keys \cup Shown /\ "NL" # "s"
          /\ (d \notin {"CR", "LF"} => d \in Keys \cup Shown)
      BY <2>3, SymbolFacts
    <3> QED
      BY <1>1, <1>2, <3>1, <3>2, <3>3, NotOnScreen
  <2> QED
    BY <2>4, <2>5
<1>4. CASE Send
  <2> DEFINE key == value[head]
  <2>1. /\ running /\ count > 0 /\ KeyPop
        /\ screen' = (IF ~hide /\ key # "CR" THEN Append(screen, key) ELSE screen)
    BY <1>4 DEF Send
  <2>2. Queued # <<>> /\ Head(Queued) = key /\ key \in Keys
    BY <1>1, <2>1, KeyTaken
  <2>3. key = "s" => hide
    <3>1. Queued \in Seq(Keys) /\ Len(Queued) = count
      BY <1>1, QueuedKeys
    <3>2. 1 \in 1 .. Len(Queued) /\ Head(Queued) = Queued[1]
      BY <2>2, <3>1, TailFacts
    <3>3. Queued[1] = "s" => hide
      BY <1>1, <2>1, <3>1, <3>2 DEF Hidden, QueuedHidden
    <3> QED
      BY <2>2, <3>2, <3>3
  <2> HIDE DEF key
  <2>4. CASE ~hide /\ key # "CR"
    <3>1. screen' = Append(screen, key) /\ key # "s" /\ key \in Keys \cup Shown
      BY <2>1, <2>2, <2>3, <2>4
    <3> QED
      BY <1>1, <3>1, NotOnScreen
  <2>5. CASE ~(~hide /\ key # "CR")
    BY <1>2, <2>1, <2>5
  <2> QED
    BY <2>4, <2>5
<1> QED
  BY <1>2, <1>3, <1>4 DEF Next, Loop, Adapter, Closed, Type, Stop, Expire, Tick,
     AdapterReads, AdapterSays, vars, display

LEMMA HiddenInit ==
  ASSUME Init
  PROVE  HiddenInv
<1>1. /\ TypeOK /\ pending = FALSE /\ toAdapter = <<>> /\ toTerminal = <<>>
      /\ saying = <<>> /\ screen = <<>> /\ typed = <<>> /\ count = 0
  BY TypeInit DEF Init
<1>2. EchoInTime
  BY <1>1 DEF EchoInTime
<1>3. PasswordStaysHidden
  BY <1>1 DEF PasswordStaysHidden, ToSet
<1>4. QueuedHidden
  BY <1>1 DEF QueuedHidden
<1>5. ExpectsTheLast
  BY <1>1 DEF ExpectsTheLast
<1>6. EchoIsAwaited
  BY <1>1 DEF EchoIsAwaited, NoPassword
<1>7. ~NothingAhead
  BY <1>1 DEF NothingAhead
<1> QED
  BY <1>1, <1>2, <1>3, <1>4, <1>5, <1>6, <1>7
     DEF HiddenInv, Hidden, EnterIsLast, Settled

LEMMA HiddenStep ==
  ASSUME ~LateReflections, ~TypesAhead, HiddenInv, [Next]_vars
  PROVE  HiddenInv'
<1>1. TypeOK /\ EchoInTime /\ (running => Hidden)
  BY DEF HiddenInv
<1>2. running' => running
  <2>1. running \in BOOLEAN
    BY <1>1, Types
  <2> QED
    BY <2>1 DEF Next, Loop, Adapter, Closed, Type, Stop, HandleByte, Expire, Send, Tick,
       AdapterReads, AdapterSays, vars
<1>3. ASSUME running'
      PROVE  Hidden'
  <2>1. running /\ Hidden
    BY <1>1, <1>2, <1>3
  <2> QED
    BY <1>1, <1>3, <2>1, QueuedHiddenStep, ExpectsStep, AwaitedStep, EnterStep,
       SettledStep DEF Hidden
<1> QED
  BY <1>1, <1>3, TypeStep, EchoStep, PasswordStep DEF HiddenInv

LEMMA HiddenInvariant ==
  ASSUME ~LateReflections, ~TypesAhead
  PROVE  Spec => []HiddenInv
BY HiddenInit, HiddenStep, PTL DEF Spec

-----------------------------------------------------------------------------
(* The adapter's line                                                       *)

LEMMA BackFinite ==
  ASSUME NEW keys, NEW i \in Int, NEW j \in Int
  PROVE  /\ IsFiniteSet({k \in i .. j : keys[k] = "BS"})
         /\ TakenBack(keys, i, j) \in Nat
<1>1. IsFiniteSet(i .. j)
  BY FS_Interval
<1>2. {k \in i .. j : keys[k] = "BS"} \in SUBSET (i .. j)
  OBVIOUS
<1>3. IsFiniteSet({k \in i .. j : keys[k] = "BS"})
  BY <1>1, <1>2, FS_Subset
<1> QED
  BY <1>3, FS_CardinalityType DEF TakenBack

LEMMA BackSame ==
  ASSUME NEW keys, NEW more, NEW i \in Int, NEW j \in Int,
         \A k \in i .. j : more[k] = keys[k]
  PROVE  TakenBack(more, i, j) = TakenBack(keys, i, j)
<1>1. {k \in i .. j : more[k] = "BS"} = {k \in i .. j : keys[k] = "BS"}
  OBVIOUS
<1> QED
  BY <1>1 DEF TakenBack

LEMMA BackNone ==
  ASSUME NEW keys, NEW i \in Int, NEW j \in Int, j < i
  PROVE  TakenBack(keys, i, j) = 0
<1>1. {k \in i .. j : keys[k] = "BS"} = {}
  OBVIOUS
<1> QED
  BY <1>1, FS_EmptySet DEF TakenBack

LEMMA BackSplit ==
  ASSUME NEW keys, NEW i \in Int, NEW m \in Int, NEW j \in Int, i <= m, m <= j + 1
  PROVE  TakenBack(keys, i, j) = TakenBack(keys, i, m - 1) + TakenBack(keys, m, j)
<1> DEFINE A == {k \in i .. m - 1 : keys[k] = "BS"}
           B == {k \in m .. j : keys[k] = "BS"}
           C == {k \in i .. j : keys[k] = "BS"}
<1>1. /\ IsFiniteSet(A) /\ Cardinality(A) \in Nat
      /\ IsFiniteSet(B) /\ Cardinality(B) \in Nat
  <2>1. m - 1 \in Int
    OBVIOUS
  <2> QED
    BY <2>1, BackFinite DEF TakenBack
<1>2. C = A \cup B /\ A \cap B = {}
  <2>1. \A k : k \in i .. j <=> k \in i .. m - 1 \/ k \in m .. j
    OBVIOUS
  <2>2. \A k : ~(k \in i .. m - 1 /\ k \in m .. j)
    OBVIOUS
  <2>3. \A k : k \in C <=> k \in A \/ k \in B
    BY <2>1
  <2>4. \A k : ~(k \in A /\ k \in B)
    BY <2>2
  <2> HIDE DEF A, B, C
  <2> QED
    BY <2>3, <2>4
<1> HIDE DEF A, B, C
<1>3. Cardinality(A \cup B) = Cardinality(A) + Cardinality(B) - Cardinality(A \cap B)
  BY <1>1, FS_Union
<1>4. Cardinality(A \cap B) = 0
  BY <1>2, FS_EmptySet
<1>5. Cardinality(C) = Cardinality(A) + Cardinality(B)
  BY <1>1, <1>2, <1>3, <1>4
<1> QED
  BY <1>5 DEF A, B, C, TakenBack

LEMMA BackLast ==
  ASSUME NEW keys, NEW j \in Int
  PROVE  TakenBack(keys, j, j) = IF keys[j] = "BS" THEN 1 ELSE 0
<1> DEFINE A == {k \in j .. j : keys[k] = "BS"}
<1>1. A = IF keys[j] = "BS" THEN {j} ELSE {}
  OBVIOUS
<1>2. Cardinality({j}) = 1 /\ Cardinality({}) = 0
  BY FS_Singleton, FS_EmptySet
<1> QED
  BY <1>1, <1>2 DEF TakenBack

LEMMA KeptFacts ==
  ASSUME NEW S, NEW keys \in Seq(S)
  PROVE  /\ Len(keys) \in Nat
         /\ \A i \in Kept(keys) :
              /\ i \in 1 .. Len(keys)
              /\ \A j \in i .. Len(keys) :
                   keys[j] # "CR" /\ 2 * TakenBack(keys, i, j) <= j - i
BY LenProperties DEF Kept

\* A key that is kept has more than itself behind it, or is the last kept.
LEMMA OthersStay ==
  ASSUME NEW S, NEW keys \in Seq(S), NEW i \in Kept(keys), NEW m \in Kept(keys), i < m
  PROVE  2 * TakenBack(keys, i, Len(keys)) <= (Len(keys) - i) - 1
<1> DEFINE n == Len(keys)
<1>1. /\ n \in Nat /\ i \in 1 .. n /\ m \in 1 .. n
      /\ \A j \in i .. n : 2 * TakenBack(keys, i, j) <= j - i
      /\ \A j \in m .. n : 2 * TakenBack(keys, m, j) <= j - m
  BY KeptFacts
<1> HIDE DEF n
<1>2. m - 1 \in i .. n /\ m - 1 \in Int /\ n \in m .. n /\ i \in Int /\ m \in Int /\ n \in Int /\ m <= n + 1
  BY <1>1
<1>3. TakenBack(keys, i, n) = TakenBack(keys, i, m - 1) + TakenBack(keys, m, n)
  BY <1>2, BackSplit
<1> DEFINE a == TakenBack(keys, i, m - 1)
           b == TakenBack(keys, m, n)
<1>4. a \in Nat /\ b \in Nat
  BY <1>2, BackFinite
<1>5. 2 * a <= (m - 1) - i /\ 2 * b <= n - m
  BY <1>1, <1>2
<1> HIDE DEF a, b
<1>6. 2 * (a + b) <= (n - i) - 1
  BY <1>1, <1>4, <1>5
<1> QED
  BY <1>3, <1>6 DEF a, b, n

LEMMA LastOf ==
  ASSUME NEW T \in SUBSET Nat, NEW n \in Nat, \A t \in T : t <= n, T # {}
  PROVE  \E t \in T : \A u \in T : u <= t
<1> DEFINE D == {t .. n : t \in T}
<1>1. D \subseteq FiniteSubsetsOf(Nat) /\ D # {}
  <2>1. \A t \in T : t .. n \in SUBSET Nat /\ IsFiniteSet(t .. n)
    BY FS_Interval
  <2> QED
    BY <2>1 DEF FiniteSubsetsOf
<1>2. IsWellFoundedOn(StrictSubsetOrdering(Nat), FiniteSubsetsOf(Nat))
  BY FS_StrictSubsetOrderingWellFounded
<1> HIDE DEF D
<1>3. PICK d \in D : \A e \in D : ~(<<e, d>> \in StrictSubsetOrdering(Nat))
  BY <1>1, <1>2, WFMin
<1>4. PICK t \in T : d = t .. n
  BY DEF D
<1>5. ASSUME NEW u \in T, t < u
      PROVE  FALSE
  <2>1. u .. n \in D
    BY DEF D
  <2>2. u .. n \subseteq t .. n /\ t \in t .. n /\ t \notin u .. n
    BY <1>5
  <2>3. u .. n \in SUBSET Nat /\ t .. n \in SUBSET Nat /\ u .. n # t .. n
    BY <2>2
  <2>4. <<u .. n, t .. n>> \in StrictSubsetOrdering(Nat)
    BY <2>2, <2>3 DEF StrictSubsetOrdering
  <2> QED
    BY <1>3, <1>4, <2>1, <2>4
<1> QED
  BY <1>5

\* One more key leaves what is before it as it was.
LEMMA KeptBefore ==
  ASSUME NEW S, NEW keys \in Seq(S), NEW key \in S, NEW i \in 1 .. Len(keys)
  PROVE  i \in Kept(Append(keys, key)) <=>
           /\ i \in Kept(keys) /\ key # "CR"
           /\ 2 * (TakenBack(keys, i, Len(keys)) + (IF key = "BS" THEN 1 ELSE 0))
                <= (Len(keys) + 1) - i
<1> DEFINE n == Len(keys)
           more == Append(keys, key)
           last == IF key = "BS" THEN 1 ELSE 0
<1>1. /\ Len(more) = n + 1 /\ n \in Nat /\ more[n + 1] = key
      /\ \A k \in 1 .. n : more[k] = keys[k]
  BY AppendFacts
<1> HIDE DEF more, n
<1>2. i \in 1 .. n /\ i \in Int /\ n \in Int /\ n + 1 \in Int
  BY <1>1 DEF n
<1>3. \A j \in i .. n : TakenBack(more, i, j) = TakenBack(keys, i, j) /\ more[j] = keys[j]
  <2> SUFFICES ASSUME NEW j \in i .. n
               PROVE  TakenBack(more, i, j) = TakenBack(keys, i, j) /\ more[j] = keys[j]
    OBVIOUS
  <2>1. \A k \in i .. j : more[k] = keys[k]
    BY <1>1, <1>2
  <2>2. j \in Int /\ j \in 1 .. n
    BY <1>2
  <2> QED
    BY <1>1, <1>2, <2>1, <2>2, BackSame
<1>4. TakenBack(more, i, n + 1) = TakenBack(keys, i, n) + last
  <2>1. i <= n + 1 /\ n + 1 <= (n + 1) + 1 /\ (n + 1) - 1 = n /\ n \in i .. n
    BY <1>2
  <2>2. TakenBack(more, i, n + 1)
          = TakenBack(more, i, (n + 1) - 1) + TakenBack(more, n + 1, n + 1)
    BY <1>2, <2>1, BackSplit
  <2>3. TakenBack(more, n + 1, n + 1) = last
    BY <1>1, <1>2, BackLast
  <2> QED
    BY <1>3, <2>1, <2>2, <2>3
<1> HIDE DEF last
<1>5. \A j : j \in i .. n + 1 <=> j \in i .. n \/ j = n + 1
  BY <1>2
<1>6. i \in Kept(more) <=>
        \A j \in i .. n + 1 : more[j] # "CR" /\ 2 * TakenBack(more, i, j) <= j - i
  BY <1>1, <1>2 DEF Kept
<1>7. i \in Kept(keys) <=>
        \A j \in i .. n : keys[j] # "CR" /\ 2 * TakenBack(keys, i, j) <= j - i
  BY <1>2 DEF Kept, n
<1>8. i \in Kept(more) <=>
        /\ \A j \in i .. n : more[j] # "CR" /\ 2 * TakenBack(more, i, j) <= j - i
        /\ key # "CR" /\ 2 * TakenBack(more, i, n + 1) <= (n + 1) - i
  BY <1>1, <1>5, <1>6
<1>9. i \in Kept(more) <=>
        /\ i \in Kept(keys)
        /\ key # "CR" /\ 2 * (TakenBack(keys, i, n) + last) <= (n + 1) - i
  BY <1>3, <1>4, <1>7, <1>8
<1> QED
  BY <1>9 DEF more, n, last

LEMMA KeptLast ==
  ASSUME NEW S, NEW keys \in Seq(S), NEW key \in S
  PROVE  /\ Len(keys) + 1 \in Kept(Append(keys, key)) <=> key \notin {"CR", "BS"}
         /\ \A i \in Kept(Append(keys, key)) :
              i \in 1 .. Len(keys) \/ i = Len(keys) + 1
<1> DEFINE n == Len(keys)
           more == Append(keys, key)
<1>1. Len(more) = n + 1 /\ n \in Nat /\ more[n + 1] = key
  BY AppendFacts
<1> HIDE DEF more, n
<1>2. n + 1 \in Int /\ n + 1 \in 1 .. n + 1 /\ \A j : j \in n + 1 .. n + 1 <=> j = n + 1
  BY <1>1
<1>3. n + 1 \in Kept(more) <=>
        more[n + 1] # "CR" /\ 2 * TakenBack(more, n + 1, n + 1) <= (n + 1) - (n + 1)
  BY <1>1, <1>2 DEF Kept
<1>4. TakenBack(more, n + 1, n + 1) = IF key = "BS" THEN 1 ELSE 0
  BY <1>1, <1>2, BackLast
<1>5. n + 1 \in Kept(more) <=> key \notin {"CR", "BS"}
  BY <1>1, <1>3, <1>4
<1>6. \A i \in Kept(more) : i \in 1 .. n \/ i = n + 1
  BY <1>1 DEF Kept
<1> QED
  BY <1>5, <1>6 DEF more, n

\* The last key that is kept has as many others as backspaces behind it.
LEMMA LastGoes ==
  ASSUME NEW S, NEW keys \in Seq(S), NEW i \in Kept(keys),
         \A k \in Kept(keys) : k <= i
  PROVE  2 * TakenBack(keys, i, Len(keys)) > (Len(keys) - i) - 1
<1> DEFINE n == Len(keys)
           Even == {j \in i .. n : 2 * TakenBack(keys, i, j) = j - i}
<1>1. /\ n \in Nat /\ i \in 1 .. n /\ i \in Int
      /\ \A j \in i .. n : keys[j] # "CR" /\ 2 * TakenBack(keys, i, j) <= j - i
  BY KeptFacts
<1> HIDE DEF n, Even
<1>2. \A j \in i .. n : TakenBack(keys, i, j) \in Nat /\ j \in Nat
  <2>1. \A j \in i .. n : j \in Int /\ j \in Nat
    BY <1>1
  <2> QED
    BY <1>1, <2>1, BackFinite
<1> USE DEF Even
<1>3. i \in Even
  <2>1. i \in i .. n /\ i - i = 0
    BY <1>1
  <2>2. 2 * TakenBack(keys, i, i) <= i - i /\ TakenBack(keys, i, i) \in Nat
    BY <1>1, <1>2, <2>1
  <2>3. 2 * TakenBack(keys, i, i) = i - i
    BY <2>1, <2>2
  <2> QED
    BY <2>1, <2>3
<1>4. Even \in SUBSET Nat /\ Even # {} /\ \A j \in Even : j <= n
  BY <1>1, <1>2, <1>3
<1>5. \A j \in i .. n : j \notin Even => 2 * TakenBack(keys, i, j) < j - i
  BY <1>1, <1>2
<1>6. \A j \in Even : j \in i .. n /\ 2 * TakenBack(keys, i, j) = j - i
  OBVIOUS
<1> HIDE DEF Even
<1>7. PICK m \in Even : \A j \in Even : j <= m
  BY <1>1, <1>4, LastOf
<1>8. m \in i .. n /\ m \in Int /\ 2 * TakenBack(keys, i, m) = m - i
  BY <1>1, <1>6
<1> SUFFICES ASSUME 2 * TakenBack(keys, i, n) <= (n - i) - 1
             PROVE  FALSE
  BY <1>1, <1>2 DEF n
<1>9. m < n
  BY <1>1, <1>8
<1>10. ASSUME NEW j \in m + 1 .. n
       PROVE  keys[j] # "CR" /\ 2 * TakenBack(keys, m + 1, j) <= j - (m + 1)
  <2>1. j \in i .. n /\ j \in Int /\ m + 1 \in Int /\ i <= m + 1 /\ m + 1 <= j + 1
        /\ (m + 1) - 1 = m /\ j > m
    BY <1>1, <1>8
  <2>2. TakenBack(keys, i, j) = TakenBack(keys, i, (m + 1) - 1) + TakenBack(keys, m + 1, j)
    BY <1>1, <2>1, BackSplit
  <2>3. j \notin Even
    BY <1>7, <2>1, <1>8, <1>4
  <2>4. 2 * TakenBack(keys, i, j) < j - i /\ keys[j] # "CR"
    BY <1>1, <1>5, <2>1, <2>3
  <2> DEFINE a == TakenBack(keys, i, m)
             b == TakenBack(keys, m + 1, j)
  <2>5. a \in Nat /\ b \in Nat
    BY <1>2, <1>8, <2>1, BackFinite
  <2>6. 2 * (a + b) < j - i /\ 2 * a = m - i
    BY <1>8, <2>1, <2>2, <2>4
  <2> HIDE DEF a, b
  <2>7. 2 * b <= j - (m + 1)
    BY <1>1, <1>8, <2>1, <2>5, <2>6
  <2> QED
    BY <2>4, <2>7 DEF b
<1>11. m + 1 \in 1 .. n
  BY <1>1, <1>8, <1>9
<1>12. m + 1 \in Kept(keys)
  BY <1>10, <1>11 DEF Kept, n
<1>13. m + 1 <= i
  BY <1>12
<1> QED
  BY <1>1, <1>8, <1>13

\* The line and the keys it is left of.
RemainderAt(at, text, keys) ==
  /\ at \in [1 .. Len(text) -> Kept(keys)]
  /\ \A i, j \in 1 .. Len(text) : i < j => at[i] < at[j]
  /\ \A k \in Kept(keys) : \E i \in 1 .. Len(text) : at[i] = k
  /\ \A i \in 1 .. Len(text) : text[i] = keys[at[i]]

LEMMA RemainderIs ==
  ASSUME NEW text, NEW keys
  PROVE  IsRemainder(text, keys) <=> \E at : RemainderAt(at, text, keys)
BY DEF IsRemainder, RemainderAt

LEMMA RemainderLength ==
  ASSUME NEW S, NEW keys \in Seq(S), NEW text \in Seq(S), NEW at,
         RemainderAt(at, text, keys)
  PROVE  Cardinality(Kept(keys)) = Len(text)
<1> DEFINE K == Kept(keys)
           n == Len(text)
<1>1. n \in Nat
  BY LenProperties
<1>2. \A k \in K : k \in Nat
  BY KeptFacts
<1>3. /\ at \in [1 .. n -> K]
      /\ \A i, j \in 1 .. n : i < j => at[i] < at[j]
      /\ \A k \in K : \E i \in 1 .. n : at[i] = k
  BY DEF RemainderAt
<1> HIDE DEF K, n
<1>4. ASSUME NEW i \in 1 .. n, NEW j \in 1 .. n, at[i] = at[j]
      PROVE  i = j
  <2>1. at[i] \in Nat /\ at[j] \in Nat
    BY <1>2, <1>3
  <2>2. i < j \/ j < i \/ i = j
    BY <1>1
  <2>3. ~(at[i] < at[j]) /\ ~(at[j] < at[i])
    BY <1>4, <2>1
  <2> QED
    BY <1>3, <2>2, <2>3
<1>5. at \in Bijection(1 .. n, K)
  BY <1>3, <1>4, Fun_IsBij
<1>6. IsFiniteSet(1 .. n) /\ Cardinality(1 .. n) = n
  <2>1. Cardinality(1 .. n) = (IF 1 > n THEN 0 ELSE n - 1 + 1) /\ IsFiniteSet(1 .. n)
    BY <1>1, FS_Interval
  <2> QED
    BY <1>1, <2>1
<1>7. Cardinality(K) = Cardinality(1 .. n)
  BY <1>5, <1>6, Fun_ExistsBij, FS_Bijection
<1> QED
  BY <1>6, <1>7 DEF K, n

\* Enter takes all,
LEMMA RemainderEnter ==
  ASSUME NEW S, NEW keys \in Seq(S), "CR" \in S
  PROVE  IsRemainder(<<>>, Append(keys, "CR"))
<1> DEFINE K == Kept(Append(keys, "CR"))
           at == [i \in 1 .. Len(<<>>) |-> 0]
<1>1. \A k \in K : FALSE
  <2> SUFFICES ASSUME NEW k \in K
               PROVE  FALSE
    OBVIOUS
  <2>1. k \in 1 .. Len(keys) \/ k = Len(keys) + 1
    BY KeptLast
  <2>2. CASE k \in 1 .. Len(keys)
    BY <2>2, KeptBefore
  <2>3. CASE k = Len(keys) + 1
    BY <2>3, KeptLast
  <2> QED
    BY <2>1, <2>2, <2>3
<1> HIDE DEF K
<1>2. \A i : i \notin 1 .. Len(<<>>)
  OBVIOUS
<1>3. at \in [1 .. Len(<<>>) -> K]
  BY <1>2
<1> HIDE DEF at
<1>4. RemainderAt(at, <<>>, Append(keys, "CR"))
  BY <1>1, <1>2, <1>3 DEF RemainderAt, K
<1> QED
  BY <1>4, RemainderIs

\* another key is added,
LEMMA RemainderAdded ==
  ASSUME NEW S, NEW keys \in Seq(S), NEW text \in Seq(S), NEW key \in S,
         key \notin {"CR", "BS"}, IsRemainder(text, keys)
  PROVE  /\ IsRemainder(Append(text, key), Append(keys, key))
         /\ Cardinality(Kept(Append(keys, key))) = Len(text) + 1
<1> DEFINE n == Len(keys)
           l == Len(text)
           K == Kept(keys)
           more == Append(keys, key)
           longer == Append(text, key)
           M == Kept(more)
<1>1. PICK at : RemainderAt(at, text, keys)
  BY RemainderIs
<1> DEFINE to == [i \in 1 .. l + 1 |-> IF i <= l THEN at[i] ELSE n + 1]
<1>2. /\ more \in Seq(S) /\ more[n + 1] = key /\ n \in Nat
      /\ \A i \in 1 .. n : more[i] = keys[i]
  BY AppendFacts
<1>3. /\ longer \in Seq(S) /\ Len(longer) = l + 1 /\ longer[l + 1] = key /\ l \in Nat
      /\ \A i \in 1 .. l : longer[i] = text[i]
  BY AppendFacts
<1>4. /\ \A k \in K : k \in 1 .. n
      /\ \A k \in K : 2 * TakenBack(keys, k, n) <= n - k /\ TakenBack(keys, k, n) \in Nat
  <2>1. \A k \in K : /\ k \in 1 .. n
                     /\ \A j \in k .. n : 2 * TakenBack(keys, k, j) <= j - k
    BY KeptFacts
  <2> HIDE DEF K, n
  <2>2. \A k \in K : n \in k .. n /\ k \in Int /\ n \in Int
    BY <1>2, <2>1
  <2> QED
    BY <2>1, <2>2, BackFinite
<1>5. \A k \in 1 .. n : k \in M <=> k \in K
  <2> SUFFICES ASSUME NEW k \in 1 .. n
               PROVE  k \in M <=> k \in K
    OBVIOUS
  <2>1. k \in M <=> k \in K /\ 2 * (TakenBack(keys, k, n) + 0) <= (n + 1) - k
    BY KeptBefore
  <2> HIDE DEF K, M, n
  <2> QED
    BY <1>2, <1>4, <2>1
<1>6. n + 1 \in M /\ \A k \in M : k \in 1 .. n \/ k = n + 1
  BY KeptLast
<1>7. /\ at \in [1 .. l -> K]
      /\ \A i, j \in 1 .. l : i < j => at[i] < at[j]
      /\ \A k \in K : \E i \in 1 .. l : at[i] = k
      /\ \A i \in 1 .. l : text[i] = keys[at[i]]
  BY <1>1 DEF RemainderAt
<1> HIDE DEF n, l, K, M, more, longer
<1>8. \A i \in 1 .. l + 1 : i \in 1 .. l \/ i = l + 1
  BY <1>3
<1>9. /\ \A i \in 1 .. l : to[i] = at[i] /\ at[i] \in K /\ at[i] \in 1 .. n
      /\ to[l + 1] = n + 1
  BY <1>3, <1>4, <1>7
<1>10. to \in [1 .. l + 1 -> M]
  BY <1>4, <1>5, <1>6, <1>7, <1>8, <1>9
<1> HIDE DEF to
<1>11. ASSUME NEW i \in 1 .. l + 1, NEW j \in 1 .. l + 1, i < j
       PROVE  to[i] < to[j]
  <2>1. i \in 1 .. l
    BY <1>3, <1>11
  <2>2. CASE j \in 1 .. l
    BY <1>7, <1>9, <1>11, <2>1, <2>2
  <2>3. CASE j = l + 1
    BY <1>2, <1>9, <2>1, <2>3
  <2> QED
    BY <1>8, <2>2, <2>3
<1>12. ASSUME NEW k \in M
       PROVE  \E i \in 1 .. l + 1 : to[i] = k
  <2>1. CASE k \in 1 .. n
    <3>1. PICK i \in 1 .. l : at[i] = k
      BY <1>5, <1>7, <2>1
    <3>2. i \in 1 .. l + 1
      BY <1>3
    <3> QED
      BY <1>9, <3>1, <3>2
  <2>2. CASE k = n + 1
    <3>1. l + 1 \in 1 .. l + 1
      BY <1>3
    <3> QED
      BY <1>9, <2>2, <3>1
  <2> QED
    BY <1>6, <2>1, <2>2
<1>13. ASSUME NEW i \in 1 .. l + 1
       PROVE  longer[i] = more[to[i]]
  <2>1. CASE i \in 1 .. l
    <3>1. to[i] = at[i] /\ at[i] \in 1 .. n
      BY <1>9, <2>1
    <3>2. longer[i] = text[i] /\ text[i] = keys[at[i]]
      BY <1>3, <1>7, <2>1
    <3>3. more[at[i]] = keys[at[i]]
      BY <1>2, <3>1
    <3> QED
      BY <3>1, <3>2, <3>3
  <2>2. CASE i = l + 1
    BY <1>2, <1>3, <1>9, <2>2
  <2> QED
    BY <1>8, <2>1, <2>2
<1>14. RemainderAt(to, longer, more)
  BY <1>3, <1>10, <1>11, <1>12, <1>13 DEF RemainderAt, M
<1>15. Cardinality(Kept(more)) = l + 1
  BY <1>2, <1>3, <1>14, RemainderLength
<1> QED
  BY <1>14, <1>15, RemainderIs DEF more, longer, l

\* and a backspace takes back the last that is left.
LEMMA RemainderBack ==
  ASSUME NEW S, NEW keys \in Seq(S), NEW text \in Seq(S), "BS" \in S,
         IsRemainder(text, keys), NEW shorter \in Seq(S),
         Len(shorter) = IF Len(text) = 0 THEN 0 ELSE Len(text) - 1,
         \A i \in 1 .. Len(shorter) : shorter[i] = text[i]
  PROVE  IsRemainder(shorter, Append(keys, "BS"))
<1> DEFINE n == Len(keys)
           l == Len(text)
           h == Len(shorter)
           K == Kept(keys)
           more == Append(keys, "BS")
           M == Kept(more)
<1>1. PICK at : RemainderAt(at, text, keys)
  BY RemainderIs
<1> DEFINE to == [i \in 1 .. h |-> at[i]]
<1>2. more \in Seq(S) /\ n \in Nat /\ \A i \in 1 .. n : more[i] = keys[i]
  BY AppendFacts
<1>3. l \in Nat /\ h \in Nat /\ h = IF l = 0 THEN 0 ELSE l - 1
  BY LenProperties
<1>4. \A k \in K : k \in 1 .. n /\ k \in Nat /\ k \in Int /\ TakenBack(keys, k, n) \in Nat
  <2>1. \A k \in K : k \in 1 .. n
    BY KeptFacts
  <2> HIDE DEF K, n
  <2>2. \A k \in K : k \in Int /\ n \in Int /\ k \in Nat
    BY <1>2, <2>1
  <2> QED
    BY <2>1, <2>2, BackFinite
<1>5. \A k \in M : k \in 1 .. n
  BY KeptLast
<1>6. \A k \in 1 .. n :
        k \in M <=> k \in K /\ 2 * (TakenBack(keys, k, n) + 1) <= (n + 1) - k
  <2> SUFFICES ASSUME NEW k \in 1 .. n
               PROVE  k \in M <=>
                        k \in K /\ 2 * (TakenBack(keys, k, n) + 1) <= (n + 1) - k
    OBVIOUS
  <2> QED
    BY KeptBefore
<1>7. /\ at \in [1 .. l -> K]
      /\ \A i, j \in 1 .. l : i < j => at[i] < at[j]
      /\ \A k \in K : \E i \in 1 .. l : at[i] = k
      /\ \A i \in 1 .. l : text[i] = keys[at[i]]
  BY <1>1 DEF RemainderAt
<1>8. \A i, k \in K : i < k => 2 * TakenBack(keys, i, n) <= (n - i) - 1
  BY OthersStay
<1>9. \A i \in K : (\A k \in K : k <= i) => 2 * TakenBack(keys, i, n) > (n - i) - 1
  BY LastGoes
<1>10. \A i \in 1 .. h : shorter[i] = text[i]
  OBVIOUS
<1> HIDE DEF n, l, h, K, M, more
<1>11. \A i \in 1 .. h : i \in 1 .. l /\ i < l /\ l \in 1 .. l
  BY <1>3
<1>12. ASSUME NEW i \in 1 .. h
       PROVE  at[i] \in M
  <2>1. at[i] \in K /\ at[l] \in K /\ at[i] < at[l]
    BY <1>7, <1>11
  <2>2. 2 * TakenBack(keys, at[i], n) <= (n - at[i]) - 1
    BY <1>8, <2>1
  <2> DEFINE k == at[i]
  <2>3. /\ k \in 1 .. n /\ k \in Int /\ TakenBack(keys, k, n) \in Nat
        /\ 2 * TakenBack(keys, k, n) <= (n - k) - 1 /\ k \in K
    BY <1>4, <2>1, <2>2
  <2> HIDE DEF k
  <2>4. 2 * (TakenBack(keys, k, n) + 1) <= (n + 1) - k
    BY <1>2, <2>3
  <2>5. k \in M
    BY <1>6, <2>3, <2>4
  <2> QED
    BY <2>5 DEF k
<1>13. ASSUME NEW k \in M
       PROVE  \E i \in 1 .. h : at[i] = k
  <2>1. /\ k \in 1 .. n /\ k \in K /\ k \in Int /\ TakenBack(keys, k, n) \in Nat
        /\ 2 * (TakenBack(keys, k, n) + 1) <= (n + 1) - k
    BY <1>4, <1>5, <1>6
  <2>2. 2 * TakenBack(keys, k, n) <= (n - k) - 1
    BY <1>2, <2>1
  <2>3. ~(2 * TakenBack(keys, k, n) > (n - k) - 1)
    BY <1>2, <2>1, <2>2
  <2>4. PICK j \in K : ~(j <= k)
    BY <1>9, <2>1, <2>3
  <2>5. PICK a \in 1 .. l : at[a] = k
    BY <1>7, <2>1
  <2>6. PICK b \in 1 .. l : at[b] = j
    BY <1>7, <2>4
  <2>7. at[a] < at[b]
    BY <1>4, <2>1, <2>4, <2>5, <2>6
  <2>8. ~(b < a) /\ a # b
    <3>1. at[a] \in Nat /\ at[b] \in Nat
      BY <1>4, <2>1, <2>5, <2>6
    <3>2. b < a => at[b] < at[a]
      BY <1>7
    <3> QED
      BY <2>7, <3>1, <3>2
  <2>9. a \in 1 .. h
    BY <1>3, <2>8
  <2> QED
    BY <2>5, <2>9
<1>14. to \in [1 .. h -> M] /\ \A i \in 1 .. h : to[i] = at[i]
  BY <1>12
<1> HIDE DEF to
<1>15. \A i, j \in 1 .. h : i < j => to[i] < to[j]
  BY <1>7, <1>11, <1>14
<1>16. \A k \in M : \E i \in 1 .. h : to[i] = k
  BY <1>13, <1>14
<1>17. ASSUME NEW i \in 1 .. h
       PROVE  shorter[i] = more[to[i]]
  <2>1. to[i] = at[i] /\ i \in 1 .. l /\ at[i] \in K
    BY <1>7, <1>11, <1>14
  <2>2. at[i] \in 1 .. n
    BY <1>4, <2>1
  <2>3. shorter[i] = text[i] /\ text[i] = keys[at[i]]
    BY <1>7, <1>10, <2>1
  <2>4. more[at[i]] = keys[at[i]]
    BY <1>2, <2>2
  <2> QED
    BY <2>1, <2>3, <2>4
<1>18. RemainderAt(to, shorter, more)
  BY <1>14, <1>15, <1>16, <1>17 DEF RemainderAt, M, h
<1> QED
  BY <1>18, RemainderIs DEF more

LEMMA Beginning ==
  ASSUME NEW S, NEW s \in Seq(S), NEW m \in Nat, m <= Len(s)
  PROVE  /\ SubSeq(s, 1, m) \in Seq(S) /\ Len(SubSeq(s, 1, m)) = m
         /\ \A i \in 1 .. m : SubSeq(s, 1, m)[i] = s[i]
<1> DEFINE p == SubSeq(s, 1, m)
<1>1. Len(s) \in Nat
  BY LenProperties
<1>2. \A i \in 1 .. m : s[i] \in S
  BY <1>1
<1>3. /\ p \in Seq(S)
      /\ Len(p) = IF 1 <= m THEN (m - 1) + 1 ELSE 0
      /\ \A i \in 1 .. (m - 1) + 1 : p[i] = s[(1 + i) - 1]
  BY <1>2, SubSeqProperties
<1> HIDE DEF p
<1>4. Len(p) = m /\ \A i \in 1 .. m : p[i] = s[i]
  BY <1>3
<1> QED
  BY <1>3, <1>4 DEF p

LEMMA SameBeginning ==
  ASSUME NEW S, NEW s \in Seq(S), NEW t \in Seq(S), NEW m \in Nat,
         m <= Len(s), m <= Len(t), \A i \in 1 .. m : s[i] = t[i]
  PROVE  SubSeq(s, 1, m) = SubSeq(t, 1, m)
<1> DEFINE p == SubSeq(s, 1, m)
           q == SubSeq(t, 1, m)
<1>1. p \in Seq(S) /\ Len(p) = m /\ \A i \in 1 .. m : p[i] = s[i]
  BY Beginning
<1>2. q \in Seq(S) /\ Len(q) = m /\ \A i \in 1 .. m : q[i] = t[i]
  BY Beginning
<1> HIDE DEF p, q
<1>3. p = q
  BY <1>1, <1>2, SeqEqual
<1> QED
  BY <1>3 DEF p, q

\* What has fitted with one more key has fitted before.
LEMMA FitsBefore ==
  ASSUME NEW S, NEW keys \in Seq(S), NEW key \in S, Fits(Append(keys, key))
  PROVE  Fits(keys) /\ Cardinality(Kept(Append(keys, key))) < LineCapacity
<1> DEFINE n == Len(keys)
           more == Append(keys, key)
<1>1. /\ more \in Seq(S) /\ Len(more) = n + 1 /\ n \in Nat
      /\ \A i \in 1 .. n : more[i] = keys[i]
  BY AppendFacts
<1>2. \A m \in 0 .. Len(more) : Cardinality(Kept(SubSeq(more, 1, m))) < LineCapacity
  BY DEF Fits
<1> HIDE DEF more, n
<1>3. ASSUME NEW m \in 0 .. n
      PROVE  Cardinality(Kept(SubSeq(keys, 1, m))) < LineCapacity
  <2>1. m \in Nat /\ m <= n /\ m <= Len(more) /\ \A i \in 1 .. m : more[i] = keys[i]
    BY <1>1
  <2>2. SubSeq(more, 1, m) = SubSeq(keys, 1, m)
    BY <1>1, <2>1, SameBeginning DEF n
  <2>3. m \in 0 .. Len(more)
    BY <1>1
  <2> QED
    BY <1>2, <2>2, <2>3
<1>4. SubSeq(more, 1, n + 1) = more
  <2> DEFINE p == SubSeq(more, 1, n + 1)
  <2>1. n + 1 \in Nat /\ n + 1 <= Len(more)
    BY <1>1
  <2>2. /\ p \in Seq(S) /\ Len(p) = n + 1
        /\ \A i \in 1 .. n + 1 : p[i] = more[i]
    BY <1>1, <2>1, Beginning
  <2> HIDE DEF p
  <2>3. p = more
    BY <1>1, <2>2, SeqEqual
  <2> QED
    BY <2>3 DEF p
<1>5. n + 1 \in 0 .. Len(more)
  BY <1>1
<1>6. Cardinality(Kept(more)) < LineCapacity
  BY <1>2, <1>4, <1>5
<1> QED
  BY <1>3, <1>6 DEF Fits, n, more

\* The beginning of what was typed that the adapter has read.
LEMMA ArrivedFacts ==
  ASSUME OrderInv, running
  PROVE  /\ Len(typed) - Len(UnderWay) \in Nat /\ Len(typed) - Len(UnderWay) <= Len(typed)
         /\ typed \in Seq(Keys) /\ UnderWay \in Seq(Keys) /\ Arrived \in Seq(Keys)
         /\ Len(typed) \in Nat /\ Len(UnderWay) \in Nat
<1>1. /\ typed \in Seq(Keys) /\ UnderWay \in Seq(Keys)
      /\ Len(UnderWay) <= Len(typed)
  BY Types, Pipe DEF OrderInv, EndsIn
<1>2. Len(typed) \in Nat /\ Len(UnderWay) \in Nat
  BY <1>1, LenProperties
<1>3. Len(typed) - Len(UnderWay) \in Nat /\ Len(typed) - Len(UnderWay) <= Len(typed)
  BY <1>1, <1>2
<1> QED
  BY <1>1, <1>2, <1>3, Beginning DEF Arrived

LEMMA ArrivedTyped ==
  ASSUME OrderInv, running, NEW key \in Keys, Type(key), ~Full
  PROVE  Arrived' = Arrived
<1> DEFINE m == Len(typed) - Len(UnderWay)
           t == Append(typed, key)
           q == Append(UnderWay, key)
<1>1. /\ m \in Nat /\ m <= Len(typed) /\ typed \in Seq(Keys) /\ UnderWay \in Seq(Keys)
      /\ Len(typed) \in Nat /\ Len(UnderWay) \in Nat
  BY ArrivedFacts
<1>2. /\ t \in Seq(Keys) /\ Len(t) = Len(typed) + 1
      /\ \A i \in 1 .. Len(typed) : t[i] = typed[i]
  BY <1>1, AppendFacts
<1>3. Len(q) = Len(UnderWay) + 1
  BY <1>1, AppendFacts
<1>4. typed' = t /\ UnderWay' = q
  BY TypedUnderWay DEF OrderInv
<1> HIDE DEF t, q
<1>5. Len(t) - Len(q) = m
  BY <1>1, <1>2, <1>3
<1>6. Arrived' = SubSeq(t, 1, Len(t) - Len(q))
  BY <1>4 DEF Arrived
<1>7. Arrived = SubSeq(typed, 1, m)
  BY DEF Arrived
<1>8. m <= Len(t) /\ \A i \in 1 .. m : typed[i] = t[i]
  BY <1>1, <1>2
<1> HIDE DEF m
<1>9. SubSeq(typed, 1, m) = SubSeq(t, 1, m)
  BY <1>1, <1>2, <1>8, SameBeginning
<1> QED
  BY <1>5, <1>6, <1>7, <1>9

LEMMA ArrivedRead ==
  ASSUME OrderInv, AdapterReads
  PROVE  Arrived' = Append(Arrived, Head(toAdapter)) /\ Head(toAdapter) \in Keys
<1> DEFINE m == Len(typed) - Len(UnderWay)
           p == Arrived
           t == SubSeq(typed, 1, m + 1)
           key == Head(UnderWay)
<1>1. running /\ typed' = typed
  BY DEF AdapterReads
<1>2. /\ m \in Nat /\ m <= Len(typed) /\ typed \in Seq(Keys) /\ UnderWay \in Seq(Keys)
      /\ Len(typed) \in Nat /\ Len(UnderWay) \in Nat
  BY <1>1, ArrivedFacts
<1>3. UnderWay # <<>> /\ Head(toAdapter) = key /\ UnderWay' = Tail(UnderWay)
  BY ReadUnderWay DEF OrderInv
<1>4. /\ key = UnderWay[1] /\ key \in Keys /\ 1 \in 1 .. Len(UnderWay)
      /\ Len(Tail(UnderWay)) = Len(UnderWay) - 1
  BY <1>2, <1>3, TailFacts
<1>5. Arrived' = SubSeq(typed, 1, Len(typed) - Len(Tail(UnderWay)))
  BY <1>1, <1>3 DEF Arrived
<1>6. Len(typed) - Len(Tail(UnderWay)) = m + 1 /\ m + 1 <= Len(typed) /\ m + 1 \in Nat
  <2> DEFINE a == Len(typed)
             b == Len(UnderWay)
             c == Len(Tail(UnderWay))
  <2>1. a \in Nat /\ b \in Nat /\ c = b - 1 /\ b >= 1 /\ b <= a
    BY <1>2, <1>4
  <2> HIDE DEF a, b, c
  <2>2. a - c = (a - b) + 1 /\ (a - b) + 1 <= a /\ (a - b) + 1 \in Nat
    BY <2>1
  <2> QED
    BY <2>2 DEF a, b, c
<1>7. key = typed[m + 1]
  BY <1>1, <1>4 DEF OrderInv, EndsIn
<1>8. p = SubSeq(typed, 1, m)
  BY DEF Arrived
<1> HIDE DEF m, key, p, t
<1>9. p \in Seq(Keys) /\ Len(p) = m /\ \A i \in 1 .. m : p[i] = typed[i]
  BY <1>2, <1>8, Beginning
<1>10. t \in Seq(Keys) /\ Len(t) = m + 1 /\ \A i \in 1 .. m + 1 : t[i] = typed[i]
  BY <1>2, <1>6, Beginning DEF t
<1>11. /\ \A i \in 1 .. Len(p) : t[i] = p[i]
       /\ t[Len(p) + 1] = key /\ Len(t) = Len(p) + 1
  BY <1>2, <1>7, <1>9, <1>10
<1>12. Append(p, key) = t
  BY <1>4, <1>9, <1>10, <1>11, IsAppend
<1> QED
  BY <1>3, <1>4, <1>5, <1>6, <1>12 DEF p, t

\* What the adapter makes of a key is what the user means by it.
LEMMA EditedAsTyped ==
  ASSUME TypeOK, NEW keys \in Seq(Keys), NEW key \in Keys,
         Fits(Append(keys, key)), IsRemainder(line, keys)
  PROVE  IsRemainder(Edited(key), Append(keys, key))
<1>1. /\ line \in Seq(Keys) /\ Len(line) \in Nat /\ LineCapacity \in Nat
  BY Types, Sizes DEF Room
<1>2. CASE key = "CR"
  <2>1. Edited(key) = <<>>
    BY <1>2 DEF Edited
  <2> QED
    BY <1>2, <2>1, RemainderEnter
<1>3. CASE key = "BS"
  <2> DEFINE e == Edited(key)
  <2>1. e = IF line = <<>> THEN line ELSE Front(line)
    BY <1>3 DEF Edited
  <2>2. CASE line = <<>>
    <3>1. e = line /\ Len(line) = 0
      BY <2>1, <2>2
    <3> HIDE DEF e
    <3>2. IsRemainder(line, Append(keys, "BS"))
      BY <1>1, <1>3, <3>1, RemainderBack
    <3> QED
      BY <1>3, <3>1, <3>2 DEF e
  <2>3. CASE line # <<>>
    <3>1. e = SubSeq(line, 1, Len(line) - 1) /\ Len(line) > 0
      BY <1>1, <2>1, <2>3 DEF Front
    <3>2. Len(line) - 1 \in Nat /\ Len(line) - 1 <= Len(line)
      BY <1>1, <3>1
    <3> HIDE DEF e
    <3>3. e \in Seq(Keys) /\ Len(e) = Len(line) - 1 /\ \A i \in 1 .. Len(e) : e[i] = line[i]
      BY <1>1, <3>1, <3>2, Beginning
    <3>4. Len(e) = IF Len(line) = 0 THEN 0 ELSE Len(line) - 1
      BY <1>1, <3>1, <3>3
    <3>5. e \in Seq(Keys)
      BY <3>3
    <3>6. IsRemainder(e, Append(keys, "BS"))
      BY <1>1, <1>3, <3>3, <3>4, <3>5, RemainderBack
    <3> QED
      BY <1>3, <3>6 DEF e
  <2> QED
    BY <2>2, <2>3
<1>4. CASE key \notin {"CR", "BS"}
  <2>1. /\ IsRemainder(Append(line, key), Append(keys, key))
        /\ Cardinality(Kept(Append(keys, key))) = Len(line) + 1
    BY <1>1, <1>4, RemainderAdded
  <2>2. Cardinality(Kept(Append(keys, key))) < LineCapacity
    BY FitsBefore
  <2>3. ~(Len(line) >= LineCapacity - 1)
    BY <1>1, <2>1, <2>2
  <2>4. Edited(key) = Append(line, key)
    BY <1>4, <2>3 DEF Edited
  <2> QED
    BY <2>1, <2>4
<1> QED
  BY <1>2, <1>3, <1>4

KeptInv == OrderInv /\ LineAsTyped

LEMMA KeptInit ==
  ASSUME Init
  PROVE  KeptInv
<1>1. OrderInv /\ running = TRUE /\ line = <<>> /\ typed = <<>>
  BY OrderInit DEF Init
<1>2. /\ Arrived \in Seq(Keys) /\ Len(typed) = 0
      /\ Len(typed) - Len(UnderWay) \in Nat /\ Len(UnderWay) \in Nat
  BY <1>1, ArrivedFacts
<1>3. Len(Arrived) = 0
  <2>1. Len(typed) - Len(UnderWay) = 0 /\ 0 \in Nat /\ 0 <= Len(typed)
    BY <1>2
  <2>2. typed \in Seq(Keys)
    BY <1>1, ArrivedFacts
  <2>3. Len(SubSeq(typed, 1, 0)) = 0
    BY <2>1, <2>2, Beginning
  <2> QED
    BY <2>1, <2>3 DEF Arrived
<1> DEFINE ks == Arrived
<1>4. ks \in Seq(Keys) /\ Len(ks) = 0
  BY <1>2, <1>3
<1> HIDE DEF ks
<1>5. \A k \in Kept(ks) : FALSE
  BY <1>4 DEF Kept
<1> DEFINE at == [i \in 1 .. Len(<<>>) |-> 0]
<1>6. \A i : i \notin 1 .. Len(<<>>)
  OBVIOUS
<1>7. at \in [1 .. Len(<<>>) -> Kept(ks)]
  BY <1>6
<1> HIDE DEF at
<1>8. RemainderAt(at, <<>>, ks)
  BY <1>5, <1>6, <1>7 DEF RemainderAt
<1>9. IsRemainder(<<>>, ks)
  BY <1>8, RemainderIs
<1> QED
  BY <1>1, <1>9 DEF KeptInv, LineAsTyped, ks

LEMMA KeptStep ==
  ASSUME KeptInv, [Next]_vars
  PROVE  KeptInv'
<1>1. OrderInv /\ OrderInv' /\ TypeOK
  BY OrderStep DEF KeptInv, OrderInv
<1> SUFFICES ASSUME running', Fits(Arrived')
             PROVE  IsRemainder(line', Arrived')
  BY <1>1 DEF KeptInv, LineAsTyped, Fits
<1>2. running /\ Fits(Arrived) => IsRemainder(line, Arrived)
  BY DEF KeptInv, LineAsTyped
<1>3. running \in BOOLEAN
  BY <1>1, Types
<1>4. CASE running /\ line' = line /\ Arrived' = Arrived
  BY <1>2, <1>4
<1>5. ASSUME NEW key \in Keys, Type(key)
      PROVE  IsRemainder(line', Arrived')
  <2>1. running /\ ~Full /\ line' = line
    BY <1>5 DEF Type, adapter
  <2>2. Arrived' = Arrived
    BY <1>1, <1>5, <2>1, ArrivedTyped
  <2> QED
    BY <1>4, <2>1, <2>2
<1>6. CASE AdapterReads
  <2> DEFINE key == Head(toAdapter)
             ks == Arrived
  <2>1. running /\ line' = Edited(key)
    BY <1>6 DEF AdapterReads
  <2>2. Arrived' = Append(ks, key) /\ key \in Keys
    BY <1>1, <1>6, ArrivedRead
  <2>3. ks \in Seq(Keys)
    BY <1>1, <2>1, ArrivedFacts
  <2> HIDE DEF key, ks
  <2>4. Fits(Append(ks, key))
    BY <2>2
  <2>5. Fits(ks)
    BY <2>2, <2>3, <2>4, FitsBefore
  <2>6. IsRemainder(line, ks)
    BY <1>2, <2>1, <2>5 DEF ks
  <2>7. IsRemainder(Edited(key), Append(ks, key))
    BY <1>1, <2>2, <2>3, <2>4, <2>6, EditedAsTyped
  <2> QED
    BY <2>1, <2>2, <2>7
<1>7. CASE Send
  <2>1. running /\ line' = line /\ typed' = typed /\ UnderWay' = UnderWay
    BY <1>1, <1>7, SentUnderWay DEF Send, adapter
  <2> QED
    BY <1>4, <2>1 DEF Arrived
<1>8. CASE HandleByte \/ Expire \/ Tick \/ AdapterSays
  <2>1. running /\ line' = line /\ typed' = typed /\ UNCHANGED <<toAdapter, queue>>
    BY <1>8 DEF HandleByte, Expire, Tick, AdapterSays, adapter
  <2> QED
    BY <1>4, <2>1, SameUnderWay DEF Arrived
<1>9. CASE Stop \/ Closed
  BY <1>9, <1>3 DEF Stop, Closed, vars
<1>10. CASE UNCHANGED vars
  <2>1. running /\ line' = line /\ typed' = typed /\ UNCHANGED <<toAdapter, queue>>
    BY <1>10 DEF vars, adapter
  <2> QED
    BY <1>4, <2>1, SameUnderWay DEF Arrived
<1> QED
  BY <1>5, <1>6, <1>7, <1>8, <1>9, <1>10 DEF Next, Loop, Adapter

-----------------------------------------------------------------------------
(* What whoever sits at the terminal relies on                              *)

(* The types of main's variables, the index of key_push and key_pop within  *)
(* its array and the line of consumeSerialByte within its buffer.           *)
THEOREM TerminalTypes == Spec => []TypeOK
BY TypeInit, TypeStep, PTL DEF Spec

(* No byte of a password reaches the screen, neither shown by main when it  *)
(* is sent nor by show_received when it comes back, as long as nothing is   *)
(* typed ahead of the prompt and every reflection is read while             *)
(* ECHO_MAX_AGE_MS still runs.  Without either the code does show it.       *)
THEOREM NothingIsDisclosed ==
  ASSUME ~LateReflections, ~TypesAhead
  PROVE  Spec => []PasswordStaysHidden
BY HiddenInvariant, PTL DEF HiddenInv

(* Once all has arrived, what main has kept off the screen as a reflection  *)
(* is made up for by what it showed when the key was sent: nothing twice,   *)
(* nothing missing, and no line break missing on either carrier, as long as *)
(* every reflection is read while ECHO_MAX_AGE_MS still runs.               *)
THEOREM EverythingIsShown ==
  ASSUME ~LateReflections
  PROVE  Spec => []ShownOnce
<1>1. ShownInv => ShownOnce
  <2> SUFFICES ASSUME ShownInv, toTerminal = <<>>, ~pending
               PROVE  /\ reflects => \A c \in Shown \ {"NL"} :
                           Occurrences(c, screen) = owed[c]
                      /\ Occurrences("NL", screen) >= owed["NL"]
    BY DEF ShownOnce
  <2>1. TypeOK /\ Balance /\ Breaks
    BY DEF ShownInv
  <2>2. \A c : Occurrences(c, toTerminal) = 0
    BY OccurrencesNone
  <2>3. \A c : Awaited(c) = 0
    BY DEF Awaited
  <2>4. \A c \in Shown : Occurrences(c, screen) \in Nat /\ owed[c] \in Nat
    BY <2>1, Counts
  <2>5. ASSUME reflects, NEW c \in Shown \ {"NL"}
        PROVE  Occurrences(c, screen) = owed[c]
    <3>1. Occurrences(c, screen) + 0 = owed[c] + 0
      BY <2>1, <2>2, <2>3, <2>5 DEF Balance
    <3>2. Occurrences(c, screen) \in Nat /\ owed[c] \in Nat
      BY <2>4
    <3> QED
      BY <3>1, <3>2
  <2>6. Occurrences("NL", screen) >= owed["NL"]
    <3>1. Occurrences("NL", screen) + 0 >= owed["NL"] + (IF afterCr THEN 1 ELSE 0)
      BY <2>1, <2>2 DEF Breaks
    <3>2. Occurrences("NL", screen) \in Nat /\ owed["NL"] \in Nat
      BY <2>4, SymbolFacts
    <3> QED
      BY <3>1, <3>2
  <2> QED
    BY <2>5, <2>6
<1> QED
  BY <1>1, ShownInvariant, PTL

(* Between the keyboard and the adapter's line, through the ring of key_push *)
(* and key_pop and over the carrier, the keys keep their order and number.  *)
THEOREM KeysKeepTheirOrder == Spec => []KeysInOrder
<1>1. OrderInv => KeysInOrder
  <2> SUFFICES ASSUME TypeOK, EndsIn(typed, UnderWay)
               PROVE  typed = Arrived \o UnderWay
    BY DEF OrderInv, KeysInOrder
  <2>1. typed \in Seq(Keys) /\ UnderWay \in Seq(Keys)
    BY Types, Pipe
  <2> QED
    BY <2>1, EndsSplit DEF Arrived
<1>2. OrderInv /\ [Next]_vars => OrderInv'
  BY OrderStep
<1> QED
  BY OrderInit, <1>1, <1>2, PTL DEF Spec
(* consumeSerialByte edits the line as whoever types expects: the keys since *)
(* the last Enter without those that were taken back, in their order, as    *)
(* long as they fit the buffer at every moment.                             *)
THEOREM TheLineIsWhatWasTyped == Spec => []LineAsTyped
<1>1. KeptInv => LineAsTyped
  BY DEF KeptInv
<1>2. KeptInv /\ [Next]_vars => KeptInv'
  BY KeptStep
<1> QED
  BY KeptInit, <1>1, <1>2, PTL DEF Spec
=============================================================================
