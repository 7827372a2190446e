-------------------------- MODULE RunQueueProofs --------------------------
(***************************************************************************)
(* What the run queue operations of sys/kern/sch.cpp do to a queue of any  *)
(* length: they keep its elements distinct and ordered by priority, and    *)
(* add or remove exactly the thread they are given.                        *)
(***************************************************************************)
EXTENDS RunQueue, SequenceTheorems, TLAPS

\* Concatenation, index by index.
LEMMA ConcatFacts ==
  ASSUME NEW S, NEW a \in Seq(S), NEW b \in Seq(S)
  PROVE  /\ a \o b \in Seq(S)
         /\ Len(a \o b) = Len(a) + Len(b)
         /\ \A i \in 1..Len(a) : (a \o b)[i] = a[i]
         /\ \A i \in 1..Len(b) : (a \o b)[Len(a) + i] = b[i]
<1> DEFINE ab == a \o b
<1>1. /\ ab \in Seq(S) /\ Len(ab) = Len(a) + Len(b)
      /\ \A i \in 1 .. Len(a) + Len(b) : ab[i] =
                     IF i <= Len(a) THEN a[i] ELSE b[i - Len(a)]
  BY ConcatProperties
<1>2. Len(a) \in Nat /\ Len(b) \in Nat
  OBVIOUS
<1> HIDE DEF ab
<1>3. ASSUME NEW i \in 1..Len(b)
      PROVE  ab[Len(a) + i] = b[i]
  <2>1. Len(a) + i \in 1 .. Len(a) + Len(b) /\ ~(Len(a) + i <= Len(a)) BY <1>2
  <2>2. (Len(a) + i) - Len(a) = i BY <1>2
  <2> QED BY <1>1, <2>1, <2>2
<1>4. \A i \in 1..Len(a) : ab[i] = a[i]
  BY <1>1, <1>2
<1> QED BY <1>1, <1>3, <1>4 DEF ab

\* queue_insert, index by index.
LEMMA InsertAtFacts ==
  ASSUME NEW S, NEW q \in Seq(S), NEW k \in 1..(Len(q)+1), NEW x \in S
  PROVE  /\ queue_insert(q, k, x) \in Seq(S)
         /\ Len(queue_insert(q, k, x)) = Len(q) + 1
         /\ \A i \in 1..(k - 1) : queue_insert(q, k, x)[i] = q[i]
         /\ queue_insert(q, k, x)[k] = x
         /\ \A i \in k..Len(q) : queue_insert(q, k, x)[i + 1] = q[i]
<1> DEFINE a == SubSeq(q, 1, k - 1)
           b == SubSeq(q, k, Len(q))
           ax == a \o <<x>>
           r == ax \o b
<1>0. Len(q) \in Nat /\ k \in Nat
  OBVIOUS
<1>1. /\ a \in Seq(S) /\ Len(a) = k - 1 /\ \A i \in 1..(k - 1) : a[i] = q[i]
  OBVIOUS
<1>2. /\ b \in Seq(S) /\ Len(b) = Len(q) - k + 1
      /\ \A i \in 1..(Len(q) - k + 1) : b[i] = q[k + i - 1]
  OBVIOUS
<1>x. <<x>> \in Seq(S) /\ Len(<<x>>) = 1 /\ <<x>>[1] = x
  OBVIOUS
<1> HIDE DEF a, b
<1>3. /\ ax \in Seq(S) /\ Len(ax) = k
      /\ \A i \in 1..(k - 1) : ax[i] = q[i]
      /\ ax[k] = x
  <2>1. /\ ax \in Seq(S) /\ Len(ax) = Len(a) + Len(<<x>>)
        /\ \A i \in 1..Len(a) : ax[i] = a[i]
        /\ \A i \in 1..Len(<<x>>) : ax[Len(a) + i] = <<x>>[i]
    BY <1>1, <1>x, ConcatFacts
  <2> HIDE DEF ax
  <2>2. ax[Len(a) + 1] = x BY <2>1, <1>x
  <2> QED BY <1>0, <1>1, <1>x, <2>1, <2>2
<1> HIDE DEF ax
<1>4. /\ r \in Seq(S) /\ Len(r) = Len(ax) + Len(b)
      /\ \A i \in 1..Len(ax) : r[i] = ax[i]
      /\ \A i \in 1..Len(b) : r[Len(ax) + i] = b[i]
  BY <1>2, <1>3, ConcatFacts
<1>5. queue_insert(q, k, x) = r
  BY DEF queue_insert, a, b, ax
<1> HIDE DEF r
<1>6. Len(r) = Len(q) + 1
  BY <1>0, <1>2, <1>3, <1>4
<1>7. (\A i \in 1..(k - 1) : r[i] = q[i]) /\ r[k] = x
  BY <1>0, <1>3, <1>4
<1>8. ASSUME NEW i \in k..Len(q)
      PROVE  r[i + 1] = q[i]
  <2>1. i - k + 1 \in 1..(Len(q) - k + 1) BY <1>0
  <2>2. r[k + (i - k + 1)] = b[i - k + 1] BY <2>1, <1>2, <1>3, <1>4
  <2>3. b[i - k + 1] = q[k + (i - k + 1) - 1] BY <2>1, <1>2
  <2>4. k + (i - k + 1) = i + 1 /\ k + (i - k + 1) - 1 = i BY <1>0
  <2> QED BY <2>2, <2>3, <2>4
<1> QED BY <1>4, <1>5, <1>6, <1>7, <1>8

\* queue_remove, index by index.
LEMMA RemoveAtFacts ==
  ASSUME NEW S, NEW q \in Seq(S), NEW k \in 1..Len(q)
  PROVE  /\ queue_remove(q, k) \in Seq(S)
         /\ Len(queue_remove(q, k)) = Len(q) - 1
         /\ \A i \in 1..(k - 1) : queue_remove(q, k)[i] = q[i]
         /\ \A i \in k..(Len(q) - 1) : queue_remove(q, k)[i] = q[i + 1]
<1> DEFINE a == SubSeq(q, 1, k - 1)
           b == SubSeq(q, k + 1, Len(q))
           r == a \o b
<1>0. Len(q) \in Nat /\ k \in Nat
  OBVIOUS
<1>1. /\ a \in Seq(S) /\ Len(a) = k - 1 /\ \A i \in 1..(k - 1) : a[i] = q[i]
  OBVIOUS
<1>2. /\ b \in Seq(S) /\ Len(b) = Len(q) - k
      /\ \A i \in 1..(Len(q) - k) : b[i] = q[k + i]
  OBVIOUS
<1>3. queue_remove(q, k) = r
  BY DEF queue_remove
<1> HIDE DEF a, b
<1>4. /\ r \in Seq(S) /\ Len(r) = Len(a) + Len(b)
      /\ \A i \in 1..Len(a) : r[i] = a[i]
      /\ \A i \in 1..Len(b) : r[Len(a) + i] = b[i]
  <2>1. a \in Seq(S) /\ b \in Seq(S)  BY <1>1, <1>2
  <2> QED BY <2>1, ConcatFacts
<1> HIDE DEF r
<1>5. Len(r) = Len(q) - 1 /\ \A i \in 1..(k - 1) : r[i] = q[i]
  BY <1>0, <1>1, <1>2, <1>4
<1>6. ASSUME NEW i \in k..(Len(q) - 1)
      PROVE  r[i] = q[i + 1]
  <2>1. i - k + 1 \in 1..(Len(q) - k) BY <1>0
  <2>2. r[(k - 1) + (i - k + 1)] = b[i - k + 1] BY <2>1, <1>1, <1>2, <1>4
  <2>3. b[i - k + 1] = q[k + (i - k + 1)] BY <2>1, <1>2
  <2>4. (k - 1) + (i - k + 1) = i /\ k + (i - k + 1) = i + 1 BY <1>0
  <2> QED BY <2>2, <2>3, <2>4
<1> QED BY <1>3, <1>4, <1>5, <1>6

\* Inserting a thread at a position that suits its priority: distinct threads
\* stay distinct, x is added and nothing else, the order by priority is kept.
LEMMA InsertAtQueue ==
  ASSUME NEW S, NEW q \in Seq(S), NEW k \in 1..(Len(q)+1), NEW x \in S,
         NEW p \in [S -> Nat], Sorted(q, p), NoDuplicates(q), ~Queued(q, x),
         \A j \in 1..(k-1) : p[q[j]] <= p[x],
         k <= Len(q) => p[x] <= p[q[k]]
  PROVE  /\ queue_insert(q, k, x) \in Seq(S)
         /\ NoDuplicates(queue_insert(q, k, x))
         /\ \A t : Queued(queue_insert(q, k, x), t) <=> Queued(q, t) \/ t = x
         /\ Sorted(queue_insert(q, k, x), p)
<1> DEFINE r == queue_insert(q, k, x)
           n == Len(q)
<1>1. r \in Seq(S) /\ Len(r) = n + 1
  BY InsertAtFacts
<1>2. \A i \in 1..(k-1) : r[i] = q[i]
  BY InsertAtFacts
<1>3. r[k] = x
  BY InsertAtFacts
<1>4. \A i \in k..n : r[i+1] = q[i]
  BY InsertAtFacts
<1>5. n \in Nat /\ q \in [1..n -> S]
  BY LenProperties
<1> HIDE DEF r
<1>6. r \in [1..(n+1) -> S]
  BY <1>1, LenProperties
<1>7. /\ \A i, j \in 1..n : q[i] = q[j] => i = j
      /\ \A i \in 1..n : q[i] # x
      /\ \A i, j \in 1..n : i < j => p[q[i]] <= p[q[j]]
  BY DEF Sorted, NoDuplicates, Queued
<1>8. k \in 1..(n+1) /\ (k <= n => p[x] <= p[q[k]])
  OBVIOUS
<1> HIDE DEF n
<1>9. ASSUME NEW i \in 1..(n+1), i > k
      PROVE  i-1 \in k..n /\ r[i] = q[i-1]
  <2>1. i-1 \in k..n /\ (i-1)+1 = i  BY <1>5, <1>8, <1>9
  <2> QED BY <1>4, <2>1
<1>10. ASSUME NEW i \in 1..(n+1), NEW j \in 1..(n+1), i < j
       PROVE  r[i] # r[j]
  <2>1. CASE j < k
    <3>1. i \in 1..(k-1) /\ j \in 1..(k-1) /\ i \in 1..n /\ j \in 1..n /\ i # j
      BY <1>5, <1>8, <1>10, <2>1
    <3> QED BY <1>2, <1>7, <3>1
  <2>2. CASE j = k
    <3>1. i \in 1..(k-1) /\ i \in 1..n  BY <1>5, <1>8, <1>10, <2>2
    <3> QED BY <1>2, <1>3, <1>7, <2>2, <3>1
  <2>3. CASE j > k
    <3>1. j-1 \in 1..n /\ r[j] = q[j-1]  BY <1>5, <1>8, <1>9, <2>3
    <3>2. CASE i < k
      <4>1. i \in 1..(k-1) /\ i \in 1..n /\ i # j-1  BY <1>5, <1>8, <2>3, <3>2
      <4> QED BY <1>2, <1>7, <3>1, <4>1
    <3>3. CASE i = k  BY <1>3, <1>7, <3>1, <3>3
    <3>4. CASE i > k
      <4>1. i-1 \in 1..n /\ r[i] = q[i-1] /\ i-1 # j-1
        BY <1>5, <1>8, <1>9, <1>10, <3>4
      <4> QED BY <1>7, <3>1, <4>1
    <3> QED BY <1>8, <3>2, <3>3, <3>4
  <2> QED BY <1>8, <2>1, <2>2, <2>3
<1>11. ASSUME NEW t PROVE Queued(r, t) <=> Queued(q, t) \/ t = x
  <2>1. ASSUME NEW i \in 1..(n+1), r[i] = t
        PROVE  t = x \/ \E j \in 1..n : q[j] = t
    <3>1. CASE i < k  BY <1>2, <1>5, <1>8, <2>1, <3>1
    <3>2. CASE i > k  BY <1>5, <1>8, <1>9, <2>1, <3>2
    <3> QED BY <1>3, <1>5, <1>8, <2>1, <3>1, <3>2
  <2>2. ASSUME NEW i \in 1..n, q[i] = t
        PROVE  \E j \in 1..(n+1) : r[j] = t
    <3>1. CASE i < k  BY <1>2, <1>5, <1>8, <2>2, <3>1
    <3>2. CASE i >= k
      <4>1. i+1 \in 1..(n+1) /\ r[i+1] = t  BY <1>4, <1>5, <1>8, <2>2, <3>2
      <4> QED BY <4>1
    <3> QED BY <1>5, <1>8, <3>1, <3>2
  <2>3. \E j \in 1..(n+1) : r[j] = x  BY <1>3, <1>8
  <2> QED BY <1>1, <2>1, <2>2, <2>3 DEF Queued, n
<1>12. ASSUME NEW i \in 1..(n+1), NEW j \in 1..(n+1), i < j
       PROVE  p[r[i]] <= p[r[j]]
  <2>1. \A m \in 1..n : p[q[m]] \in Nat  BY <1>5
  <2>2. ASSUME NEW m \in k..n PROVE p[x] <= p[q[m]]
    <3>1. k \in 1..n /\ m \in 1..n /\ p[x] \in Nat  BY <1>5, <1>8
    <3>2. p[x] <= p[q[k]]  BY <1>5, <1>8, <3>1
    <3>3. k < m => p[q[k]] <= p[q[m]]  BY <1>7, <3>1
    <3> QED BY <2>1, <3>1, <3>2, <3>3
  <2>3. CASE i < k /\ j < k
    <3>1. i \in 1..n /\ j \in 1..n /\ r[i] = q[i] /\ r[j] = q[j]
      BY <1>2, <1>5, <1>8, <2>3
    <3> QED BY <1>7, <1>12, <3>1
  <2>4. CASE i < k /\ j = k  BY <1>2, <1>3, <1>5, <1>8, <2>4
  <2>5. CASE i < k /\ j > k
    <3>1. j-1 \in 1..n /\ i < j-1 /\ i \in 1..n /\ r[j] = q[j-1] /\ r[i] = q[i]
      BY <1>2, <1>5, <1>8, <1>9, <2>5
    <3> QED BY <1>7, <3>1
  <2>6. CASE i = k
    <3>1. j-1 \in k..n /\ r[j] = q[j-1]  BY <1>9, <1>12, <2>6
    <3> QED BY <1>3, <2>2, <2>6, <3>1
  <2>7. CASE i > k
    <3>1. /\ i-1 \in 1..n /\ j-1 \in 1..n /\ i-1 < j-1
          /\ r[i] = q[i-1] /\ r[j] = q[j-1]
      BY <1>5, <1>8, <1>9, <1>12, <2>7
    <3> QED BY <1>7, <3>1
  <2> QED BY <1>5, <1>8, <1>12, <2>3, <2>4, <2>5, <2>6, <2>7
<1>13. NoDuplicates(r) /\ Sorted(r, p)
  BY <1>1, <1>10, <1>12 DEF NoDuplicates, Sorted
<1> QED BY <1>1, <1>11, <1>13 DEF r

\* Removing the thread at position k removes it and nothing else.
LEMMA RemoveAtQueue ==
  ASSUME NEW S, NEW q \in Seq(S), NEW k \in 1..Len(q), NoDuplicates(q)
  PROVE  /\ queue_remove(q, k) \in Seq(S)
         /\ NoDuplicates(queue_remove(q, k))
         /\ \A t : Queued(queue_remove(q, k), t) <=> Queued(q, t) /\ t # q[k]
         /\ \A p \in [S -> Nat] : Sorted(q, p) => Sorted(queue_remove(q, k), p)
<1> DEFINE r == queue_remove(q, k)
           n == Len(q)
           old(i) == IF i < k THEN i ELSE i+1
<1>1. r \in Seq(S) /\ Len(r) = n - 1
  BY RemoveAtFacts
<1>2. \A i \in 1..(k-1) : r[i] = q[i]
  BY RemoveAtFacts
<1>3. \A i \in k..(n-1) : r[i] = q[i+1]
  BY RemoveAtFacts
<1>4. n \in Nat /\ q \in [1..n -> S] /\ k \in 1..n
  BY LenProperties
<1> HIDE DEF r
<1>5. r \in [1..(n-1) -> S]
  BY <1>1, LenProperties
<1>6. \A i, j \in 1..n : q[i] = q[j] => i = j
  BY DEF NoDuplicates
<1> HIDE DEF n
<1>7. \A i \in 1..(n-1) : old(i) \in 1..n /\ old(i) # k /\ r[i] = q[old(i)]
  BY <1>2, <1>3, <1>4
<1>8. \A i, j \in 1..(n-1) : i < j <=> old(i) < old(j)
  BY <1>4
<1>9. ASSUME NEW t, t # q[k], NEW i \in 1..n, q[i] = t
      PROVE  \E j \in 1..(n-1) : r[j] = t
  <2>1. CASE i < k  BY <1>2, <1>4, <1>9, <2>1
  <2>2. CASE i > k
    <3>1. i-1 \in k..(n-1) /\ (i-1)+1 = i  BY <1>4, <2>2
    <3>2. r[i-1] = t  BY <1>3, <1>9, <3>1
    <3> QED BY <1>4, <3>1, <3>2
  <2> QED BY <1>4, <1>9, <2>1, <2>2
<1> HIDE DEF old
<1>10. ASSUME NEW i \in 1..(n-1), NEW j \in 1..(n-1), r[i] = r[j]
       PROVE  i = j
  <2>1. old(i) = old(j)  BY <1>6, <1>7, <1>10
  <2>2. ~(old(i) < old(j)) /\ ~(old(j) < old(i))  BY <1>4, <1>7, <2>1
  <2> QED BY <1>4, <1>8, <2>2
<1>11. ASSUME NEW t PROVE Queued(r, t) <=> Queued(q, t) /\ t # q[k]
  <2>1. ASSUME NEW i \in 1..(n-1), r[i] = t
        PROVE  t # q[k] /\ \E j \in 1..n : q[j] = t
    BY <1>4, <1>6, <1>7, <2>1
  <2> QED BY <1>1, <1>9, <2>1 DEF Queued, n
<1>12. ASSUME NEW p \in [S -> Nat], Sorted(q, p) PROVE Sorted(r, p)
  <2>1. \A i, j \in 1..n : i < j => p[q[i]] <= p[q[j]]
    BY <1>12 DEF Sorted, n
  <2>2. ASSUME NEW i \in 1..(n-1), NEW j \in 1..(n-1), i < j
        PROVE  p[r[i]] <= p[r[j]]
    BY <1>7, <1>8, <2>1, <2>2
  <2> QED BY <1>1, <2>2 DEF Sorted
<1>13. NoDuplicates(r)
  BY <1>1, <1>10 DEF NoDuplicates
<1> QED BY <1>1, <1>11, <1>12, <1>13 DEF r

\* runq_enqueue adds the thread and nothing else and keeps the queue in order.
LEMMA EnqueueFacts ==
  ASSUME NEW S, NEW q \in Seq(S), NEW x \in S, NEW p \in [S -> Nat],
         Sorted(q, p), NoDuplicates(q), ~Queued(q, x),
         NEW r \in EnqueueResults(q, p, x)
  PROVE  /\ r \in Seq(S) /\ NoDuplicates(r) /\ Sorted(r, p)
         /\ \A t : Queued(r, t) <=> Queued(q, t) \/ t = x
<1>1. PICK k \in 1..(Len(q)+1) :
        /\ \A j \in 1..(k - 1) : p[q[j]] <= p[x]
        /\ k <= Len(q) => p[x] < p[q[k]]
        /\ r = queue_insert(q, k, x)
  BY DEF EnqueueResults
<1>2. k <= Len(q) => p[x] <= p[q[k]]
  <2>1. Len(q) \in Nat /\ q \in [1..Len(q) -> S]  BY LenProperties
  <2> QED BY <1>1, <2>1
<1> QED BY <1>1, <1>2, InsertAtQueue

\* runq_insert likewise.
LEMMA InsertFacts ==
  ASSUME NEW S, NEW q \in Seq(S), NEW x \in S, NEW p \in [S -> Nat],
         Sorted(q, p), NoDuplicates(q), ~Queued(q, x),
         NEW r \in InsertResults(q, p, x)
  PROVE  /\ r \in Seq(S) /\ NoDuplicates(r) /\ Sorted(r, p)
         /\ \A t : Queued(r, t) <=> Queued(q, t) \/ t = x
<1>1. PICK k \in 1..(Len(q)+1) :
        /\ \A j \in 1..(k - 1) : p[q[j]] < p[x]
        /\ k <= Len(q) => p[x] <= p[q[k]]
        /\ r = queue_insert(q, k, x)
  BY DEF InsertResults
<1>2. \A j \in 1..(k - 1) : p[q[j]] <= p[x]
  <2>1. Len(q) \in Nat /\ q \in [1..Len(q) -> S]  BY LenProperties
  <2> QED BY <1>1, <2>1
<1> QED BY <1>1, <1>2, InsertAtQueue

\* runq_remove removes the thread and nothing else.
LEMMA RemoveFacts ==
  ASSUME NEW S, NEW q \in Seq(S), NEW x \in S, NoDuplicates(q),
         NEW r \in RemoveResults(q, x)
  PROVE  /\ r \in Seq(S) /\ NoDuplicates(r)
         /\ \A t : Queued(r, t) <=> Queued(q, t) /\ t # x
         /\ \A p \in [S -> Nat] : Sorted(q, p) => Sorted(r, p)
<1>1. PICK k \in 1..Len(q) : q[k] = x /\ r = queue_remove(q, k)
  BY DEF RemoveResults
<1> QED BY <1>1, RemoveAtQueue

\* dequeue takes the head, which in an ordered queue is the best.
LEMMA DequeueFacts ==
  ASSUME NEW S, NEW q \in Seq(S), q # <<>>, NoDuplicates(q)
  PROVE  /\ Head(q) \in S /\ Tail(q) \in Seq(S) /\ NoDuplicates(Tail(q))
         /\ Queued(q, Head(q))
         /\ \A t : Queued(Tail(q), t) <=> Queued(q, t) /\ t # Head(q)
         /\ \A p \in [S -> Nat] : Sorted(q, p) =>
              Sorted(Tail(q), p) /\ \A t : Queued(q, t) => p[Head(q)] <= p[t]
<1> DEFINE n == Len(q)
           r == Tail(q)
<1>1. /\ n \in Nat \ {0} /\ q \in [1..n -> S] /\ Head(q) = q[1]
      /\ r \in Seq(S) /\ Len(r) = n - 1 /\ \A i \in 1..(n-1) : r[i] = q[i+1]
  BY LenProperties, EmptySeq, HeadTailProperties
<1>2. \A i, j \in 1..n : q[i] = q[j] => i = j
  BY DEF NoDuplicates
<1> HIDE DEF r, n
<1>3. NoDuplicates(r)
  BY <1>1, <1>2 DEF NoDuplicates
<1>4. Queued(q, Head(q))
  BY <1>1 DEF Queued, n
<1>5. ASSUME NEW t PROVE Queued(r, t) <=> Queued(q, t) /\ t # Head(q)
  <2>1. ASSUME NEW i \in 1..(n-1), r[i] = t
        PROVE  t # q[1] /\ \E j \in 1..n : q[j] = t
    <3>1. i+1 \in 1..n /\ i+1 # 1 /\ q[i+1] = t  BY <1>1, <2>1
    <3> QED BY <1>1, <1>2, <3>1
  <2>2. ASSUME NEW i \in 1..n, q[i] = t, t # q[1]
        PROVE  \E j \in 1..(n-1) : r[j] = t
    <3>1. i-1 \in 1..(n-1) /\ (i-1)+1 = i  BY <1>1, <2>2
    <3> QED BY <1>1, <2>2, <3>1
  <2> QED BY <1>1, <2>1, <2>2 DEF Queued, n
<1>6. ASSUME NEW p \in [S -> Nat], Sorted(q, p)
      PROVE  Sorted(r, p) /\ \A t : Queued(q, t) => p[Head(q)] <= p[t]
  <2>1. \A i, j \in 1..n : i < j => p[q[i]] <= p[q[j]]
    BY <1>6 DEF Sorted, n
  <2>2. Sorted(r, p)
    <3>1. ASSUME NEW i \in 1..(n-1), NEW j \in 1..(n-1), i < j
          PROVE  p[r[i]] <= p[r[j]]
      <4>1. i+1 \in 1..n /\ j+1 \in 1..n /\ i+1 < j+1  BY <1>1, <3>1
      <4> QED BY <1>1, <2>1, <4>1
    <3> QED BY <1>1, <3>1 DEF Sorted
  <2>3. ASSUME NEW i \in 1..n PROVE p[q[1]] <= p[q[i]]
    <3>1. 1 \in 1..n /\ p[q[1]] \in Nat  BY <1>1
    <3> QED BY <1>1, <2>1, <3>1
  <2> QED BY <1>1, <2>2, <2>3 DEF Queued, n
<1> QED BY <1>1, <1>3, <1>4, <1>5, <1>6 DEF r

\* enqueue on a sleep queue.
LEMMA AppendFacts ==
  ASSUME NEW S, NEW q \in Seq(S), NEW x \in S, NoDuplicates(q), ~Queued(q, x)
  PROVE  /\ Append(q, x) \in Seq(S) /\ NoDuplicates(Append(q, x))
         /\ \A t : Queued(Append(q, x), t) <=> Queued(q, t) \/ t = x
<1> DEFINE n == Len(q)
           r == Append(q, x)
<1>1. /\ n \in Nat /\ q \in [1..n -> S]
      /\ r \in Seq(S) /\ Len(r) = n + 1
      /\ \A i \in 1..n : r[i] = q[i]
      /\ r[n + 1] = x
  BY LenProperties
<1>2. (\A i, j \in 1..n : q[i] = q[j] => i = j) /\ \A i \in 1..n : q[i] # x
  BY DEF NoDuplicates, Queued
<1> HIDE DEF r, n
<1>3. NoDuplicates(r)
  BY <1>1, <1>2 DEF NoDuplicates
<1>4. ASSUME NEW t PROVE (\E i \in 1..(n+1) : r[i] = t) <=> t = x \/ \E i \in 1..n : q[i] = t
  <2>1. (\E i \in 1..(n+1) : r[i] = t) => t = x \/ \E i \in 1..n : q[i] = t  BY <1>1
  <2>2. t = x => \E i \in 1..(n+1) : r[i] = t  BY <1>1
  <2>3. (\E i \in 1..n : q[i] = t) => \E i \in 1..(n+1) : r[i] = t  BY <1>1
  <2> QED BY <2>1, <2>2, <2>3
<1> QED BY <1>1, <1>3, <1>4 DEF r, n, Queued

\* Changing the priority of a thread that is not queued keeps the order.
LEMMA SortedOther ==
  ASSUME NEW S, NEW q \in Seq(S), NEW x \in S, NEW p \in [S -> Nat], NEW v \in Nat,
         Sorted(q, p), ~Queued(q, x)
  PROVE  Sorted(q, [p EXCEPT ![x] = v])
<1> DEFINE n == Len(q)
<1>1. n \in Nat /\ q \in [1..n -> S]
  BY LenProperties
<1>2. \A i \in 1..n : q[i] # x
  BY DEF Queued
<1>3. \A i, j \in 1..n : i < j => p[q[i]] <= p[q[j]]
  BY DEF Sorted
<1> HIDE DEF n
<1>4. \A i, j \in 1..n : i < j => [p EXCEPT ![x] = v][q[i]] <= [p EXCEPT ![x] = v][q[j]]
  BY <1>1, <1>2, <1>3
<1> QED BY <1>4 DEF Sorted, n
=============================================================================
