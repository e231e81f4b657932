-------------------------- MODULE MqttSystem_proofs --------------------------
(***************************************************************************)
(* Proofs about the MQTT client and its broker for every number of         *)
(* requests, messages, connections and identifiers, every buffer size and  *)
(* every timeout that the tick counter can tell apart.                     *)
(***************************************************************************)
EXTENDS MqttSystem, SequenceTheorems, WellFoundedInduction, TLAPS

Statuses == {"Disconnected", "ConnectPending", "Connected", "WaitForPingResp"}
Requests == {"Subscribe", "Unsubscribe", "Publish", "PubRel"}
Answering == {"ConnAck", "PubAck", "PubRec", "PubRel", "PubComp", "SubAck", "UnsubAck", "PingResp"}
Types == Requests \cup Answering \cup {"Connect", "PingReq", "Invalid", "TooMuch", "ZeroId", "BadTopic"}
Packets == [type : Types, id : Nat, qos : Nat, msg : Nat]
Entries == [packet : Packets, tries : Int, at : 0..(TickMod - 1)]

\* The elements of a sequence.
Rg(s) == {s[i] : i \in 1..Len(s)}
------------------------------------------------------------------------------
(* Ticks: unsigned counters and signed differences.                        *)

\* Half the range of the tick counter is more than all timeouts together.
LEMMA TickRange ==
    /\ TickMod \in Nat \ {0} /\ LoopTicks \in Nat /\ ResendTimeout \in Nat
    /\ TickMod \div 2 \in Nat /\ 2 * (TickMod \div 2) <= TickMod
    /\ ResendTimeout + LoopTicks <= TickMod \div 2 - 1
  <1>1. TickMod \in Nat /\ LoopTicks \in Nat /\ ResendTimeout \in 0..(TickMod \div 2 - 1 - LoopTicks)
    BY MqttAssumption
  <1>2. TickMod \div 2 \in Nat /\ 2 * (TickMod \div 2) <= TickMod
    BY <1>1
  <1> QED
    BY <1>1, <1>2

\* What the remainder is near the range of the counter.
LEMMA NearRange ==
    ASSUME NEW M \in Nat \ {0}, NEW z \in Int
    PROVE  /\ z % M \in 0..(M - 1)
           /\ 0 <= z /\ z < M => z % M = z
           /\ M <= z /\ z < 2 * M => z % M = z - M
           /\ (-M) <= z /\ z < 0 => z % M = z + M
  <1>1. z % M \in 0..(M - 1)
    OBVIOUS
  <1>2. 0 <= z /\ z < M => z % M = z
    OBVIOUS
  <1>3. M <= z /\ z < 2 * M => z % M = z - M
    OBVIOUS
  <1>4. (-M) <= z /\ z < 0 => z % M = z + M
    OBVIOUS
  <1> QED
    BY <1>1, <1>2, <1>3, <1>4

\* Two times that are a and b ticks from now: After compares the distances,
\* whatever the counter wrapped to.
LEMMA AfterDistance ==
    ASSUME NEW t \in 0..(TickMod - 1),
           NEW a \in (-LoopTicks)..ResendTimeout, NEW b \in (-LoopTicks)..ResendTimeout
    PROVE  After((t + a) % TickMod, (t + b) % TickMod) <=> a > b
  <1> DEFINE M == TickMod
             H == TickMod \div 2
             u == t + a
             v == t + b
             x == u % M
             y == v % M
             w == x - y
  <1>1. /\ M \in Nat \ {0} /\ LoopTicks \in Nat /\ ResendTimeout \in Nat /\ H \in Nat
        /\ 2 * H <= M /\ ResendTimeout + LoopTicks <= H - 1
    BY TickRange
  <1>2. t \in Int /\ a \in Int /\ b \in Int /\ 0 <= t /\ t < M /\ u \in Int /\ v \in Int
    BY <1>1
  <1>3. After(x, y) <=> w % M \in 1..(H - 1)
    BY DEF After
  <1>4. u = t + a /\ v = t + b
    OBVIOUS
  <1> HIDE DEF u, v, M, H
  <1>5. /\ x \in 0..(M - 1)
        /\ 0 <= u /\ u < M => x = u
        /\ M <= u /\ u < 2 * M => x = u - M
        /\ (-M) <= u /\ u < 0 => x = u + M
    BY <1>1, <1>2, NearRange, Zenon
  <1>6. /\ y \in 0..(M - 1)
        /\ 0 <= v /\ v < M => y = v
        /\ M <= v /\ v < 2 * M => y = v - M
        /\ (-M) <= v /\ v < 0 => y = v + M
    BY <1>1, <1>2, NearRange, Zenon
  <1> HIDE DEF x, y
  <1>7. w = x - y /\ w \in Int
    BY <1>1, <1>5, <1>6
  <1> HIDE DEF w
  <1>8. /\ 0 <= w /\ w < M => w % M = w
        /\ (-M) <= w /\ w < 0 => w % M = w + M
    BY <1>1, <1>7, NearRange, Zenon
  <1>9. w \in {a - b, a - b + M, a - b - M}
    BY <1>1, <1>2, <1>4, <1>5, <1>6, <1>7
  <1>10. a - b <= H - 1 /\ (-(H - 1)) <= a - b
    BY <1>1, <1>2
  <1>11. w % M \in 1..(H - 1) <=> a > b
    BY <1>1, <1>2, <1>5, <1>6, <1>7, <1>8, <1>9, <1>10
  <1> QED
    BY <1>3, <1>11 DEF x, y, u, v, M

\* The distance of now: a time is not after now when it is not ahead, and then
\* it is as long overdue as it is behind.
LEMMA OverdueDistance ==
    ASSUME NEW t \in 0..(TickMod - 1), NEW a \in (-LoopTicks)..ResendTimeout
    PROVE  /\ After((t + a) % TickMod, t) <=> a > 0
           /\ a <= 0 => (t - ((t + a) % TickMod)) % TickMod = -a
  <1> DEFINE M == TickMod
             u == t + a
             x == u % M
             w == t - x
  <1>1. /\ M \in Nat \ {0} /\ LoopTicks \in Nat /\ ResendTimeout \in Nat
        /\ ResendTimeout + LoopTicks < M
    BY TickRange
  <1>2. t \in Int /\ a \in Int /\ 0 <= t /\ t < M /\ u \in Int /\ u = t + a
    BY <1>1
  <1>3. (t + 0) % TickMod = t /\ 0 \in (-LoopTicks)..ResendTimeout
    BY <1>1, <1>2, NearRange
  <1>4. After((t + a) % TickMod, t) <=> a > 0
    BY <1>3, AfterDistance
  <1> HIDE DEF u, M
  <1>5. /\ x \in 0..(M - 1)
        /\ 0 <= u /\ u < M => x = u
        /\ (-M) <= u /\ u < 0 => x = u + M
    BY <1>1, <1>2, NearRange, Zenon
  <1> HIDE DEF x
  <1>6. w = t - x /\ w \in Int
    BY <1>1, <1>2, <1>5
  <1> HIDE DEF w
  <1>7. /\ 0 <= w /\ w < M => w % M = w
        /\ (-M) <= w /\ w < 0 => w % M = w + M
    BY <1>1, <1>6, NearRange, Zenon
  <1>8. a <= 0 => w % M = -a
    BY <1>1, <1>2, <1>5, <1>6, <1>7
  <1> QED
    BY <1>4, <1>8 DEF w, x, u, M

\* A tick later every time is one tick nearer.
LEMMA TickDistance ==
    ASSUME NEW t \in 0..(TickMod - 1), NEW a \in (-LoopTicks)..ResendTimeout
    PROVE  (t + a) % TickMod = (((t + 1) % TickMod) + (a - 1)) % TickMod
  <1> DEFINE M == TickMod
             n == t + 1
             n1 == n % M
             u == t + a
             v == n1 + (a - 1)
  <1>1. /\ M \in Nat \ {0} /\ LoopTicks \in Nat /\ ResendTimeout \in Nat
        /\ ResendTimeout + LoopTicks + 1 <= M
    BY TickRange
  <1>2. t \in Int /\ a \in Int /\ 0 <= t /\ t < M /\ u \in Int /\ u = t + a /\ n = t + 1 /\ n \in Int
    BY <1>1
  <1> HIDE DEF n, u, M
  <1>3. /\ 0 <= n /\ n < M => n1 = n
        /\ M <= n /\ n < 2 * M => n1 = n - M
    BY <1>1, <1>2, NearRange, Zenon
  <1> HIDE DEF n1
  <1>4. n1 = t + 1 \/ (n1 = 0 /\ t = M - 1)
    BY <1>1, <1>2, <1>3
  <1>5. v = n1 + a - 1 /\ v \in Int /\ (v = u \/ v = u - M)
    BY <1>1, <1>2, <1>4
  <1> HIDE DEF v
  <1>6. /\ 0 <= u /\ u < M => u % M = u
        /\ M <= u /\ u < 2 * M => u % M = u - M
        /\ (-M) <= u /\ u < 0 => u % M = u + M
    BY <1>1, <1>2, NearRange, Zenon
  <1>7. /\ 0 <= v /\ v < M => v % M = v
        /\ M <= v /\ v < 2 * M => v % M = v - M
        /\ (-M) <= v /\ v < 0 => v % M = v + M
    BY <1>1, <1>5, NearRange, Zenon
  <1>8. u % M = v % M
    BY <1>1, <1>2, <1>4, <1>5, <1>6, <1>7
  <1> QED
    BY <1>8 DEF u, v, n1, n, M
------------------------------------------------------------------------------
(* Sequences.                                                              *)

\* What Append does.
LEMMA AppendFacts ==
    ASSUME NEW S, NEW s \in Seq(S), NEW e \in S
    PROVE  /\ Append(s, e) \in Seq(S) /\ Len(Append(s, e)) = Len(s) + 1
           /\ \A i \in 1..Len(s) : Append(s, e)[i] = s[i]
           /\ Append(s, e)[Len(s) + 1] = e
           /\ Rg(Append(s, e)) = Rg(s) \cup {e}
  <1>1. /\ Append(s, e) \in Seq(S) /\ Len(Append(s, e)) = Len(s) + 1 /\ Len(s) \in Nat
        /\ \A i \in 1..Len(s) : Append(s, e)[i] = s[i]
        /\ Append(s, e)[Len(s) + 1] = e
    BY AppendProperties, LenProperties
  <1> DEFINE a == Append(s, e)
  <1> HIDE DEF a
  <1>2. \A i \in 1..Len(a) : a[i] = IF i = Len(s) + 1 THEN e ELSE s[i]
    BY <1>1 DEF a
  <1>3. Rg(a) = Rg(s) \cup {e}
    BY <1>1, <1>2 DEF Rg, a
  <1> QED
    BY <1>1, <1>3 DEF a

\* What Tail does.
LEMMA TailFacts ==
    ASSUME NEW S, NEW s \in Seq(S), s # <<>>
    PROVE  /\ Tail(s) \in Seq(S) /\ Len(s) \in Nat \ {0} /\ Len(Tail(s)) = Len(s) - 1
           /\ \A i \in 1..Len(Tail(s)) : Tail(s)[i] = s[i + 1]
           /\ Head(s) = s[1] /\ Head(s) \in S /\ Head(s) \in Rg(s)
           /\ Rg(Tail(s)) \subseteq Rg(s)
           /\ Rg(s) = Rg(Tail(s)) \cup {Head(s)}
  <1> DEFINE t == Tail(s)
  <1>1. /\ t \in Seq(S) /\ Len(s) \in Nat \ {0} /\ Len(t) = Len(s) - 1
        /\ \A i \in 1..Len(t) : t[i] = s[i + 1]
        /\ Head(s) = s[1] /\ Head(s) \in S
    BY HeadTailProperties, EmptySeq
  <1> HIDE DEF t
  <1>2. Head(s) \in Rg(s) /\ Rg(t) \subseteq Rg(s)
    BY <1>1 DEF Rg
  <1>3. \A i \in 2..Len(s) : i - 1 \in 1..Len(t) /\ t[i - 1] = s[i]
    BY <1>1
  <1>4. Rg(s) \subseteq Rg(t) \cup {Head(s)}
    BY <1>1, <1>3 DEF Rg
  <1> QED
    BY <1>1, <1>2, <1>4 DEF t

\* What RemoveAt does.
LEMMA RemoveFacts ==
    ASSUME NEW S, NEW s \in Seq(S), NEW i \in 1..Len(s)
    PROVE  /\ RemoveAt(s, i) \in Seq(S) /\ Len(RemoveAt(s, i)) = Len(s) - 1
           /\ \A j \in 1..(Len(s) - 1) :
                 RemoveAt(s, i)[j] = IF j < i THEN s[j] ELSE s[j + 1]
  <1> DEFINE a == SubSeq(s, 1, i - 1)
             b == SubSeq(s, i + 1, Len(s))
  <1>1. Len(s) \in Nat /\ i \in Int /\ \A j \in 1..Len(s) : s[j] \in S
    BY LenProperties, ElementOfSeq
  <1>2. /\ a \in Seq(S) /\ Len(a) = i - 1
        /\ \A j \in 1..(i - 1) : a[j] = s[j]
    <2>1. \A j \in 1..(i - 1) : s[j] \in S
      BY <1>1
    <2>2. /\ a \in Seq(S) /\ Len(a) = IF 1 <= i - 1 THEN (i - 1) - 1 + 1 ELSE 0
          /\ \A j \in 1..((i - 1) - 1 + 1) : a[j] = s[1 + j - 1]
      BY <1>1, <2>1, SubSeqProperties
    <2> HIDE DEF a
    <2> QED
      BY <1>1, <2>2
  <1>3. /\ b \in Seq(S) /\ Len(b) = Len(s) - i
        /\ \A j \in 1..(Len(s) - i) : b[j] = s[j + i]
    <2>1. \A j \in (i + 1)..Len(s) : s[j] \in S
      BY <1>1
    <2>2. /\ b \in Seq(S) /\ Len(b) = IF i + 1 <= Len(s) THEN Len(s) - (i + 1) + 1 ELSE 0
          /\ \A j \in 1..(Len(s) - (i + 1) + 1) : b[j] = s[(i + 1) + j - 1]
      BY <1>1, <2>1, SubSeqProperties
    <2> HIDE DEF b
    <2> QED
      BY <1>1, <2>2
  <1> HIDE DEF a, b
  <1>4. /\ a \o b \in Seq(S) /\ Len(a \o b) = Len(a) + Len(b)
        /\ \A j \in 1..(Len(a) + Len(b)) : (a \o b)[j] = IF j <= Len(a) THEN a[j] ELSE b[j - Len(a)]
    BY <1>2, <1>3, ConcatProperties
  <1>5. RemoveAt(s, i) = a \o b
    BY DEF RemoveAt, a, b
  <1> DEFINE r == a \o b
  <1> HIDE DEF r
  <1>6. \A j \in 1..(Len(s) - 1) : r[j] = IF j < i THEN s[j] ELSE s[j + 1]
    <2> SUFFICES ASSUME NEW j \in 1..(Len(s) - 1) PROVE r[j] = IF j < i THEN s[j] ELSE s[j + 1]
      OBVIOUS
    <2>1. r[j] = IF j <= i - 1 THEN a[j] ELSE b[j - (i - 1)]
      BY <1>1, <1>2, <1>3, <1>4 DEF r
    <2>2. CASE j < i
      BY <1>1, <1>2, <2>1, <2>2
    <2>3. CASE ~(j < i)
      <3>1. j - (i - 1) \in 1..(Len(s) - i) /\ (j - (i - 1)) + i = j + 1
        BY <1>1, <2>3
      <3> QED
        BY <1>1, <1>3, <2>1, <2>3, <3>1
    <2> QED
      BY <2>2, <2>3
  <1> QED
    BY <1>1, <1>2, <1>3, <1>4, <1>5, <1>6 DEF r

\* A set of positions that is not empty has a least element.
LEMMA LeastPosition ==
    ASSUME NEW S \in SUBSET Nat, S # {} PROVE Min(S) \in S
  <1> DEFINE R == {ss \in Nat \X Nat : ss[1] < ss[2]}
  <1>1. IsWellFoundedOn(R, Nat)
    BY NatLessThanWellFounded, Zenon DEF OpToRel
  <1>2. PICK x \in S : \A y \in S : ~(<<y, x>> \in R)
    <2> HIDE DEF R
    <2> QED
      BY <1>1, WFMin, Zenon
  <1>3. \A y \in S : x <= y
    <2> SUFFICES ASSUME NEW y \in S PROVE x <= y
      OBVIOUS
    <2>1. x \in Nat /\ y \in Nat /\ (y < x => <<y, x>> \in R)
      OBVIOUS
    <2> QED
      BY <1>2, <2>1
  <1> QED
    BY <1>3, Zenon DEF Min

\* RemovePacketFromQueue looks for an identifier: it finds an entry with it, or
\* there is none.
LEMMA InQueueFacts ==
    ASSUME NEW x, queue \in Seq(Entries)
    PROVE  /\ InQueue(x) \in 0..Len(queue)
           /\ InQueue(x) # 0 => queue[InQueue(x)].packet.id = x
           /\ InQueue(x) = 0 => \A i \in 1..Len(queue) : queue[i].packet.id # x
  <1> DEFINE I == {i \in 1..Len(queue) : queue[i].packet.id = x}
  <1>1. InQueue(x) = IF I # {} THEN Min(I) ELSE 0
    BY Zenon DEF InQueue, SelectInSeq
  <1>2. Len(queue) \in Nat
    BY LenProperties
  <1>3. CASE I = {}
    BY <1>1, <1>2, <1>3
  <1>4. CASE I # {}
    <2>1. I \in SUBSET Nat
      OBVIOUS
    <2>2. Min(I) \in I
      BY <1>4, <2>1, LeastPosition, Zenon
    <2> QED
      BY <1>1, <1>2, <1>4, <2>2
  <1> QED
    BY <1>3, <1>4
------------------------------------------------------------------------------
(* The retransmission queue.                                               *)

\* d[i] is how many ticks from now the i-th packet is due: at most the loop time
\* in the past, at most the timeout in the future, and in the queue's order.
Sched(q, t, d) ==
    \A i \in 1..Len(q) :
        /\ d[i] \in (-LoopTicks)..ResendTimeout
        /\ q[i].at = (t + d[i]) % TickMod
        /\ \A j \in 1..Len(q) : i < j => d[i] <= d[j]

GoodQueue(q, t) ==
    /\ q \in Seq(Entries)
    /\ \A i \in 1..Len(q) : q[i].packet.type \in Requests
    /\ \E d \in [1..Len(q) -> Int] : Sched(q, t, d)

\* A good queue is sorted, also when the counter wraps.
LEMMA GoodIsSorted ==
    ASSUME now \in 0..(TickMod - 1), GoodQueue(queue, now) PROVE QueueSorted
  <1>1. PICK d \in [1..Len(queue) -> Int] : Sched(queue, now, d)
    BY DEF GoodQueue
  <1> SUFFICES ASSUME NEW i \in 1..Len(queue), NEW j \in 1..Len(queue), i < j
               PROVE  ~After(queue[i].at, queue[j].at)
    BY DEF QueueSorted
  <1>2. /\ d[i] \in (-LoopTicks)..ResendTimeout /\ d[j] \in (-LoopTicks)..ResendTimeout
        /\ queue[i].at = (now + d[i]) % TickMod /\ queue[j].at = (now + d[j]) % TickMod
        /\ d[i] <= d[j]
    BY <1>1 DEF Sched
  <1>3. After(queue[i].at, queue[j].at) <=> d[i] > d[j]
    BY <1>2, AfterDistance
  <1> QED
    BY <1>2, <1>3

\* The empty queue is good.
LEMMA GoodEmpty == ASSUME NEW t PROVE GoodQueue(<<>>, t)
  <1>1. <<>> \in Seq(Entries) /\ Len(<<>>) = 0
    BY EmptySeq
  <1> DEFINE q == <<>>
             d == [i \in 1..Len(q) |-> 0]
  <1>2. d \in [1..Len(q) -> Int] /\ q \in Seq(Entries) /\ \A i \in 1..Len(q) : FALSE
    BY <1>1
  <1> HIDE DEF q, d
  <1>3. GoodQueue(q, t)
    BY <1>2, Zenon DEF GoodQueue, Sched
  <1> QED
    BY <1>3 DEF q

\* A queue without one of its entries is good.
LEMMA GoodWithout ==
    ASSUME NEW q, NEW t, GoodQueue(q, t), NEW i \in 1..Len(q), NEW r \in Seq(Entries),
           Len(r) = Len(q) - 1,
           \A j \in 1..(Len(q) - 1) : r[j] = IF j < i THEN q[j] ELSE q[j + 1]
    PROVE  GoodQueue(r, t)
  <1>1. PICK d \in [1..Len(q) -> Int] : Sched(q, t, d)
    BY DEF GoodQueue
  <1>2. Len(q) \in Nat /\ q \in Seq(Entries)
    BY LenProperties DEF GoodQueue
  <1> DEFINE pos(j) == IF j < i THEN j ELSE j + 1
             e == [j \in 1..Len(r) |-> d[pos(j)]]
  <1>3. \A j \in 1..Len(r) : pos(j) \in 1..Len(q) /\ r[j] = q[pos(j)] /\ e[j] = d[pos(j)]
    BY <1>2
  <1>4. \A j, k \in 1..Len(r) : j < k => pos(j) < pos(k)
    BY <1>2
  <1>5. e \in [1..Len(r) -> Int]
    BY <1>3
  <1> HIDE DEF e, pos
  <1>6. Sched(r, t, e)
    <2> SUFFICES ASSUME NEW j \in 1..Len(r)
                 PROVE  /\ e[j] \in (-LoopTicks)..ResendTimeout
                        /\ r[j].at = (t + e[j]) % TickMod
                        /\ \A k \in 1..Len(r) : j < k => e[j] <= e[k]
      BY DEF Sched
    <2>1. pos(j) \in 1..Len(q) /\ r[j] = q[pos(j)] /\ e[j] = d[pos(j)]
      BY <1>3
    <2>2. d[pos(j)] \in (-LoopTicks)..ResendTimeout /\ q[pos(j)].at = (t + d[pos(j)]) % TickMod
      BY <1>1, <2>1, Zenon DEF Sched
    <2>3. ASSUME NEW k \in 1..Len(r), j < k PROVE e[j] <= e[k]
      <3>1. pos(k) \in 1..Len(q) /\ e[k] = d[pos(k)] /\ pos(j) < pos(k)
        BY <1>3, <1>4, <2>3
      <3> QED
        BY <1>1, <2>1, <3>1, Zenon DEF Sched
    <2> QED
      BY <2>1, <2>2, <2>3
  <1>7. \A j \in 1..Len(r) : r[j].packet.type \in Requests
    BY <1>3 DEF GoodQueue
  <1> QED
    BY <1>5, <1>6, <1>7 DEF GoodQueue

\* Taking an entry out keeps the queue good.
LEMMA GoodRemove ==
    ASSUME NEW q, NEW t, GoodQueue(q, t), NEW i \in 1..Len(q) PROVE GoodQueue(RemoveAt(q, i), t)
  <1>1. q \in Seq(Entries)
    BY DEF GoodQueue
  <1> DEFINE r == RemoveAt(q, i)
  <1>2. /\ r \in Seq(Entries) /\ Len(r) = Len(q) - 1
        /\ \A j \in 1..(Len(q) - 1) : r[j] = IF j < i THEN q[j] ELSE q[j + 1]
    BY <1>1, RemoveFacts
  <1> HIDE DEF r
  <1>3. GoodQueue(r, t)
    BY <1>2, GoodWithout
  <1> QED
    BY <1>3 DEF r

\* Taking the first entry out keeps the queue good.
LEMMA GoodTail ==
    ASSUME NEW q, NEW t, GoodQueue(q, t), q # <<>> PROVE GoodQueue(Tail(q), t)
  <1>1. q \in Seq(Entries)
    BY DEF GoodQueue
  <1> DEFINE r == Tail(q)
             n == Len(q) - 1
  <1>2. /\ r \in Seq(Entries) /\ Len(q) \in Nat \ {0} /\ Len(r) = Len(q) - 1
        /\ \A j \in 1..Len(r) : r[j] = q[j + 1]
    BY <1>1, TailFacts
  <1> HIDE DEF r
  <1>3. \A j \in 1..(Len(q) - 1) : r[j] = IF j < 1 THEN q[j] ELSE q[j + 1]
    BY <1>2
  <1>4. 1 \in 1..Len(q)
    BY <1>2
  <1>5. GoodQueue(r, t)
    BY <1>2, <1>3, <1>4, GoodWithout
  <1> QED
    BY <1>5 DEF r

\* InsertPacketIntoQueue: no packet is scheduled after the new one, because
\* all wait the same time, so it goes to the end and the queue stays good.
LEMMA GoodInsert ==
    ASSUME NEW q, now \in 0..(TickMod - 1), GoodQueue(q, now),
           NEW p \in Packets, p.type \in Requests, NEW n \in Int
    PROVE  /\ QueueEntry(p, n) \in Entries /\ q \in Seq(Entries)
           /\ Insert(q, QueueEntry(p, n)) = Append(q, QueueEntry(p, n))
           /\ GoodQueue(Append(q, QueueEntry(p, n)), now)
  <1> DEFINE e == QueueEntry(p, n)
             a == Append(q, e)
  <1>1. PICK d \in [1..Len(q) -> Int] : Sched(q, now, d)
    BY DEF GoodQueue
  <1>2. q \in Seq(Entries) /\ Len(q) \in Nat
    BY LenProperties DEF GoodQueue
  <1>3. ResendTimeout \in (-LoopTicks)..ResendTimeout /\ ResendTimeout \in Int
    BY TickRange
  <1>4. /\ e \in Entries /\ e.packet = p /\ e.tries = n
        /\ e.at = (now + ResendTimeout) % TickMod
    <2> DEFINE at == (now + ResendTimeout) % TickMod
    <2>1. at \in 0..(TickMod - 1)
      BY TickRange, NearRange
    <2>2. e = [packet |-> p, tries |-> n, at |-> at]
      BY DEF QueueEntry
    <2> HIDE DEF at
    <2>3. e \in Entries /\ e.packet = p /\ e.tries = n /\ e.at = at
      BY <2>1, <2>2 DEF Entries
    <2> QED
      BY <2>3 DEF at
  <1> HIDE DEF e
  <1>5. \A i \in 1..Len(q) : ~After(q[i].at, e.at)
    <2> SUFFICES ASSUME NEW i \in 1..Len(q) PROVE ~After(q[i].at, e.at)
      OBVIOUS
    <2>1. d[i] \in (-LoopTicks)..ResendTimeout /\ q[i].at = (now + d[i]) % TickMod
      BY <1>1 DEF Sched
    <2>2. After(q[i].at, e.at) <=> d[i] > ResendTimeout
      BY <1>3, <1>4, <2>1, AfterDistance
    <2> QED
      BY <1>3, <2>1, <2>2, TickRange
  <1>6. Insert(q, e) = a
    <2> DEFINE I == {i \in 1..Len(q) : After(q[i].at, e.at)}
    <2>1. SelectInSeq(q, LAMBDA f : After(f.at, e.at)) = IF I # {} THEN Min(I) ELSE 0
      BY Zenon DEF SelectInSeq
    <2>2. I = {}
      BY <1>5
    <2>3. SelectInSeq(q, LAMBDA f : After(f.at, e.at)) = 0
      BY <2>1, <2>2, Zenon
    <2>4. Insert(q, e) = InsertAt(q, Len(q) + 1, e)
      BY <2>3, Zenon DEF Insert
    <2>5. SubSeq(q, 1, (Len(q) + 1) - 1) = q
      <3>1. (Len(q) + 1) - 1 = Len(q)
        BY <1>2
      <3> QED
        BY <1>2, <3>1, SubSeqFull
    <2>6. SubSeq(q, Len(q) + 1, Len(q)) = <<>>
      BY <1>2, SubSeqEmpty
    <2>7. InsertAt(q, Len(q) + 1, e) = q \o <<e>> \o <<>>
      BY <2>5, <2>6, Zenon DEF InsertAt
    <2>8. Append(q, e) = q \o <<e>> /\ Append(q, e) \in Seq(Entries)
      BY <1>2, <1>4, AppendIsConcat, AppendProperties
    <2>9. Append(q, e) \o <<>> = Append(q, e)
      BY <2>8, ConcatEmptySeq
    <2> QED
      BY <2>4, <2>7, <2>8, <2>9, Zenon
  <1>7. /\ a \in Seq(Entries) /\ Len(a) = Len(q) + 1
        /\ \A i \in 1..Len(q) : a[i] = q[i]
        /\ a[Len(q) + 1] = e
    BY <1>2, <1>4, AppendFacts
  <1> HIDE DEF a
  <1> DEFINE f == [i \in 1..Len(a) |-> IF i = Len(q) + 1 THEN ResendTimeout ELSE d[i]]
  <1>8. /\ f \in [1..Len(a) -> Int] /\ f[Len(q) + 1] = ResendTimeout
        /\ \A i \in 1..Len(q) : f[i] = d[i]
    BY <1>2, <1>3, <1>7
  <1> HIDE DEF f
  <1>9. Sched(a, now, f)
    <2> SUFFICES ASSUME NEW i \in 1..Len(a)
                 PROVE  /\ f[i] \in (-LoopTicks)..ResendTimeout
                        /\ a[i].at = (now + f[i]) % TickMod
                        /\ \A k \in 1..Len(a) : i < k => f[i] <= f[k]
      BY DEF Sched
    <2>1. \A k \in 1..Len(q) : d[k] \in (-LoopTicks)..ResendTimeout
      BY <1>1 DEF Sched
    <2>2. CASE i = Len(q) + 1
      BY <1>2, <1>3, <1>4, <1>7, <1>8, <2>2
    <2>3. CASE i # Len(q) + 1
      <3>1. i \in 1..Len(q) /\ a[i] = q[i] /\ f[i] = d[i]
        BY <1>2, <1>7, <1>8, <2>3
      <3>2. q[i].at = (now + d[i]) % TickMod
        BY <1>1, <3>1 DEF Sched
      <3>3. ASSUME NEW k \in 1..Len(a), i < k PROVE f[i] <= f[k]
        <4>1. CASE k = Len(q) + 1
          BY <1>3, <1>8, <2>1, <3>1, <4>1, TickRange
        <4>2. CASE k # Len(q) + 1
          <5>1. k \in 1..Len(q) /\ f[k] = d[k]
            BY <1>2, <1>7, <1>8, <4>2
          <5> QED
            BY <1>1, <3>1, <3>3, <5>1, Zenon DEF Sched
        <4> QED
          BY <4>1, <4>2
      <3> QED
        BY <2>1, <3>1, <3>2, <3>3
    <2> QED
      BY <2>2, <2>3
  <1>10. \A i \in 1..Len(a) : a[i].packet.type \in Requests
    BY <1>2, <1>4, <1>7 DEF GoodQueue
  <1>11. GoodQueue(a, now)
    BY <1>7, <1>8, <1>9, <1>10 DEF GoodQueue
  <1> QED
    BY <1>2, <1>4, <1>6, <1>11 DEF a, e

\* Time passes only while nothing is overdue by the loop time: the queue stays
\* good.
LEMMA GoodTick ==
    ASSUME NEW q, NEW t \in 0..(TickMod - 1), GoodQueue(q, t),
           q # <<>> => \/ After(Head(q).at, t)
                       \/ (t - Head(q).at) % TickMod < LoopTicks
    PROVE  GoodQueue(q, (t + 1) % TickMod)
  <1>1. PICK d \in [1..Len(q) -> Int] : Sched(q, t, d)
    BY DEF GoodQueue
  <1>2. q \in Seq(Entries) /\ Len(q) \in Nat
    BY LenProperties DEF GoodQueue
  <1>3. \A i \in 1..Len(q) : d[i] \in (-LoopTicks)..ResendTimeout
    BY <1>1 DEF Sched
  <1>4. ASSUME NEW i \in 1..Len(q) PROVE d[i] > -LoopTicks
    <2>1. q # <<>> /\ 1 \in 1..Len(q) /\ Head(q) = q[1]
      BY <1>2
    <2>2. /\ d[1] \in (-LoopTicks)..ResendTimeout /\ q[1].at = (t + d[1]) % TickMod
          /\ 1 < i => d[1] <= d[i]
      BY <1>1, <2>1 DEF Sched
    <2>3. /\ After(q[1].at, t) <=> d[1] > 0
          /\ d[1] <= 0 => (t - q[1].at) % TickMod = -d[1]
      BY <2>2, OverdueDistance
    <2>4. d[1] > -LoopTicks
      BY <2>1, <2>2, <2>3, TickRange
    <2> QED
      BY <1>2, <1>3, <2>1, <2>2, <2>4, TickRange
  <1> DEFINE e == [i \in 1..Len(q) |-> d[i] - 1]
             n == (t + 1) % TickMod
  <1>5. e \in [1..Len(q) -> Int] /\ \A i \in 1..Len(q) : e[i] = d[i] - 1
    OBVIOUS
  <1> HIDE DEF e
  <1>6. Sched(q, n, e)
    <2> SUFFICES ASSUME NEW i \in 1..Len(q)
                 PROVE  /\ e[i] \in (-LoopTicks)..ResendTimeout
                        /\ q[i].at = (n + e[i]) % TickMod
                        /\ \A k \in 1..Len(q) : i < k => e[i] <= e[k]
      BY DEF Sched
    <2>1. e[i] \in (-LoopTicks)..ResendTimeout
      BY <1>3, <1>4, <1>5, TickRange
    <2>2. q[i].at = (t + d[i]) % TickMod
      BY <1>1 DEF Sched
    <2>3. (t + d[i]) % TickMod = (n + (d[i] - 1)) % TickMod
      BY <1>3, TickDistance
    <2>4. ASSUME NEW k \in 1..Len(q), i < k PROVE e[i] <= e[k]
      <3>1. d[i] <= d[k]
        BY <1>1, <2>4 DEF Sched
      <3> QED
        BY <1>5, <3>1
    <2> QED
      BY <1>5, <2>1, <2>2, <2>3, <2>4
  <1> QED
    BY <1>5, <1>6 DEF GoodQueue

------------------------------------------------------------------------------
(* The client by itself, whatever the broker sends.                        *)

ClientTypes ==
    /\ status \in Statuses /\ socket \in BOOLEAN
    /\ timer \in [on : BOOLEAN, at : Int]
    /\ nextId \in Nat /\ store \in SUBSET Nat
    /\ now \in 0..(TickMod - 1)
    /\ toBroker \in Seq(Packets) /\ toClient \in Seq(Packets)
    /\ received \in Seq(Nat)

\* The invariant of CMQTTClient: what exists in which state, and the queue.
ClientInv ==
    /\ ClientTypes
    /\ SocketMatchesStatus /\ TimerMatchesStatus
    /\ status = "Disconnected" => toBroker = <<>> /\ toClient = <<>>
    /\ GoodQueue(queue, now)

\* A packet has the types of its fields.
LEMMA PacketFacts ==
    ASSUME NEW t \in Types, NEW i \in Nat, NEW q \in Nat, NEW m \in Nat
    PROVE  /\ Packet(t, i, q, m) \in Packets
           /\ Packet(t, i, q, m).type = t /\ Packet(t, i, q, m).id = i
           /\ Packet(t, i, q, m).qos = q /\ Packet(t, i, q, m).msg = m
  BY DEF Packet, Packets

\* The packets that Receiver answers with.
LEMMA AnswerPackets ==
    ASSUME NEW x \in Nat, NEW m \in Nat
    PROVE  /\ \A t \in {"PubAck", "PubRec", "PubComp"} :
                 Packet(t, x, 0, 0) \in Packets /\ Packet(t, x, 0, 0).type = t
           /\ Packet("PubRel", x, 2, m) \in Packets /\ Packet("PubRel", x, 2, m).type = "PubRel"
  <1>1. {"PubAck", "PubRec", "PubComp", "PubRel"} \subseteq Types
    BY DEF Types, Answering
  <1>2. 0 \in Nat /\ 2 \in Nat
    OBVIOUS
  <1>3. ASSUME NEW t \in {"PubAck", "PubRec", "PubComp"}
        PROVE  Packet(t, x, 0, 0) \in Packets /\ Packet(t, x, 0, 0).type = t
    <2>1. t \in Types
      BY <1>1, <1>3, Zenon
    <2> QED
      BY <2>1 DEF Packet, Packets
  <1>4. Packet("PubRel", x, 2, m) \in Packets /\ Packet("PubRel", x, 2, m).type = "PubRel"
    <2> DEFINE r == "PubRel"
    <2>1. r \in Types
      BY <1>1
    <2> HIDE DEF r
    <2>2. Packet(r, x, 2, m) \in Packets /\ Packet(r, x, 2, m).type = r
      BY <2>1 DEF Packet, Packets
    <2> QED
      BY <2>2 DEF r
  <1> QED
    BY <1>3, <1>4, Zenon

\* The timer that TimerIn sets.
LEMMA TimerFacts ==
    ASSUME NEW n \in Nat, now \in 0..(TickMod - 1)
    PROVE  /\ TimerIn(n) \in [on : BOOLEAN, at : Int] /\ TimerIn(n).on = TRUE
           /\ TimerOff \in [on : BOOLEAN, at : Int] /\ TimerOff.on = FALSE
  <1>1. (now + n) % TickMod \in Int
    BY TickRange, NearRange
  <1> QED
    BY <1>1 DEF TimerIn, TimerOff

\* The state after CloseConnection.
Down ==
    /\ status' = "Disconnected" /\ socket' = FALSE
    /\ timer' \in [on : BOOLEAN, at : Int] /\ timer'.on = FALSE
    /\ queue' = <<>> /\ store' = {}
    /\ toBroker' = <<>> /\ toClient' = <<>>

\* CloseConnection leaves nothing behind, also when it finds the client
\* disconnected.
LEMMA CloseFacts ==
    ASSUME ClientInv, NEW why, CloseConnection(why) PROVE Down
  <1>1. CASE status = "Disconnected"
    BY <1>1, Zenon DEF CloseConnection, Down, ClientInv, ClientTypes, SocketMatchesStatus
  <1>2. CASE status # "Disconnected"
    <2>1. TimerOff \in [on : BOOLEAN, at : Int] /\ TimerOff.on = FALSE
      BY DEF TimerOff
    <2> QED
      BY <1>2, <2>1 DEF CloseConnection, Down
  <1> QED
    BY <1>1, <1>2

\* Being disconnected satisfies the invariant.
LEMMA DownStep ==
    ASSUME ClientInv, Down, now' = now, nextId' \in Nat, received' \in Seq(Nat)
    PROVE  ClientInv'
  <1>1. GoodQueue(queue', now')
    BY GoodEmpty, Zenon DEF Down
  <1>2. toBroker' \in Seq(Packets) /\ toClient' \in Seq(Packets) /\ store' \in SUBSET Nat
    BY EmptySeq DEF Down
  <1>3. ClientTypes'
    BY <1>2 DEF Down, ClientInv, ClientTypes, Statuses
  <1>4. SocketMatchesStatus' /\ TimerMatchesStatus'
    BY DEF Down, SocketMatchesStatus, TimerMatchesStatus
  <1>5. toBroker' = <<>> /\ toClient' = <<>>
    BY DEF Down
  <1> QED
    BY <1>1, <1>3, <1>4, <1>5 DEF ClientInv

\* A packet that is not a PINGREQ is sent.
LEMMA TransmitFacts ==
    ASSUME ClientInv, NEW p \in Packets, p.type \notin {"PingReq", "Disconnect"}, Transmit(p)
    PROVE  /\ status # "Disconnected" /\ status' = status
           /\ toBroker' = Append(toBroker, p) /\ toBroker' \in Seq(Packets)
           /\ timer' \in [on : BOOLEAN, at : Int]
           /\ timer' = timer \/ (status = "Connected" /\ KeepAlive > 0 /\ timer'.on = TRUE)
  <1>1. /\ status # "Disconnected" /\ toBroker' = Append(toBroker, p) /\ status' = status
        /\ timer' = IF status = "Connected" /\ KeepAlive > 0 THEN TimerIn(KeepAlive) ELSE timer
    BY DEF Transmit, KeepAliveOnSend
  <1>2. toBroker' \in Seq(Packets)
    BY <1>1, AppendFacts DEF ClientInv, ClientTypes
  <1>3. KeepAlive \in Nat
    BY MqttAssumption, TickRange
  <1>4. TimerIn(KeepAlive) \in [on : BOOLEAN, at : Int] /\ TimerIn(KeepAlive).on = TRUE
    BY <1>3, TimerFacts DEF ClientInv, ClientTypes
  <1> QED
    BY <1>1, <1>2, <1>4, Zenon DEF ClientInv, ClientTypes

\* The step of a connected client: the socket stays, the timer is left alone or
\* started in the state Connected.
Stays ==
    /\ status # "Disconnected" /\ status' = status /\ socket' = socket
    /\ timer' \in [on : BOOLEAN, at : Int]
    /\ timer' = timer \/ (status = "Connected" /\ KeepAlive > 0 /\ timer'.on = TRUE)
    /\ now' = now /\ nextId' \in Nat /\ received' \in Seq(Nat) /\ store' \in SUBSET Nat
    /\ toBroker' \in Seq(Packets) /\ toClient' \in Seq(Packets)
    /\ GoodQueue(queue', now')

\* Such a step keeps the invariant.
LEMMA StaysStep == ASSUME ClientInv, Stays PROVE ClientInv'
  <1>1. ClientTypes'
    BY DEF Stays, ClientInv, ClientTypes
  <1>2. SocketMatchesStatus'
    BY DEF Stays, ClientInv, SocketMatchesStatus
  <1>3. TimerMatchesStatus'
    BY DEF Stays, ClientInv, TimerMatchesStatus
  <1> QED
    BY <1>1, <1>2, <1>3 DEF Stays, ClientInv

\* The connection is closed.
Off == Down /\ now' = now /\ received' = received /\ nextId' \in Nat

\* CloseConnection in a handler that leaves the rest alone.
LEMMA OffFacts ==
    ASSUME ClientInv, NEW why, CloseConnection(why), UNCHANGED <<now, received>>, nextId' \in Nat
    PROVE  Off
  BY CloseFacts DEF Off

\* A handler answers the packet h of the broker with p and takes it.
Answers(h, p) ==
    /\ Stays /\ toClient # <<>> /\ h = Head(toClient) /\ toClient' = Tail(toClient)
    /\ toBroker' = Append(toBroker, p)

\* A handler takes the packet h of the broker and sends nothing.
Takes0(h) ==
    /\ Stays /\ toClient # <<>> /\ h = Head(toClient) /\ toClient' = Tail(toClient)
    /\ toBroker' = toBroker

\* The packet that a handler sees.
LEMMA HeadFacts ==
    ASSUME ClientInv, toClient # <<>>
    PROVE  /\ Head(toClient) \in Packets /\ Tail(toClient) \in Seq(Packets)
           /\ Head(toClient).id \in Nat /\ Head(toClient).msg \in Nat /\ Head(toClient).qos \in Nat
  <1>1. toClient \in Seq(Packets)
    BY DEF ClientInv, ClientTypes
  <1>2. Head(toClient) \in Packets /\ Tail(toClient) \in Seq(Packets)
    BY <1>1, TailFacts
  <1> QED
    BY <1>2 DEF Packets

\* Receiver sends the answer p.
LEMMA AnswerFacts ==
    ASSUME ClientInv, toClient # <<>>, NEW p \in Packets, p.type \notin {"PingReq", "Disconnect"},
           Transmit(p), Handled,
           UNCHANGED now, nextId' \in Nat, received' \in Seq(Nat), store' \in SUBSET Nat,
           GoodQueue(queue', now')
    PROVE  Answers(Head(toClient), p)
  <1>1. toClient' = Tail(toClient) /\ socket' = socket /\ toClient' \in Seq(Packets)
    BY HeadFacts DEF Handled
  <1>2. /\ status # "Disconnected" /\ status' = status
        /\ toBroker' = Append(toBroker, p) /\ toBroker' \in Seq(Packets)
        /\ timer' \in [on : BOOLEAN, at : Int]
        /\ timer' = timer \/ (status = "Connected" /\ KeepAlive > 0 /\ timer'.on = TRUE)
    BY TransmitFacts
  <1> QED
    BY <1>1, <1>2, Zenon DEF Answers, Stays

\* A packet of the broker that needs no answer.
LEMMA TakeFacts ==
    ASSUME ClientInv, status # "Disconnected", toClient # <<>>, Handled,
           UNCHANGED <<status, timer, toBroker, now>>, nextId' \in Nat, received' \in Seq(Nat),
           store' \in SUBSET Nat, GoodQueue(queue', now')
    PROVE  Takes0(Head(toClient))
  <1>1. toClient' = Tail(toClient) /\ socket' = socket /\ toClient' \in Seq(Packets)
    BY HeadFacts DEF Handled
  <1>2. toBroker' \in Seq(Packets) /\ timer' \in [on : BOOLEAN, at : Int]
    BY DEF ClientInv, ClientTypes
  <1> QED
    BY <1>1, <1>2 DEF Takes0, Stays

\* The handlers of PUBLISH: what they deliver and how they answer.
DoPublish0 ==
    LET h == Head(toClient)
    IN  /\ Takes0(h) /\ h.type = "Publish" /\ h.qos = 0
        /\ received' = Append(received, h.msg) /\ UNCHANGED <<queue, store>>

DoPublish1 ==
    LET h == Head(toClient)
    IN  /\ Answers(h, Packet("PubAck", h.id, 0, 0)) /\ h.type = "Publish" /\ h.qos = 1
        /\ received' = Append(received, h.msg) /\ UNCHANGED <<queue, store>>

DoPublish2 ==
    LET h == Head(toClient)
    IN  /\ Answers(h, Packet("PubRec", h.id, 0, 0)) /\ h.type = "Publish" /\ h.qos = 2
        /\ received' = IF h.id \in store THEN received ELSE Append(received, h.msg)
        /\ store' = store \cup {h.id} /\ UNCHANGED queue

DoPubRel ==
    LET h == Head(toClient)
    IN  /\ Answers(h, Packet("PubComp", h.id, 0, 0)) /\ h.type = "PubRel"
        /\ store' = store \ {h.id} /\ UNCHANGED <<queue, received>>

\* The handlers of acknowledgements: which entry they take out.
DoAck ==
    LET h == Head(toClient)
    IN  /\ Takes0(h) /\ h.type \in {"PubAck", "SubAck", "UnsubAck", "PubComp"}
        /\ \E i \in 1..Len(queue) :
              /\ queue[i].packet.id = h.id
              /\ queue[i].packet.qos = AckQoS(h.type)
              /\ queue' = RemoveAt(queue, i)
        /\ UNCHANGED <<store, received>>

DoPubRec ==
    LET h == Head(toClient)
    IN  /\ h.type = "PubRec"
        /\ \E i \in 1..Len(queue) :
              /\ queue[i].packet.id = h.id /\ queue[i].packet.qos = 2
              /\ Answers(h, Packet("PubRel", h.id, 2, queue[i].packet.msg))
              /\ queue' = Append(RemoveAt(queue, i),
                       QueueEntry(Packet("PubRel", h.id, 2, queue[i].packet.msg), SendTries - 1))
        /\ UNCHANGED <<store, received>>

\* A received PUBLISH is delivered or the connection is closed.
LEMMA PublishFacts ==
    ASSUME ClientInv, ReceivePublish0 \/ ReceivePublish1 \/ ReceivePublish2
    PROVE  Off \/ DoPublish0 \/ DoPublish1 \/ DoPublish2
  <1>1. /\ toClient # <<>> /\ status # "Disconnected" /\ nextId' = nextId /\ now' = now
        /\ nextId' \in Nat
    BY DEF ReceivePublish0, ReceivePublish1, ReceivePublish2, Receive, ClientInv, ClientTypes
  <1> DEFINE h == Head(toClient)
  <1>2. h.id \in Nat /\ h.msg \in Nat
    BY <1>1, HeadFacts
  <1>3. Append(received, h.msg) \in Seq(Nat) /\ received \in Seq(Nat) /\ store \in SUBSET Nat
    <2>1. received \in Seq(Nat) /\ store \in SUBSET Nat
      BY DEF ClientInv, ClientTypes
    <2> QED
      BY <1>2, <2>1, AppendFacts
  <1>4. GoodQueue(queue, now)
    BY DEF ClientInv
  <1>5. CASE ReceivePublish0
    <2>1. /\ h.type = "Publish" /\ h.qos = 0 /\ received' = Append(received, h.msg) /\ Handled
          /\ UNCHANGED <<status, timer, nextId, queue, store, now, toBroker>>
      BY <1>5 DEF ReceivePublish0, Receive
    <2>2. GoodQueue(queue', now') /\ received' \in Seq(Nat) /\ store' \in SUBSET Nat
      BY <1>3, <1>4, <2>1
    <2>3. Takes0(h)
      BY <1>1, <2>1, <2>2, TakeFacts
    <2> QED
      BY <2>1, <2>3 DEF DoPublish0
  <1>6. CASE ReceivePublish1
    <2>1. h.type = "Publish" /\ h.qos = 1
      BY <1>6 DEF ReceivePublish1, Receive
    <2>2. CASE CloseConnection("SendFailed") /\ UNCHANGED received
      BY <1>1, <2>2, OffFacts
    <2>3. CASE /\ Transmit(Packet("PubAck", h.id, 0, 0))
               /\ received' = Append(received, h.msg) /\ Handled
               /\ UNCHANGED <<queue, store>>
      <3>1. GoodQueue(queue', now') /\ received' \in Seq(Nat) /\ store' \in SUBSET Nat
        BY <1>1, <1>3, <1>4, <2>3
      <3>2. Answers(h, Packet("PubAck", h.id, 0, 0))
        <4> DEFINE p == Packet("PubAck", h.id, 0, 0)
        <4>1. p \in Packets /\ p.type = "PubAck" /\ Transmit(p)
          <5>1. Transmit(p)
            BY <2>3, Zenon
          <5> DEFINE x == h.id
          <5>2. p = Packet("PubAck", x, 0, 0) /\ x \in Nat
            BY <1>2, Zenon
          <5> HIDE DEF x, p
          <5> QED
            BY <5>1, <5>2, AnswerPackets, Zenon
        <4> HIDE DEF p
        <4>2. Answers(h, p)
          BY <1>1, <2>3, <3>1, <4>1, AnswerFacts
        <4> QED
          BY <4>2 DEF p
      <3> QED
        BY <2>1, <2>3, <3>2 DEF DoPublish1
    <2> QED
      BY <1>6, <2>2, <2>3 DEF ReceivePublish1
  <1>7. CASE ReceivePublish2
    <2>1. h.type = "Publish" /\ h.qos = 2
      BY <1>7 DEF ReceivePublish2, Receive
    <2>2. CASE CloseConnection("SendFailed") /\ UNCHANGED received
      BY <1>1, <2>2, OffFacts
    <2>3. CASE /\ Transmit(Packet("PubRec", h.id, 0, 0))
               /\ store' = store \cup {h.id}
               /\ received' = IF h.id \in store THEN received ELSE Append(received, h.msg)
               /\ Handled /\ UNCHANGED queue
      <3>1. GoodQueue(queue', now') /\ received' \in Seq(Nat) /\ store' \in SUBSET Nat
        BY <1>1, <1>2, <1>3, <1>4, <2>3
      <3>2. Answers(h, Packet("PubRec", h.id, 0, 0))
        <4> DEFINE p == Packet("PubRec", h.id, 0, 0)
        <4>1. p \in Packets /\ p.type = "PubRec" /\ Transmit(p)
          <5>1. Transmit(p)
            BY <2>3, Zenon
          <5> DEFINE x == h.id
          <5>2. p = Packet("PubRec", x, 0, 0) /\ x \in Nat
            BY <1>2, Zenon
          <5> HIDE DEF x, p
          <5> QED
            BY <5>1, <5>2, AnswerPackets, Zenon
        <4> HIDE DEF p
        <4>2. Answers(h, p)
          BY <1>1, <2>3, <3>1, <4>1, AnswerFacts
        <4> QED
          BY <4>2 DEF p
      <3> QED
        BY <2>1, <2>3, <3>2 DEF DoPublish2
    <2> QED
      BY <1>7, <2>2, <2>3 DEF ReceivePublish2
  <1> QED
    BY <1>5, <1>6, <1>7

\* A received PUBREL.
LEMMA PubRelFacts ==
    ASSUME ClientInv, ReceivePubRel PROVE Off \/ DoPubRel
  <1>1. /\ toClient # <<>> /\ status # "Disconnected" /\ nextId' = nextId /\ now' = now
        /\ received' = received /\ nextId' \in Nat /\ received' \in Seq(Nat)
    BY DEF ReceivePubRel, Receive, ClientInv, ClientTypes
  <1> DEFINE h == Head(toClient)
  <1>2. h.id \in Nat /\ h.type = "PubRel"
    BY <1>1, HeadFacts DEF ReceivePubRel, Receive
  <1>3. GoodQueue(queue, now) /\ store \in SUBSET Nat
    BY DEF ClientInv, ClientTypes
  <1>4. CASE CloseConnection("SendFailed")
    BY <1>1, <1>4, OffFacts
  <1>5. CASE /\ Transmit(Packet("PubComp", h.id, 0, 0))
             /\ store' = store \ {h.id} /\ Handled /\ UNCHANGED queue
    <2>1. GoodQueue(queue', now') /\ store' \in SUBSET Nat
      BY <1>1, <1>3, <1>5
    <2>2. Answers(h, Packet("PubComp", h.id, 0, 0))
      <3> DEFINE p == Packet("PubComp", h.id, 0, 0)
      <3>1. p \in Packets /\ p.type = "PubComp" /\ Transmit(p)
        <4>1. Transmit(p)
          BY <1>5, Zenon
        <4> DEFINE x == h.id
        <4>2. p = Packet("PubComp", x, 0, 0) /\ x \in Nat
          BY <1>2, Zenon
        <4> HIDE DEF x, p
        <4> QED
          BY <4>1, <4>2, AnswerPackets, Zenon
      <3> HIDE DEF p
      <3>2. Answers(h, p)
        BY <1>1, <1>5, <2>1, <3>1, AnswerFacts
      <3> QED
        BY <3>2 DEF p
    <2> QED
      BY <1>1, <1>2, <1>5, <2>2 DEF DoPubRel
  <1> QED
    BY <1>4, <1>5 DEF ReceivePubRel

\* A received acknowledgement.
LEMMA AckFacts ==
    ASSUME ClientInv, ReceiveAck PROVE Off \/ DoAck
  <1>1. /\ toClient # <<>> /\ status # "Disconnected" /\ nextId' = nextId /\ now' = now
        /\ received' = received /\ nextId' \in Nat /\ received' \in Seq(Nat)
    BY DEF ReceiveAck, Receive, ClientInv, ClientTypes
  <1> DEFINE h == Head(toClient)
             i == InQueue(h.id)
  <1>2. h.type \in {"PubAck", "SubAck", "UnsubAck", "PubComp"}
    BY DEF ReceiveAck, Receive
  <1>3. queue \in Seq(Entries) /\ GoodQueue(queue, now) /\ store \in SUBSET Nat
    BY DEF ClientInv, GoodQueue, ClientTypes
  <1>4. CASE \E why \in {"SubscribeError", "PacketIdentifier"} : CloseConnection(why)
    BY <1>1, <1>4, OffFacts
  <1>5. CASE /\ Expected(h) /\ queue' = RemoveAt(queue, InQueue(h.id)) /\ Handled
             /\ UNCHANGED <<status, timer, store, toBroker>>
    <2>1. i \in 1..Len(queue) /\ queue[i].packet.id = h.id
      <3>1. i \in 0..Len(queue) /\ (i # 0 => queue[i].packet.id = h.id)
        BY <1>3, InQueueFacts
      <3>2. i # 0 /\ Len(queue) \in Nat
        BY <1>3, <1>5, LenProperties DEF Expected
      <3> QED
        BY <3>1, <3>2
    <2>2. queue[i].packet.qos = AckQoS(h.type)
      BY <1>5 DEF Expected
    <2> HIDE DEF i
    <2>3. queue' = RemoveAt(queue, i)
      BY <1>5 DEF i
    <2>4. GoodQueue(queue', now')
      BY <1>1, <1>3, <2>1, <2>3, GoodRemove
    <2>5. Takes0(h)
      BY <1>1, <1>3, <1>5, <2>4, TakeFacts
    <2> QED
      BY <1>1, <1>2, <1>5, <2>1, <2>2, <2>3, <2>5 DEF DoAck
  <1> QED
    BY <1>4, <1>5 DEF ReceiveAck

\* A received PUBREC.
LEMMA PubRecFacts ==
    ASSUME ClientInv, ReceivePubRec PROVE Off \/ DoPubRec
  <1>1. /\ toClient # <<>> /\ status # "Disconnected" /\ nextId' = nextId /\ now' = now
        /\ received' = received /\ nextId' \in Nat /\ received' \in Seq(Nat)
    BY DEF ReceivePubRec, Receive, ClientInv, ClientTypes
  <1> DEFINE h == Head(toClient)
             i == InQueue(h.id)
             m == queue[i].packet.msg
             rel == Packet("PubRel", h.id, 2, m)
  <1>2. h.type = "PubRec" /\ h.id \in Nat
    BY <1>1, HeadFacts DEF ReceivePubRec, Receive
  <1>3. queue \in Seq(Entries) /\ GoodQueue(queue, now) /\ store \in SUBSET Nat /\ now \in 0..(TickMod - 1)
    BY DEF ClientInv, GoodQueue, ClientTypes
  <1>4. CASE \E why \in {"SendFailed", "PacketIdentifier"} : CloseConnection(why)
    BY <1>1, <1>4, OffFacts
  <1>5. CASE /\ i # 0 /\ queue[i].packet.qos = 2
             /\ Transmit(rel)
             /\ queue' = Insert(RemoveAt(queue, i), QueueEntry(rel, SendTries - 1))
             /\ Handled /\ UNCHANGED store
    <2>1. i \in 1..Len(queue) /\ queue[i].packet.id = h.id
      <3>1. i \in 0..Len(queue) /\ (i # 0 => queue[i].packet.id = h.id)
        BY <1>3, InQueueFacts
      <3>2. i # 0 /\ Len(queue) \in Nat
        BY <1>3, <1>5, LenProperties
      <3> QED
        BY <3>1, <3>2
    <2> HIDE DEF i
    <2>2. m \in Nat
      <3>1. queue[i] \in Entries
        BY <1>3, <2>1, ElementOfSeq
      <3> QED
        BY <3>1 DEF Entries, Packets
    <2>3. rel \in Packets /\ rel.type = "PubRel"
      <3> HIDE DEF m, h
      <3> QED
        BY <1>2, <2>2, AnswerPackets, Zenon
    <2>4. GoodQueue(RemoveAt(queue, i), now)
      BY <1>3, <2>1, GoodRemove
    <2>5. SendTries - 1 \in Int
      BY MqttAssumption
    <2>6. /\ queue' = Append(RemoveAt(queue, i), QueueEntry(rel, SendTries - 1))
          /\ GoodQueue(queue', now')
      <3> HIDE DEF rel
      <3>1. /\ Insert(RemoveAt(queue, i), QueueEntry(rel, SendTries - 1)) =
                  Append(RemoveAt(queue, i), QueueEntry(rel, SendTries - 1))
            /\ GoodQueue(Append(RemoveAt(queue, i), QueueEntry(rel, SendTries - 1)), now)
        BY <1>3, <2>3, <2>4, <2>5, GoodInsert DEF Requests
      <3> QED
        BY <1>1, <1>5, <3>1
    <2>7. Answers(h, rel)
      <3>1. Transmit(rel) /\ Handled /\ store' \in SUBSET Nat
        BY <1>3, <1>5
      <3> HIDE DEF rel
      <3> QED
        BY <1>1, <2>3, <2>6, <3>1, AnswerFacts
    <2> QED
      BY <1>1, <1>2, <1>5, <2>1, <2>6, <2>7 DEF DoPubRec
  <1> QED
    BY <1>4, <1>5 DEF ReceivePubRec

\* A packet of the broker that only concerns the connection.
DoOther ==
    /\ status # "Disconnected" /\ status' # "Disconnected"
    /\ toClient # <<>> /\ Head(toClient).type \in {"ConnAck", "PingResp"}
    /\ toClient' = Tail(toClient) /\ UNCHANGED <<queue, store, toBroker, received>>

\* CONNACK and PINGRESP: the state of the connection, and what they leave alone.
LEMMA ConnAckFacts ==
    ASSUME ClientInv, ReceiveConnAck PROVE Off \/ (DoOther /\ ClientInv')
  <1>1. /\ toClient # <<>> /\ status # "Disconnected" /\ UNCHANGED <<nextId, now, received>>
        /\ Head(toClient).type = "ConnAck" /\ nextId' \in Nat
    BY DEF ReceiveConnAck, Receive, ClientInv, ClientTypes
  <1>2. CASE \E why \in {"InvalidPacket", "Refused"} : CloseConnection(why)
    BY <1>1, <1>2, OffFacts
  <1>3. CASE /\ status = "ConnectPending" /\ status' = "Connected" /\ Handled
             /\ UNCHANGED <<timer, queue, store, toBroker>>
    <2>1. toClient' = Tail(toClient) /\ socket' = socket /\ toClient' \in Seq(Packets)
      BY <1>1, <1>3, HeadFacts DEF Handled
    <2>2. ClientTypes'
      BY <1>1, <1>3, <2>1 DEF ClientInv, ClientTypes, Statuses
    <2>3. SocketMatchesStatus'
      BY <1>1, <1>3, <2>1 DEF ClientInv, SocketMatchesStatus
    <2>4. TimerMatchesStatus'
      BY <1>3 DEF ClientInv, TimerMatchesStatus
    <2>5. GoodQueue(queue', now') /\ status' # "Disconnected"
      BY <1>1, <1>3 DEF ClientInv
    <2>6. ClientInv'
      BY <2>2, <2>3, <2>4, <2>5 DEF ClientInv
    <2> QED
      BY <1>1, <1>3, <2>1, <2>5, <2>6 DEF DoOther
  <1> QED
    BY <1>2, <1>3 DEF ReceiveConnAck

\* PINGRESP in the state WaitForPingResp, and otherwise.
LEMMA PingRespFacts ==
    ASSUME ClientInv, ReceivePingResp PROVE DoOther /\ ClientInv'
  <1>1. /\ toClient # <<>> /\ status # "Disconnected" /\ Head(toClient).type = "PingResp"
        /\ UNCHANGED <<nextId, now, received, queue, store, toBroker>>
        /\ status' = "Connected" /\ Handled
        /\ timer' = IF KeepAlive > 0 THEN TimerIn(KeepAlive) ELSE timer
    BY DEF ReceivePingResp, Receive
  <1>2. toClient' = Tail(toClient) /\ socket' = socket /\ toClient' \in Seq(Packets)
    BY <1>1, HeadFacts DEF Handled
  <1>3. KeepAlive \in Nat /\ now \in 0..(TickMod - 1)
    BY MqttAssumption, TickRange DEF ClientInv, ClientTypes
  <1>4. TimerIn(KeepAlive) \in [on : BOOLEAN, at : Int] /\ TimerIn(KeepAlive).on = TRUE
    BY <1>3, TimerFacts
  <1>5. timer \in [on : BOOLEAN, at : Int] /\ TimerMatchesStatus
    BY DEF ClientInv, ClientTypes
  <1>6. timer' \in [on : BOOLEAN, at : Int] /\ (timer'.on => KeepAlive > 0)
    BY <1>1, <1>4, <1>5 DEF TimerMatchesStatus
  <1>7. ClientTypes'
    BY <1>1, <1>2, <1>6 DEF ClientInv, ClientTypes, Statuses
  <1>8. SocketMatchesStatus'
    BY <1>1, <1>2 DEF ClientInv, SocketMatchesStatus
  <1>9. TimerMatchesStatus'
    BY <1>1, <1>6 DEF TimerMatchesStatus
  <1>10. GoodQueue(queue', now') /\ status' # "Disconnected"
    BY <1>1 DEF ClientInv
  <1>11. ClientInv'
    BY <1>7, <1>8, <1>9, <1>10 DEF ClientInv
  <1> QED
    BY <1>1, <1>2, <1>10, <1>11 DEF DoOther

\* A packet that is refused as such closes the connection.
LEMMA RefusedFacts == ASSUME ClientInv, ReceiveRefused PROVE Off
  <1>1. nextId' \in Nat
    BY DEF ReceiveRefused, ClientInv, ClientTypes
  <1> QED
    BY <1>1, OffFacts, Zenon DEF ReceiveRefused

\* Disconnect and the end of the stream.
LEMMA DisconnectFacts == ASSUME ClientInv, Disconnect \/ PeerCloses PROVE Off
  <1>1. nextId' \in Nat
    BY DEF Disconnect, PeerCloses, ClientInv, ClientTypes
  <1> QED
    BY <1>1, OffFacts, Zenon DEF Disconnect, PeerCloses

\* Closing keeps the invariant.
LEMMA OffStep == ASSUME ClientInv, Off PROVE ClientInv'
  <1>1. received' \in Seq(Nat)
    BY DEF Off, ClientInv, ClientTypes
  <1> QED
    BY <1>1, DownStep DEF Off

\* The application's request p is sent and, if it is to be acknowledged, queued.
DoRequest(p) ==
    /\ Stays /\ toBroker' = Append(toBroker, p)
    /\ queue' = IF p.qos > 0 THEN Append(queue, QueueEntry(p, SendTries - 1)) ELSE queue
    /\ UNCHANGED <<toClient, store, received>>

\* Subscribe, Unsubscribe and Publish.
LEMMA RequestFacts ==
    ASSUME ClientInv, NEW type \in {"Subscribe", "Unsubscribe", "Publish"}, NEW qos \in Nat, NEW msg \in Nat,
           Request(type, qos, msg)
    PROVE  Off \/ DoRequest(Packet(type, nextId, qos, msg))
  <1> DEFINE p == Packet(type, nextId, qos, msg)
  <1>1. UNCHANGED <<now, received>> /\ NextIdentifier
    BY DEF Request
  <1>2. /\ nextId \in Nat /\ now \in 0..(TickMod - 1) /\ GoodQueue(queue, now)
        /\ received \in Seq(Nat) /\ store \in SUBSET Nat /\ toClient \in Seq(Packets)
    BY DEF ClientInv, ClientTypes
  <1>3. nextId' \in Nat
    <2>1. IdMod \in Nat \ {0}
      BY MqttAssumption
    <2>2. (nextId + 1) % IdMod \in Nat
      BY <1>2, <2>1, NearRange
    <2> QED
      BY <1>1, <2>2 DEF NextIdentifier
  <1>4. CASE CloseConnection("SendFailed")
    BY <1>1, <1>3, <1>4, OffFacts
  <1>5. CASE /\ Transmit(p)
             /\ queue' = IF qos > 0 THEN Insert(queue, QueueEntry(p, SendTries - 1)) ELSE queue
             /\ UNCHANGED <<socket, store, reason, toClient>>
    <2>1. type \in Types /\ type \in Requests
      BY DEF Types, Requests
    <2>2. p \in Packets /\ p.type = type /\ p.qos = qos
      BY <1>2, <2>1 DEF Packet, Packets
    <2> HIDE DEF p
    <2>3. /\ status # "Disconnected" /\ status' = status
          /\ toBroker' = Append(toBroker, p) /\ toBroker' \in Seq(Packets)
          /\ timer' \in [on : BOOLEAN, at : Int]
          /\ timer' = timer \/ (status = "Connected" /\ KeepAlive > 0 /\ timer'.on = TRUE)
      BY <1>5, <2>2, TransmitFacts
    <2>4. SendTries - 1 \in Int
      BY MqttAssumption
    <2>5. /\ Insert(queue, QueueEntry(p, SendTries - 1)) = Append(queue, QueueEntry(p, SendTries - 1))
          /\ GoodQueue(Append(queue, QueueEntry(p, SendTries - 1)), now)
      BY <1>2, <2>1, <2>2, <2>4, GoodInsert
    <2>6. /\ queue' = IF p.qos > 0 THEN Append(queue, QueueEntry(p, SendTries - 1)) ELSE queue
          /\ GoodQueue(queue', now')
      BY <1>1, <1>2, <1>5, <2>2, <2>5
    <2>7. Stays
      BY <1>1, <1>2, <1>3, <1>5, <2>3, <2>6 DEF Stays
    <2> QED
      BY <1>1, <1>5, <2>3, <2>6, <2>7 DEF DoRequest, p
  <1> QED
    BY <1>4, <1>5 DEF Request

\* The first packet of the queue is sent again.
DoResend ==
    LET p == Head(queue).packet
    IN  /\ queue # <<>> /\ Stays /\ toBroker' = Append(toBroker, p)
        /\ queue' = Append(Tail(queue), QueueEntry(p, Head(queue).tries - 1))
        /\ UNCHANGED <<toClient, store, received>>

\* Sender.
LEMMA SenderFacts == ASSUME ClientInv, Sender PROVE Off \/ DoResend
  <1> DEFINE e == Head(queue)
             p == e.packet
             n == e.tries - 1
  <1>1. UNCHANGED <<now, received, nextId>> /\ queue # <<>>
    BY DEF Sender, Due
  <1>2. /\ nextId' \in Nat /\ now \in 0..(TickMod - 1) /\ GoodQueue(queue, now)
        /\ received \in Seq(Nat) /\ store \in SUBSET Nat /\ toClient \in Seq(Packets)
    BY <1>1 DEF ClientInv, ClientTypes
  <1>3. CASE CloseConnection("SendFailed")
    BY <1>1, <1>2, <1>3, OffFacts
  <1>4. CASE /\ Transmit(p) /\ queue' = Insert(Tail(queue), QueueEntry(p, n))
             /\ UNCHANGED <<socket, store, reason, toClient>>
    <2>1. queue \in Seq(Entries) /\ \A i \in 1..Len(queue) : queue[i].packet.type \in Requests
      BY <1>2 DEF GoodQueue
    <2>2. e = queue[1] /\ e \in Entries /\ 1 \in 1..Len(queue)
      BY <1>1, <2>1, TailFacts
    <2>3. p \in Packets /\ n \in Int /\ p.type \in Requests
      BY <2>1, <2>2 DEF Entries
    <2>4. GoodQueue(Tail(queue), now)
      BY <1>1, <1>2, GoodTail
    <2> HIDE DEF p, n, e
    <2>5. /\ Insert(Tail(queue), QueueEntry(p, n)) = Append(Tail(queue), QueueEntry(p, n))
          /\ GoodQueue(Append(Tail(queue), QueueEntry(p, n)), now)
      BY <1>2, <2>3, <2>4, GoodInsert
    <2>6. p.type \notin {"PingReq", "Disconnect"}
      BY <2>3 DEF Requests
    <2>7. /\ status # "Disconnected" /\ status' = status
          /\ toBroker' = Append(toBroker, p) /\ toBroker' \in Seq(Packets)
          /\ timer' \in [on : BOOLEAN, at : Int]
          /\ timer' = timer \/ (status = "Connected" /\ KeepAlive > 0 /\ timer'.on = TRUE)
      BY <1>4, <2>3, <2>6, TransmitFacts
    <2>8. queue' = Append(Tail(queue), QueueEntry(p, n)) /\ GoodQueue(queue', now')
      BY <1>1, <1>4, <2>5
    <2>9. Stays
      BY <1>1, <1>2, <1>4, <2>7, <2>8 DEF Stays
    <2> QED
      BY <1>1, <1>4, <2>7, <2>8, <2>9 DEF DoResend, p, n, e
  <1> QED
    BY <1>3, <1>4 DEF Sender

\* KeepAliveHandler sends a PINGREQ.
DoPing ==
    /\ status # "Disconnected" /\ status' # "Disconnected"
    /\ toBroker' = Append(toBroker, Packet("PingReq", 0, 0, 0))
    /\ UNCHANGED <<queue, store, toClient, received>>

\* The packets without a content that the client and the broker send.
LEMMA PlainPackets ==
    ASSUME NEW t \in Types, NEW x \in Nat, NEW c \in Nat
    PROVE  /\ Packet(t, x, c, 0) \in Packets /\ Packet(t, x, c, 0).type = t /\ Packet(t, x, c, 0).id = x
           /\ Packet(t, x, 0, 0) \in Packets /\ Packet(t, x, 0, 0).type = t /\ Packet(t, x, 0, 0).id = x
           /\ Packet(t, 1, 0, 0) \in Packets /\ Packet(t, 1, 0, 0).type = t
           /\ Packet(t, 0, 1, 0) \in Packets /\ Packet(t, 0, 1, 0).type = t
           /\ Packet(t, 0, 0, 0) \in Packets /\ Packet(t, 0, 0, 0).type = t
  BY DEF Packet, Packets

\* The keep alive timer has elapsed.
LEMMA KeepAliveFacts ==
    ASSUME ClientInv, KeepAliveHandler PROVE Off \/ (DoPing /\ ClientInv')
  <1>1. UNCHANGED <<now, received, nextId>> /\ status # "Disconnected" /\ timer.on
    BY DEF KeepAliveHandler, TimerDue
  <1>2. /\ nextId' \in Nat /\ now \in 0..(TickMod - 1) /\ GoodQueue(queue, now)
        /\ received \in Seq(Nat) /\ store \in SUBSET Nat /\ toClient \in Seq(Packets)
        /\ toBroker \in Seq(Packets)
    BY <1>1 DEF ClientInv, ClientTypes
  <1>3. CASE \E why \in {"SendFailed", "PingFailed"} : CloseConnection(why)
    BY <1>1, <1>2, <1>3, OffFacts
  <1>4. CASE /\ Transmit(Packet("PingReq", 0, 0, 0))
             /\ UNCHANGED <<socket, queue, store, reason, toClient>>
    <2> DEFINE p == Packet("PingReq", 0, 0, 0)
    <2>1. "PingReq" \in Types
      BY DEF Types
    <2>2. p \in Packets /\ p.type = "PingReq"
      <3> DEFINE t == "PingReq"
      <3> HIDE DEF t
      <3>1. Packet(t, 0, 0, 0) \in Packets /\ Packet(t, 0, 0, 0).type = t
        BY <2>1 DEF Packet, Packets, t
      <3> QED
        BY <3>1 DEF t
    <2> HIDE DEF p
    <2>3. Transmit(p)
      BY <1>4 DEF p
    <2>4. /\ toBroker' = Append(toBroker, p) /\ status' = "WaitForPingResp"
          /\ timer' = TimerIn(PingTimeout)
      BY <2>2, <2>3 DEF Transmit, KeepAliveOnSend
    <2>5. toBroker' \in Seq(Packets)
      BY <1>2, <2>2, <2>4, AppendFacts
    <2>6. PingTimeout \in Nat
      BY MqttAssumption, TickRange
    <2>7. timer' \in [on : BOOLEAN, at : Int] /\ timer'.on = TRUE
      BY <1>2, <2>4, <2>6, TimerFacts
    <2>8. ClientTypes'
      BY <1>1, <1>2, <1>4, <2>4, <2>5, <2>7 DEF ClientInv, ClientTypes, Statuses
    <2>9. SocketMatchesStatus'
      BY <1>1, <1>4, <2>4 DEF ClientInv, SocketMatchesStatus
    <2>10. TimerMatchesStatus'
      BY <1>1, <2>4, <2>7 DEF ClientInv, TimerMatchesStatus
    <2>11. ClientInv'
      BY <1>1, <1>2, <1>4, <2>4, <2>8, <2>9, <2>10 DEF ClientInv
    <2> QED
      BY <1>1, <1>4, <2>4, <2>11 DEF DoPing, p
  <1> QED
    BY <1>3, <1>4 DEF KeepAliveHandler

\* A tick.
LEMMA TickFacts == ASSUME ClientInv, Tick PROVE ClientInv'
  <1>1. /\ now \in 0..(TickMod - 1) /\ now' = (now + 1) % TickMod
        /\ UNCHANGED <<clientVars, toBroker, toClient>>
        /\ queue # <<>> => ~Overdue(Head(queue).at)
    BY DEF Tick, ClientInv, ClientTypes
  <1>2. queue # <<>> => \/ After(Head(queue).at, now)
                        \/ (now - Head(queue).at) % TickMod < LoopTicks
    <2>1. SUFFICES ASSUME queue # <<>>, ~After(Head(queue).at, now)
                   PROVE  (now - Head(queue).at) % TickMod < LoopTicks
      OBVIOUS
    <2> DEFINE x == Head(queue).at
    <2>2. queue \in Seq(Entries)
      BY DEF ClientInv, GoodQueue
    <2>3. Head(queue) \in Entries
      BY <2>1, <2>2, TailFacts
    <2>4. x \in Int
      BY <2>3, TickRange DEF Entries
    <2>5. ~((now - x) % TickMod >= LoopTicks)
      BY <1>1, <2>1 DEF Overdue
    <2> HIDE DEF x
    <2>6. now - x \in Int /\ TickMod \in Nat \ {0} /\ LoopTicks \in Nat
      BY <1>1, <2>4, TickRange
    <2>7. (now - x) % TickMod \in Int
      BY <2>6, NearRange
    <2>8. (now - x) % TickMod < LoopTicks
      BY <2>5, <2>6, <2>7
    <2> QED
      BY <2>8 DEF x
  <1>3. GoodQueue(queue, (now + 1) % TickMod)
    BY <1>1, <1>2, GoodTick DEF ClientInv
  <1>4. now' \in 0..(TickMod - 1)
    BY <1>1, TickRange, NearRange
  <1>5. ClientTypes'
    BY <1>1, <1>4 DEF ClientInv, ClientTypes, clientVars
  <1>6. SocketMatchesStatus' /\ TimerMatchesStatus'
    BY <1>1 DEF ClientInv, SocketMatchesStatus, TimerMatchesStatus, clientVars
  <1> QED
    BY <1>1, <1>3, <1>5, <1>6 DEF ClientInv, clientVars

\* A connection begins.
LEMMA ConnectStep == ASSUME ClientInv, Connect PROVE ClientInv'
  <1>1. /\ status = "Disconnected" /\ status' = "ConnectPending" /\ socket' = TRUE
        /\ timer' = TimerOff /\ nextId' = 1 /\ toBroker' = <<Packet("Connect", 0, 0, 0)>>
        /\ UNCHANGED <<queue, store, now, toClient, reason, received>>
    BY DEF Connect
  <1>2. toBroker' \in Seq(Packets)
    <2> DEFINE t == "Connect"
    <2>1. t \in Types
      BY DEF Types
    <2> HIDE DEF t
    <2>2. Packet(t, 0, 0, 0) \in Packets
      BY <2>1 DEF Packet, Packets
    <2>3. <<Packet(t, 0, 0, 0)>> \in Seq(Packets)
      BY <2>2
    <2> QED
      BY <1>1, <2>3 DEF t
  <1>3. timer' \in [on : BOOLEAN, at : Int] /\ timer'.on = FALSE
    BY <1>1 DEF TimerOff
  <1>4. ClientTypes'
    BY <1>1, <1>2, <1>3 DEF ClientInv, ClientTypes, Statuses
  <1>5. SocketMatchesStatus' /\ TimerMatchesStatus'
    BY <1>1, <1>3 DEF SocketMatchesStatus, TimerMatchesStatus
  <1> QED
    BY <1>1, <1>4, <1>5 DEF ClientInv

\* A connection that fails before CONNECT is sent.
LEMMA ConnectFailsStep == ASSUME ClientInv, ConnectFails PROVE ClientInv'
  <1>1. /\ nextId' \in Nat
        /\ UNCHANGED <<status, socket, timer, queue, store, received, now, toBroker, toClient>>
    BY DEF ConnectFails, ClientInv, ClientTypes
  <1>2. ClientTypes'
    BY <1>1 DEF ClientInv, ClientTypes
  <1>3. SocketMatchesStatus' /\ TimerMatchesStatus'
    BY <1>1 DEF ClientInv, SocketMatchesStatus, TimerMatchesStatus
  <1> QED
    BY <1>1, <1>2, <1>3 DEF ClientInv

------------------------------------------------------------------------------
(* The client with the application and any broker.                         *)

\* A step of the broker: it reads at most one packet and sends at most one.
Channels ==
    /\ status # "Disconnected" /\ UNCHANGED <<clientVars, now>>
    /\ toBroker' = toBroker \/ (toBroker # <<>> /\ toBroker' = Tail(toBroker))
    /\ toClient' = toClient \/ \E p \in Packets : toClient' = Append(toClient, p)

\* Such a step keeps the client's invariant.
LEMMA ChannelStep == ASSUME ClientInv, Channels PROVE ClientInv'
  <1>1. toBroker \in Seq(Packets) /\ toClient \in Seq(Packets)
    BY DEF ClientInv, ClientTypes
  <1>2. toBroker' \in Seq(Packets)
    BY <1>1, TailFacts, ZenonT(60) DEF Channels
  <1>3. toClient' \in Seq(Packets)
    BY <1>1, AppendFacts DEF Channels
  <1>4. UNCHANGED <<clientVars, now>> /\ status # "Disconnected"
    BY DEF Channels
  <1>5. ClientTypes'
    BY <1>2, <1>3, <1>4 DEF ClientInv, ClientTypes, clientVars
  <1>6. SocketMatchesStatus' /\ TimerMatchesStatus'
    BY <1>4 DEF ClientInv, SocketMatchesStatus, TimerMatchesStatus, clientVars
  <1> QED
    BY <1>4, <1>5, <1>6 DEF ClientInv, clientVars

\* The identifiers of the broker.
LEMMA IdFacts == ASSUME NEW m \in Nat PROVE IdOf(m) \in Nat \ {0}
  <1>1. InIds \in Nat \ {0}
    BY SystemAssumption
  <1>2. m % InIds \in Nat
    BY <1>1, NearRange
  <1> QED
    BY <1>2 DEF IdOf

\* Every action of the broker is such a step.
LEMMA BrokerFacts == ASSUME ClientInv, Broker PROVE Channels
  <1> DEFINE h == Head(toBroker)
             Say == toClient' = toClient \/ \E p \in Packets : toClient' = Append(toClient, p)
             Read == toBroker # <<>> /\ toBroker' = Tail(toBroker)
  <1>1. toBroker # <<>> => h.id \in Nat /\ h.qos \in Nat
    <2>1. toBroker \in Seq(Packets)
      BY DEF ClientInv, ClientTypes
    <2>2. toBroker # <<>> => h \in Packets
      BY <2>1, TailFacts
    <2> QED
      BY <2>2 DEF Packets
  <1>2. ASSUME NEW t \in Types, NEW x \in Nat, NEW c \in Nat,
               BrokerSays(Packet(t, x, c, 0)) PROVE Say
    <2>1. Packet(t, x, c, 0) \in Packets
      BY <1>2, PlainPackets, Zenon
    <2> QED
      BY <1>2, <2>1 DEF BrokerSays
  <1>3. Answering \subseteq Types /\ DOMAIN Refusal \subseteq Types
    BY DEF Answering, Types, Refusal
  <1>4. 0 \in Nat /\ 1 \in Nat /\ 128 \in Nat
    OBVIOUS
  <1>6. ASSUME NEW t \in Types, NEW x \in Nat, BrokerSays(Packet(t, x, 0, 0)) PROVE Say
    <2>1. Packet(t, x, 0, 0) \in Packets
      BY <1>4, <1>6, PlainPackets
    <2> QED
      BY <1>6, <2>1 DEF BrokerSays
  <1> HIDE DEF Say
  <1>7. {"ConnAck", "PubAck", "PubRec", "PubRel", "PubComp", "SubAck", "UnsubAck", "PingResp"} \subseteq Types
    BY <1>3 DEF Answering
  <1>8. ASSUME BrokerConnAck PROVE Channels
    <2>1. status # "Disconnected" /\ UNCHANGED <<clientVars, now>> /\ Read
      BY <1>8 DEF BrokerConnAck, BrokerReads
    <2>2. PICK c \in Nat : BrokerSays(Packet("ConnAck", 0, c, 0))
      BY <1>4, <1>8 DEF BrokerConnAck
    <2>3. Say
      BY <1>2, <1>4, <1>7, <2>2
    <2> QED
      BY <2>1, <2>3 DEF Channels, Say
  <1>9. ASSUME BrokerRequest PROVE Channels
    <2>1. status # "Disconnected" /\ UNCHANGED <<clientVars, now>> /\ Read
      BY <1>9 DEF BrokerRequest, BrokerReads
    <2>2. \/ toClient' = toClient
          \/ \E t \in {"SubAck", "UnsubAck", "PubAck", "PubRec"}, c \in Nat :
                BrokerSays(Packet(t, h.id, c, 0))
      BY <1>4, <1>9 DEF BrokerRequest
    <2>3. Say
      <3>1. CASE toClient' = toClient
        BY <3>1 DEF Say
      <3>2. CASE \E t \in {"SubAck", "UnsubAck", "PubAck", "PubRec"}, c \in Nat :
                BrokerSays(Packet(t, h.id, c, 0))
        <4>1. PICK t \in {"SubAck", "UnsubAck", "PubAck", "PubRec"}, c \in Nat :
                BrokerSays(Packet(t, h.id, c, 0))
          BY <3>2
        <4>2. t \in Types /\ h.id \in Nat
          BY <1>1, <1>7, <2>1
        <4> QED
          BY <1>2, <4>1, <4>2
      <3> QED
        BY <2>2, <3>1, <3>2
    <2> QED
      BY <2>1, <2>3 DEF Channels, Say
  <1>10. ASSUME BrokerPubRel PROVE Channels
    <2>1. status # "Disconnected" /\ UNCHANGED <<clientVars, now>> /\ Read
      BY <1>10 DEF BrokerPubRel, BrokerReads
    <2>2. BrokerSays(Packet("PubComp", h.id, 0, 0)) /\ h.id \in Nat
      BY <1>1, <1>10, <2>1 DEF BrokerPubRel
    <2>3. Say
      BY <1>6, <1>7, <2>2
    <2> QED
      BY <2>1, <2>3 DEF Channels, Say
  <1>11. ASSUME BrokerPingReq PROVE Channels
    <2>1. status # "Disconnected" /\ UNCHANGED <<clientVars, now>> /\ Read
      BY <1>11 DEF BrokerPingReq, BrokerReads
    <2>2. BrokerSays(Packet("PingResp", 0, 0, 0))
      BY <1>11 DEF BrokerPingReq
    <2>3. Say
      BY <1>4, <1>6, <1>7, <2>2
    <2> QED
      BY <2>1, <2>3 DEF Channels, Say
  <1>12. ASSUME BrokerAnswered PROVE Channels
    <2>1. status # "Disconnected" /\ UNCHANGED <<clientVars, now>> /\ Read
      BY <1>12 DEF BrokerAnswered, BrokerReads
    <2>2. toClient' = toClient \/ BrokerSays(Packet("PubRel", h.id, 0, 0))
      BY <1>12 DEF BrokerAnswered
    <2>3. Say
      <3>1. CASE toClient' = toClient
        BY <3>1 DEF Say
      <3>2. CASE BrokerSays(Packet("PubRel", h.id, 0, 0))
        BY <1>1, <1>6, <1>7, <2>1, <3>2
      <3> QED
        BY <2>2, <3>1, <3>2
    <2> QED
      BY <2>1, <2>3 DEF Channels, Say
  <1>13. ASSUME BrokerMisbehaves PROVE Channels
    <2>1. status # "Disconnected" /\ UNCHANGED <<clientVars, now>> /\ toBroker' = toBroker
      BY <1>13 DEF BrokerMisbehaves
    <2>2. PICK t \in DOMAIN Refusal \cup {"ConnAck", "PingResp", "PubAck", "PubRec", "PubRel",
                                         "PubComp", "SubAck", "UnsubAck"} :
              BrokerSays(Packet(t, 1, 0, 0))
      BY <1>13, Zenon DEF BrokerMisbehaves
    <2>3. t \in Types
      BY <1>3, <1>7
    <2>4. Say
      BY <1>4, <1>6, <2>2, <2>3
    <2> QED
      BY <2>1, <2>4 DEF Channels, Say
  <1>14. ASSUME BrokerIgnores PROVE Channels
    BY <1>14 DEF BrokerIgnores, Channels
  <1>15. ASSUME NEW m \in 1..MaxIn, BrokerPubRelAgain(m) PROVE Channels
    <2>1. status # "Disconnected" /\ UNCHANGED <<clientVars, now, toBroker>>
      BY <1>15 DEF BrokerPubRelAgain, BrokerOpen
    <2>2. BrokerSays(Packet("PubRel", IdOf(m), 0, 0)) /\ IdOf(m) \in Nat
      BY <1>15, SystemAssumption, IdFacts DEF BrokerPubRelAgain
    <2>3. Say
      BY <1>6, <1>7, <2>2
    <2> QED
      BY <2>1, <2>3 DEF Channels, Say
  <1>16. ASSUME NEW m \in 1..MaxIn, NEW qos \in 0..2, BrokerPublish(m, qos) PROVE Channels
    <2>1. status # "Disconnected" /\ UNCHANGED <<clientVars, now, toBroker>>
      BY <1>16 DEF BrokerPublish, BrokerOpen
    <2> DEFINE t == "Publish"
               x == IdOf(m)
    <2>2. t \in Types /\ x \in Nat /\ m \in Nat /\ qos \in Nat
      BY SystemAssumption, IdFacts DEF Types, Requests
    <2>3. BrokerSays(Packet(t, x, qos, m))
      BY <1>16 DEF BrokerPublish
    <2> HIDE DEF t, x
    <2>4. Packet(t, x, qos, m) \in Packets
      BY <2>2 DEF Packet, Packets
    <2>5. Say
      BY <2>3, <2>4 DEF BrokerSays, Say
    <2> QED
      BY <2>1, <2>5 DEF Channels, Say
  <1> QED
    BY <1>8, <1>9, <1>10, <1>11, <1>12, <1>13, <1>14, <1>15, <1>16 DEF Broker

\* What Receiver does with a packet.
LEMMA ReceiverFacts ==
    ASSUME ClientInv, Receiver
    PROVE  /\ ClientInv'
           /\ \/ Off \/ DoOther
              \/ DoPublish0 \/ DoPublish1 \/ DoPublish2 \/ DoPubRel
              \/ DoAck \/ DoPubRec
  <1>1. Off => ClientInv'
    BY OffStep
  <1>2. DoPublish0 \/ DoPublish1 \/ DoPublish2 \/ DoPubRel \/ DoAck \/ DoPubRec => Stays
    BY DEF DoPublish0, DoPublish1, DoPublish2, DoPubRel, DoAck, DoPubRec, Takes0, Answers
  <1>3. Stays => ClientInv'
    BY StaysStep
  <1>4. \/ Off \/ (DoOther /\ ClientInv')
        \/ DoPublish0 \/ DoPublish1 \/ DoPublish2 \/ DoPubRel
        \/ DoAck \/ DoPubRec
    BY RefusedFacts, ConnAckFacts, PingRespFacts, PublishFacts, PubRelFacts, AckFacts, PubRecFacts
       DEF Receiver
  <1> QED
    BY <1>1, <1>2, <1>3, <1>4

\* The variables of the application and of the broker.
Messages == [state : {"new", "sent", "released", "done", "dropped"}, qos : 0..2, sends : Nat]

SystemTypes ==
    /\ issued \in Seq([qos : 0..2, conn : Nat]) /\ Len(issued) <= MaxOut
    /\ connects \in Nat /\ accepted \in Nat
    /\ got \in [1..MaxOut -> Nat]
    /\ recorded \in SUBSET Nat
    /\ out \in [1..MaxIn -> Messages]

\* A request of the application: it fails with the connection or it is sent.
LEMMA IssueFacts ==
    ASSUME ClientInv, SystemTypes, NEW type \in {"Subscribe", "Unsubscribe", "Publish"},
           NEW qos \in 0..2, type # "Publish" => qos = 1, Issue(type, qos)
    PROVE  /\ ClientInv' /\ SystemTypes'
           /\ Off \/ DoRequest(Packet(type, nextId, qos, Len(issued) + 1))
           /\ Len(issued) < MaxOut /\ IdentifierFree /\ UNCHANGED <<brokerVars, connects>>
           /\ issued' = Append(issued,
                  [qos |-> qos, conn |-> IF status' = "Disconnected" THEN 0 ELSE connects])
  <1> DEFINE n == Len(issued) + 1
  <1>1. n \in Nat /\ issued \in Seq([qos : 0..2, conn : Nat])
    BY LenProperties DEF SystemTypes
  <1>2. /\ Len(issued) < MaxOut /\ IdentifierFree /\ UNCHANGED <<brokerVars, connects>>
        /\ issued' = Append(issued,
                  [qos |-> qos, conn |-> IF status' = "Disconnected" THEN 0 ELSE connects])
    BY DEF Issue
  <1>3. Request(type, qos, n)
    <2>1. CASE type = "Subscribe"
      BY <2>1 DEF Issue, Subscribe
    <2>2. CASE type = "Unsubscribe"
      BY <2>2 DEF Issue, Unsubscribe
    <2>3. CASE type = "Publish"
      BY <2>3 DEF Issue, Publish
    <2> QED
      BY <2>1, <2>2, <2>3
  <1> HIDE DEF n
  <1>4. Off \/ DoRequest(Packet(type, nextId, qos, n))
    BY <1>1, <1>3, RequestFacts
  <1>5. ClientInv'
    BY <1>4, OffStep, StaysStep DEF DoRequest
  <1>6. SystemTypes'
    <2> DEFINE e == [qos |-> qos, conn |-> IF status' = "Disconnected" THEN 0 ELSE connects]
    <2>1. e \in [qos : 0..2, conn : Nat]
      BY DEF SystemTypes
    <2> HIDE DEF e
    <2>2. issued' = Append(issued, e)
      BY <1>2 DEF e
    <2>3. issued' \in Seq([qos : 0..2, conn : Nat]) /\ Len(issued') = Len(issued) + 1
      BY <1>1, <2>1, <2>2, AppendFacts
    <2>4. MaxOut \in Nat /\ Len(issued) \in Nat
      BY <1>1, SystemAssumption, LenProperties
    <2> QED
      BY <1>2, <2>3, <2>4 DEF SystemTypes, brokerVars
  <1> QED
    BY <1>2, <1>4, <1>5, <1>6, Zenon DEF n

\* The broker's variables keep their types.
LEMMA BrokerTypes == ASSUME ClientInv, SystemTypes, Broker PROVE SystemTypes'
  <1> DEFINE h == Head(toBroker)
  <1>1. toBroker # <<>> => h.id \in Nat
    <2>1. toBroker \in Seq(Packets)
      BY DEF ClientInv, ClientTypes
    <2>2. toBroker # <<>> => h \in Packets
      BY <2>1, TailFacts
    <2> QED
      BY <2>2 DEF Packets
  <1>2. CASE UNCHANGED <<accepted, got, recorded, out, issued, connects>>
    BY <1>2 DEF SystemTypes
  <1>3. ASSUME BrokerConnAck PROVE SystemTypes'
    <2>1. CASE UNCHANGED <<accepted, recorded, out>>
      BY <1>3, <2>1, <1>2 DEF BrokerConnAck, appVars
    <2>2. CASE /\ accepted' = connects
               /\ recorded' = IF CleanSession THEN {} ELSE recorded
               /\ out' = [m \in 1..MaxIn |->
                        IF CleanSession /\ out[m].state \in {"sent", "released"}
                        THEN [out[m] EXCEPT !.state = "dropped"]
                        ELSE [out[m] EXCEPT !.sends = 0]]
      <3>1. out' \in [1..MaxIn -> Messages]
        <4>1. ASSUME NEW m \in 1..MaxIn
              PROVE  [out[m] EXCEPT !.state = "dropped"] \in Messages /\ [out[m] EXCEPT !.sends = 0] \in Messages
          <5>1. out[m] \in Messages
            BY DEF SystemTypes
          <5> QED
            BY <5>1 DEF Messages
        <4> QED
          BY <2>2, <4>1
      <3>2. UNCHANGED <<got, issued, connects>>
        BY <1>3 DEF BrokerConnAck, appVars
      <3> QED
        BY <2>2, <3>1, <3>2 DEF SystemTypes
    <2> QED
      BY <1>3, <2>1, <2>2 DEF BrokerConnAck
  <1>4. ASSUME BrokerRequest PROVE SystemTypes'
    <2>1. /\ toBroker # <<>> /\ UNCHANGED <<accepted, out, issued, connects>>
          /\ got' = [got EXCEPT ![h.msg] = @ + 1] \/ got' = got
          /\ recorded' = recorded \cup {h.id} \/ recorded' = recorded
      BY <1>4 DEF BrokerRequest, BrokerReads, Takes, appVars
    <2>2. got' \in [1..MaxOut -> Nat]
      <3> DEFINE m == h.msg
      <3>1. got' = [got EXCEPT ![m] = @ + 1] \/ got' = got
        BY <2>1
      <3> HIDE DEF m
      <3> QED
        BY <3>1 DEF SystemTypes
    <2>3. recorded' \in SUBSET Nat
      BY <1>1, <2>1 DEF SystemTypes
    <2> QED
      BY <2>1, <2>2, <2>3 DEF SystemTypes
  <1>5. ASSUME BrokerPubRel PROVE SystemTypes'
    BY <1>5 DEF BrokerPubRel, SystemTypes, appVars
  <1>6. ASSUME BrokerPingReq PROVE SystemTypes'
    BY <1>2, <1>6 DEF BrokerPingReq, brokerVars, appVars
  <1>7. ASSUME BrokerAnswered PROVE SystemTypes'
    <2>1. UNCHANGED <<accepted, got, recorded, issued, connects>>
      BY <1>7 DEF BrokerAnswered, appVars
    <2>2. \A m \in 1..MaxIn : out[m] \in Messages
      BY DEF SystemTypes
    <2>3. \A m \in 1..MaxIn : [out[m] EXCEPT !.state = "done"] \in Messages
      BY <2>2 DEF Messages
    <2>4. [state |-> "released", qos |-> 2, sends |-> 1] \in Messages
      BY DEF Messages
    <2>5. out' \in [1..MaxIn -> Messages]
      <3>1. CASE out' = [m \in 1..MaxIn |-> IF m \in Answered({"sent"}) /\ out[m].qos = 1
                                        THEN [out[m] EXCEPT !.state = "done"] ELSE out[m]]
        BY <2>2, <2>3, <3>1
      <3>2. CASE out' = [m \in 1..MaxIn |-> IF m \in Answered({"released"})
                                        THEN [out[m] EXCEPT !.state = "done"] ELSE out[m]]
        BY <2>2, <2>3, <3>2
      <3>3. CASE out' = [m \in 1..MaxIn |-> IF m \in Answered({"sent"})
                                        THEN [state |-> "released", qos |-> 2, sends |-> 1] ELSE out[m]]
        BY <2>2, <2>4, <3>3
      <3> QED
        BY <1>7, <3>1, <3>2, <3>3 DEF BrokerAnswered
    <2> QED
      BY <2>1, <2>5 DEF SystemTypes
  <1>8. ASSUME BrokerMisbehaves \/ BrokerIgnores PROVE SystemTypes'
    BY <1>2, <1>8 DEF BrokerMisbehaves, BrokerIgnores, brokerVars, appVars
  <1>9. ASSUME NEW m \in 1..MaxIn, BrokerPubRelAgain(m) PROVE SystemTypes'
    <2>1. UNCHANGED <<accepted, got, recorded, issued, connects>> /\ out' = [out EXCEPT ![m].sends = @ + 1]
      BY <1>9 DEF BrokerPubRelAgain, appVars
    <2>2. out[m] \in Messages
      BY DEF SystemTypes
    <2>3. [out[m] EXCEPT !.sends = @ + 1] \in Messages
      BY <2>2 DEF Messages
    <2>4. out' \in [1..MaxIn -> Messages]
      BY <2>1, <2>3 DEF SystemTypes
    <2> QED
      BY <2>1, <2>4 DEF SystemTypes
  <1>10. ASSUME NEW m \in 1..MaxIn, NEW qos \in 0..2, BrokerPublish(m, qos) PROVE SystemTypes'
    <2> DEFINE e == [state |-> IF qos = 0 THEN "done" ELSE "sent", qos |-> qos, sends |-> out[m].sends + 1]
    <2>1. UNCHANGED <<accepted, got, recorded, issued, connects>> /\ out' = [out EXCEPT ![m] = e]
      BY <1>10 DEF BrokerPublish, appVars
    <2>2. out[m].sends \in Nat
      <3>1. out[m] \in Messages
        BY DEF SystemTypes
      <3> QED
        BY <3>1 DEF Messages
    <2>3. e \in Messages
      BY <2>2 DEF Messages
    <2> HIDE DEF e
    <2>4. out' \in [1..MaxIn -> Messages]
      BY <2>1, <2>3 DEF SystemTypes
    <2> QED
      BY <2>1, <2>4 DEF SystemTypes
  <1> QED
    BY <1>3, <1>4, <1>5, <1>6, <1>7, <1>8, <1>9, <1>10 DEF Broker

SystemInv == ClientInv /\ SystemTypes

\* The first state.
LEMMA SystemInitFacts == ASSUME SystemInit PROVE SystemInv
  <1>1. ClientInv
    <2>1. GoodQueue(queue, now)
      BY GoodEmpty, Zenon DEF SystemInit, Init
    <2>2. <<>> \in Seq(Packets) /\ <<>> \in Seq(Nat)
      BY EmptySeq
    <2>3. timer \in [on : BOOLEAN, at : Int] /\ timer.on = FALSE
      BY DEF SystemInit, Init, TimerOff
    <2>4. ClientTypes
      <3>1. now \in 0..(TickMod - 1) /\ nextId \in Nat /\ store \in SUBSET Nat
        BY TickRange DEF SystemInit, Init
      <3>2. toBroker \in Seq(Packets) /\ toClient \in Seq(Packets) /\ received \in Seq(Nat)
        BY <2>2, Zenon DEF SystemInit, Init
      <3>3. status \in Statuses /\ socket \in BOOLEAN
        BY DEF SystemInit, Init, Statuses
      <3> QED
        BY <2>3, <3>1, <3>2, <3>3, Zenon DEF ClientTypes
    <2>5. SocketMatchesStatus /\ TimerMatchesStatus
      BY <2>3 DEF SystemInit, Init, SocketMatchesStatus, TimerMatchesStatus
    <2> QED
      BY <2>1, <2>4, <2>5 DEF SystemInit, Init, ClientInv
  <1>2. SystemTypes
    <2>1. [state |-> "new", qos |-> 0, sends |-> 0] \in Messages
      BY DEF Messages
    <2>2. <<>> \in Seq([qos : 0..2, conn : Nat]) /\ Len(<<>>) <= MaxOut
      BY EmptySeq, SystemAssumption
    <2> QED
      BY <2>1, <2>2 DEF SystemInit, SystemTypes
  <1> QED
    BY <1>1, <1>2 DEF SystemInv

\* Every step keeps the client's state in order, and everybody's types.
LEMMA SystemStep == ASSUME SystemInv, [SystemNext]_sysVars PROVE SystemInv'
  <1> USE DEF SystemInv
  <1>2. ASSUME UNCHANGED <<brokerVars, appVars>> PROVE SystemTypes'
    BY <1>2 DEF SystemTypes, brokerVars, appVars
  <1>3. ASSUME ClientStep PROVE SystemInv'
    <2>1. UNCHANGED <<brokerVars, appVars>> /\ (Receiver \/ Sender \/ KeepAliveHandler)
      BY <1>3 DEF ClientStep, ReceiverStep, SenderStep, KeepAliveStep
    <2>2. DoResend => Stays
      BY DEF DoResend
    <2>3. ClientInv'
      BY <2>1, <2>2, ReceiverFacts, SenderFacts, KeepAliveFacts, OffStep, StaysStep
    <2> QED
      BY <1>2, <2>1, <2>3
  <1>4. ASSUME PeerStep \/ TimeStep \/ AppConnectFails \/ AppDisconnect PROVE SystemInv'
    BY <1>2, <1>4, DisconnectFacts, OffStep, TickFacts, ConnectFailsStep
       DEF PeerStep, TimeStep, AppConnectFails, AppDisconnect
  <1>5. ASSUME AppConnect PROVE SystemInv'
    <2>1. ClientInv'
      BY <1>5, ConnectStep DEF AppConnect
    <2>2. SystemTypes'
      BY <1>5 DEF AppConnect, SystemTypes, brokerVars
    <2> QED
      BY <2>1, <2>2
  <1>6. ASSUME AppSubscribe \/ AppUnsubscribe \/ AppPublish PROVE SystemInv'
    <2>1. PICK type \in {"Subscribe", "Unsubscribe", "Publish"}, qos \in 0..2 :
              (type # "Publish" => qos = 1) /\ Issue(type, qos)
      BY <1>6 DEF AppSubscribe, AppUnsubscribe, AppPublish
    <2> QED
      BY <2>1, IssueFacts
  <1>7. ASSUME Broker PROVE SystemInv'
    BY <1>7, BrokerFacts, BrokerTypes, ChannelStep
  <1>8. ASSUME UNCHANGED sysVars PROVE SystemInv'
    <2>1. UNCHANGED <<brokerVars, appVars>> /\ UNCHANGED <<clientVars, now, toBroker, toClient>>
      BY <1>8 DEF sysVars, vars
    <2>2. ClientTypes'
      BY <2>1 DEF ClientInv, ClientTypes, clientVars
    <2>3. SocketMatchesStatus' /\ TimerMatchesStatus'
      BY <2>1 DEF ClientInv, SocketMatchesStatus, TimerMatchesStatus, clientVars
    <2>4. ClientInv'
      BY <2>1, <2>2, <2>3 DEF ClientInv, clientVars
    <2> QED
      BY <1>2, <2>1, <2>4
  <1> QED
    BY <1>3, <1>4, <1>5, <1>6, <1>7, <1>8 DEF SystemNext, App

\* Whatever the broker sends and however the application behaves, the state of
\* the client is in order.
THEOREM ClientInvariant == SystemSpec => []SystemInv
  <1>1. SystemInit => SystemInv
    BY SystemInitFacts
  <1>2. SystemInv /\ [SystemNext]_sysVars => SystemInv'
    BY SystemStep
  <1> QED
    BY <1>1, <1>2, PTL DEF SystemSpec

\* The socket exists exactly while the client is not disconnected, and nothing
\* is left over from an earlier connection (mqttclient.cpp:72-73, 760-783).
THEOREM NothingLeftOver == SystemSpec => []SocketMatchesStatus
  <1>1. SystemInv => SocketMatchesStatus
    BY DEF SystemInv, ClientInv
  <1> QED
    BY <1>1, ClientInvariant, PTL

\* The keep alive timer runs only in the states its handler expects and always
\* while the answer to a ping is awaited (mqttclient.cpp:735-757, 785-836).
THEOREM PingIsTimed == SystemSpec => []TimerMatchesStatus
  <1>1. SystemInv => TimerMatchesStatus
    BY DEF SystemInv, ClientInv
  <1> QED
    BY <1>1, ClientInvariant, PTL

\* The retransmission queue is sorted for every length and every timeout, also
\* when the tick counter wraps (mqttclient.cpp:705, 838-866).
THEOREM RetransmissionInOrder == SystemSpec => []QueueSorted
  <1>1. SystemInv => QueueSorted
    BY GoodIsSorted DEF SystemInv, ClientInv, ClientTypes
  <1> QED
    BY <1>1, ClientInvariant, PTL

------------------------------------------------------------------------------
(* The requests of the application with a broker that keeps to the         *)
(* protocol and with clean sessions.                                       *)

Acks == {"PubAck", "SubAck", "UnsubAck", "PubRec", "PubComp"}

\* The packets of a queue, and that no two of its entries share an identifier.
PacketsOf(q) == {q[i].packet : i \in 1..Len(q)}
DistinctIds(q) == \A i, j \in 1..Len(q) : q[i].packet.id = q[j].packet.id => i = j

\* No PUBLISH follows a PUBREL with its identifier.
Ordered(s) ==
    \A i, j \in 1..Len(s) :
        i < j /\ s[i].type = "PubRel" /\ s[j].type = "Publish" => s[i].id # s[j].id

\* CONNECT is the first packet of a connection and there is no other.
ConnectFirst(s) == \A i \in 1..Len(s) : s[i].type = "Connect" => i = 1

\* Dropping the first packet keeps the order; the rest holds no CONNECT and,
\* after a PUBREL, no PUBLISH with its identifier.
LEMMA OrderTail ==
    ASSUME NEW s \in Seq(Packets), s # <<>>
    PROVE  /\ Ordered(s) => Ordered(Tail(s))
           /\ ConnectFirst(s) => ConnectFirst(Tail(s)) /\ \A p \in Rg(Tail(s)) : p.type # "Connect"
           /\ Ordered(s) /\ Head(s).type = "PubRel" =>
                 \A p \in Rg(Tail(s)) : p.type = "Publish" => p.id # Head(s).id
  <1> DEFINE t == Tail(s)
  <1>1. /\ Len(s) \in Nat \ {0} /\ Len(t) = Len(s) - 1
        /\ \A i \in 1..Len(t) : t[i] = s[i + 1]
        /\ Head(s) = s[1]
    BY TailFacts
  <1> HIDE DEF t
  <1>2. \A i \in 1..Len(t) : i + 1 \in 1..Len(s) /\ 1 < i + 1 /\ 1 \in 1..Len(s)
    BY <1>1
  <1>3. Ordered(s) => Ordered(t)
    <2> SUFFICES ASSUME Ordered(s), NEW i \in 1..Len(t), NEW j \in 1..Len(t),
                        i < j, t[i].type = "PubRel", t[j].type = "Publish"
                 PROVE  t[i].id # t[j].id
      BY DEF Ordered
    <2>1. /\ i + 1 \in 1..Len(s) /\ j + 1 \in 1..Len(s) /\ i + 1 < j + 1
          /\ t[i] = s[i + 1] /\ t[j] = s[j + 1]
      BY <1>1, <1>2
    <2> QED
      BY <2>1 DEF Ordered
  <1>4. ConnectFirst(s) => \A i \in 1..Len(t) : t[i].type # "Connect"
    BY <1>1, <1>2 DEF ConnectFirst
  <1>5. Ordered(s) /\ Head(s).type = "PubRel" => \A i \in 1..Len(t) : t[i].type = "Publish" => t[i].id # Head(s).id
    BY <1>1, <1>2 DEF Ordered
  <1> QED
    BY <1>3, <1>4, <1>5 DEF ConnectFirst, Rg, t

\* Adding a packet keeps the order unless it is a PUBLISH whose PUBREL is there.
LEMMA OrderAppend ==
    ASSUME NEW s \in Seq(Packets), NEW p \in Packets
    PROVE  /\ Ordered(s) /\ (p.type = "Publish" => \A r \in Rg(s) : r.type = "PubRel" => r.id # p.id)
                 => Ordered(Append(s, p))
           /\ ConnectFirst(s) /\ p.type # "Connect" => ConnectFirst(Append(s, p))
  <1> DEFINE a == Append(s, p)
  <1>1. /\ Len(a) = Len(s) + 1 /\ Len(s) \in Nat
        /\ \A i \in 1..Len(s) : a[i] = s[i]
        /\ a[Len(s) + 1] = p
    BY AppendFacts, LenProperties
  <1> HIDE DEF a
  <1>2. ASSUME Ordered(s), p.type = "Publish" => \A r \in Rg(s) : r.type = "PubRel" => r.id # p.id
        PROVE  Ordered(a)
    <2> SUFFICES ASSUME NEW i \in 1..Len(a), NEW j \in 1..Len(a),
                        i < j, a[i].type = "PubRel", a[j].type = "Publish"
                 PROVE  a[i].id # a[j].id
      BY DEF Ordered
    <2>1. i \in 1..Len(s) /\ a[i] = s[i] /\ s[i] \in Rg(s)
      BY <1>1 DEF Rg
    <2>2. CASE j \in 1..Len(s)
      BY <1>1, <1>2, <2>1, <2>2 DEF Ordered
    <2>3. CASE j = Len(s) + 1
      BY <1>1, <1>2, <2>1, <2>3
    <2> QED
      BY <1>1, <2>2, <2>3
  <1>3. ASSUME ConnectFirst(s), p.type # "Connect" PROVE ConnectFirst(a)
    <2>1. \A i \in 1..Len(a) : i \in 1..Len(s) \/ i = Len(s) + 1
      BY <1>1
    <2> QED
      BY <1>1, <1>3, <2>1 DEF ConnectFirst
  <1> QED
    BY <1>2, <1>3 DEF a

\* A queue with one more entry.
LEMMA PacketsAppend ==
    ASSUME NEW q \in Seq(Entries), NEW e \in Entries
    PROVE  /\ PacketsOf(Append(q, e)) = PacketsOf(q) \cup {e.packet}
           /\ DistinctIds(q) /\ (\A p \in PacketsOf(q) : p.id # e.packet.id) => DistinctIds(Append(q, e))
  <1> DEFINE a == Append(q, e)
  <1>1. /\ Len(a) = Len(q) + 1 /\ Len(q) \in Nat
        /\ \A i \in 1..Len(q) : a[i] = q[i]
        /\ a[Len(q) + 1] = e
    BY AppendFacts, LenProperties
  <1> HIDE DEF a
  <1>2. \A i \in 1..Len(a) : i \in 1..Len(q) \/ i = Len(q) + 1
    BY <1>1
  <1>3. PacketsOf(a) = PacketsOf(q) \cup {e.packet}
    <2>1. PacketsOf(a) \subseteq PacketsOf(q) \cup {e.packet}
      BY <1>1, <1>2 DEF PacketsOf
    <2>2. PacketsOf(q) \subseteq PacketsOf(a)
      <3>1. \A i \in 1..Len(q) : i \in 1..Len(a)
        BY <1>1
      <3> QED
        BY <1>1, <3>1 DEF PacketsOf
    <2>3. e.packet \in PacketsOf(a)
      <3>1. Len(q) + 1 \in 1..Len(a)
        BY <1>1
      <3> QED
        BY <1>1, <3>1 DEF PacketsOf
    <2> QED
      BY <2>1, <2>2, <2>3
  <1>4. ASSUME DistinctIds(q), \A p \in PacketsOf(q) : p.id # e.packet.id PROVE DistinctIds(a)
    <2> SUFFICES ASSUME NEW i \in 1..Len(a), NEW j \in 1..Len(a), a[i].packet.id = a[j].packet.id
                 PROVE  i = j
      BY DEF DistinctIds
    <2>1. \A k \in 1..Len(q) : a[k].packet \in PacketsOf(q)
      BY <1>1 DEF PacketsOf
    <2>2. CASE i \in 1..Len(q) /\ j \in 1..Len(q)
      BY <1>1, <1>4, <2>2 DEF DistinctIds
    <2>3. CASE i = Len(q) + 1 /\ j \in 1..Len(q)
      BY <1>1, <1>4, <2>1, <2>3
    <2>4. CASE i \in 1..Len(q) /\ j = Len(q) + 1
      BY <1>1, <1>4, <2>1, <2>4
    <2> QED
      BY <1>2, <2>2, <2>3, <2>4
  <1> QED
    BY <1>3, <1>4 DEF a

\* A queue without its i-th entry.
Without(q, i, r) ==
    /\ Len(r) = Len(q) - 1
    /\ \A j \in 1..(Len(q) - 1) : r[j] = IF j < i THEN q[j] ELSE q[j + 1]

\* Taking an entry out of a queue takes its packet out and keeps the others.
LEMMA PacketsWithout ==
    ASSUME NEW q \in Seq(Entries), NEW i \in 1..Len(q), NEW r, Without(q, i, r)
    PROVE  /\ PacketsOf(q) = PacketsOf(r) \cup {q[i].packet}
           /\ DistinctIds(q) => DistinctIds(r) /\ \A p \in PacketsOf(r) : p.id # q[i].packet.id
  <1> DEFINE pos(j) == IF j < i THEN j ELSE j + 1
  <1>1. /\ Len(q) \in Nat /\ Len(r) = Len(q) - 1
        /\ \A j \in 1..(Len(q) - 1) : r[j] = IF j < i THEN q[j] ELSE q[j + 1]
    BY LenProperties DEF Without
  <1>2. \A j \in 1..Len(r) : pos(j) \in 1..Len(q) /\ pos(j) # i /\ r[j] = q[pos(j)]
    BY <1>1
  <1>3. \A k \in 1..Len(q) : k = i \/ \E j \in 1..Len(r) : pos(j) = k
    <2> SUFFICES ASSUME NEW k \in 1..Len(q), k # i PROVE \E j \in 1..Len(r) : pos(j) = k
      OBVIOUS
    <2>1. CASE k < i
      <3>1. k \in 1..Len(r) /\ pos(k) = k
        BY <1>1, <2>1
      <3> QED
        BY <3>1
    <2>2. CASE i < k
      <3>1. k - 1 \in 1..Len(r) /\ pos(k - 1) = k
        BY <1>1, <2>2
      <3> QED
        BY <3>1
    <2> QED
      BY <1>1, <2>1, <2>2
  <1>4. \A j, k \in 1..Len(r) : pos(j) = pos(k) => j = k
    BY <1>1
  <1> HIDE DEF pos
  <1>5. PacketsOf(q) \subseteq PacketsOf(r) \cup {q[i].packet}
    <2> SUFFICES ASSUME NEW k \in 1..Len(q), k # i PROVE q[k].packet \in PacketsOf(r)
      BY DEF PacketsOf
    <2>1. PICK j \in 1..Len(r) : pos(j) = k
      BY <1>3
    <2>2. r[j] = q[k]
      BY <1>2, <2>1
    <2> QED
      BY <2>2 DEF PacketsOf
  <1>6. PacketsOf(r) \cup {q[i].packet} \subseteq PacketsOf(q)
    BY <1>2 DEF PacketsOf
  <1>7. ASSUME DistinctIds(q) PROVE DistinctIds(r) /\ \A p \in PacketsOf(r) : p.id # q[i].packet.id
    <2>1. \A p \in PacketsOf(r) : p.id # q[i].packet.id
      <3> SUFFICES ASSUME NEW j \in 1..Len(r) PROVE r[j].packet.id # q[i].packet.id
        BY DEF PacketsOf
      <3>1. pos(j) \in 1..Len(q) /\ pos(j) # i /\ r[j] = q[pos(j)]
        BY <1>2
      <3> QED
        BY <1>7, <3>1 DEF DistinctIds
    <2>2. DistinctIds(r)
      BY <1>2, <1>4, <1>7 DEF DistinctIds
    <2> QED
      BY <2>1, <2>2
  <1> QED
    BY <1>5, <1>6, <1>7

\* A queue without its first entry.
LEMMA PacketsTail ==
    ASSUME NEW q \in Seq(Entries), q # <<>>
    PROVE  /\ PacketsOf(q) = PacketsOf(Tail(q)) \cup {Head(q).packet}
           /\ DistinctIds(q) =>
                 DistinctIds(Tail(q)) /\ \A p \in PacketsOf(Tail(q)) : p.id # Head(q).packet.id
  <1> DEFINE r == Tail(q)
             k == 1
             h == q[k].packet
  <1>1. /\ r \in Seq(Entries) /\ Len(q) \in Nat \ {0} /\ Len(r) = Len(q) - 1
        /\ \A j \in 1..Len(r) : r[j] = q[j + 1]
        /\ Head(q) = q[1]
    BY TailFacts
  <1>2. k \in 1..Len(q) /\ Without(q, k, r)
    BY <1>1 DEF Without
  <1>3. Head(q).packet = h
    BY <1>1
  <1> HIDE DEF r, k
  <1>4. /\ PacketsOf(q) = PacketsOf(r) \cup {h}
        /\ DistinctIds(q) => DistinctIds(r) /\ \A p \in PacketsOf(r) : p.id # h.id
    BY <1>2, PacketsWithout, Zenon
  <1> HIDE DEF h
  <1> QED
    BY <1>3, <1>4 DEF r

\* The packets of the application's requests: in the queue, or under way.
Queued == PacketsOf(queue)
Flying == {p \in Rg(toBroker) : p.type \in Requests}
Outbound == Queued \cup Flying

\* The counters of connections and requests.
OutNumbers ==
    /\ accepted <= connects
    /\ \A m \in 1..Len(issued) : issued[m].conn <= connects
    /\ \A m \in 1..MaxOut : m > Len(issued) => got[m] = 0

\* A packet belongs to a request of this connection.
OutPackets ==
    \A p \in Outbound :
        /\ p.msg \in 1..Len(issued)
        /\ issued[p.msg].conn = connects /\ issued[p.msg].qos = p.qos

\* Identifiers tell the requests apart.
OutIds == \A p, q \in Outbound : p.id = q.id <=> p.msg = q.msg

\* What the broker knows of a request whose PUBREL or PUBLISH is there.
OutPhase ==
    \A p \in Outbound :
        /\ p.type = "PubRel" => p.qos = 2 /\ accepted = connects /\ got[p.msg] > 0
        /\ p.type \notin {"Publish", "PubRel"} => p.qos # 2
        /\ p.type = "Publish" /\ p.qos = 2 =>
              (got[p.msg] > 0 <=> accepted = connects /\ p.id \in recorded)

\* A PUBLISH with QoS 2 and what the broker remembers of one have their entry.
HasEntry(x) == \E q \in Queued : q.id = x /\ q.qos = 2

OutQueue ==
    /\ DistinctIds(queue)
    /\ \A q \in Queued : q.qos > 0
    /\ \A p \in Flying : p.type = "Publish" /\ p.qos = 2 => HasEntry(p.id)
    /\ (status # "Disconnected" /\ accepted = connects) => \A x \in recorded : HasEntry(x)

\* PUBREL is the last that is sent for a request.
OutOrder ==
    /\ Ordered(toBroker) /\ ConnectFirst(toBroker)
    /\ \A p \in Rg(toBroker) : p.type = "Connect" => accepted < connects
    /\ \A r \in Flying, q \in Queued : r.type = "PubRel" /\ q.type = "Publish" => r.id # q.id

\* What an acknowledgement says is so.
OutAcks ==
    \A a \in Rg(toClient) : a.type \in Acks =>
        /\ accepted = connects
        /\ \A p \in Outbound : p.id = a.id => got[p.msg] > 0
        /\ a.type = "PubComp" =>
              a.id \notin recorded /\ \A p \in Outbound : p.id = a.id => p.type # "Publish"

OutInv ==
    /\ OutNumbers /\ OutPackets /\ OutIds /\ OutPhase /\ OutQueue /\ OutOrder /\ OutAcks
    /\ AtLeastOnce /\ AtMostOnce

\* A step that neither adds a request packet nor an acknowledgement.
OutMoves ==
    /\ UNCHANGED <<queue, issued, connects, accepted, got, recorded>>
    /\ status' = "Disconnected" <=> status = "Disconnected"
    /\ \/ toBroker' = toBroker
       \/ toBroker # <<>> /\ toBroker' = Tail(toBroker)
       \/ \E p \in Packets : p.type \notin Requests \cup {"Connect"} /\ toBroker' = Append(toBroker, p)
    /\ \/ toClient' = toClient
       \/ toClient # <<>> /\ toClient' = Tail(toClient)
       \/ \E p \in Packets : p.type \notin Acks /\ toClient' = Append(toClient, p)

\* Such a step keeps the invariant: it speaks of all packets that are there.
LEMMA OutMovesStep == ASSUME SystemInv, OutInv, OutMoves PROVE OutInv'
  <1>1. toBroker \in Seq(Packets) /\ toClient \in Seq(Packets)
    BY DEF SystemInv, ClientInv, ClientTypes
  <1>2. /\ UNCHANGED <<queue, issued, connects, accepted, got, recorded>>
        /\ status' = "Disconnected" <=> status = "Disconnected"
    BY DEF OutMoves
  <1>3. Queued' = Queued /\ (DistinctIds(queue))' = DistinctIds(queue)
    BY <1>2 DEF Queued
  <1>4. /\ \A p \in Rg(toBroker)' : p \in Rg(toBroker) \/ p.type \notin Requests \cup {"Connect"}
        /\ Ordered(toBroker) => Ordered(toBroker')
        /\ ConnectFirst(toBroker) => ConnectFirst(toBroker')
    <2>1. CASE toBroker' = toBroker
      BY <2>1
    <2>2. CASE toBroker # <<>> /\ toBroker' = Tail(toBroker)
      BY <1>1, <2>2, TailFacts, OrderTail
    <2>3. CASE \E p \in Packets : p.type \notin Requests \cup {"Connect"} /\ toBroker' = Append(toBroker, p)
      <3>1. PICK p \in Packets : p.type \notin Requests \cup {"Connect"} /\ toBroker' = Append(toBroker, p)
        BY <2>3
      <3>2. Rg(toBroker') = Rg(toBroker) \cup {p}
        BY <1>1, <3>1, AppendFacts
      <3>3. p.type # "Publish" /\ p.type # "Connect"
        BY <3>1 DEF Requests
      <3>4. /\ Ordered(toBroker) => Ordered(toBroker')
            /\ ConnectFirst(toBroker) => ConnectFirst(toBroker')
        BY <1>1, <3>1, <3>3, OrderAppend
      <3> QED
        BY <3>1, <3>2, <3>4
    <2> QED
      BY <2>1, <2>2, <2>3 DEF OutMoves
  <1>5. \A a \in Rg(toClient)' : a.type \in Acks => a \in Rg(toClient)
    <2>1. CASE toClient' = toClient
      BY <2>1
    <2>2. CASE toClient # <<>> /\ toClient' = Tail(toClient)
      BY <1>1, <2>2, TailFacts
    <2>3. CASE \E p \in Packets : p.type \notin Acks /\ toClient' = Append(toClient, p)
      BY <1>1, <2>3, AppendFacts
    <2> QED
      BY <2>1, <2>2, <2>3 DEF OutMoves
  <1>6. Flying' \subseteq Flying
    BY <1>4 DEF Flying
  <1>7. Outbound' \subseteq Outbound
    BY <1>3, <1>6 DEF Outbound
  <1>8. OutNumbers'
    BY <1>2 DEF OutInv, OutNumbers
  <1>9. OutPackets' /\ OutIds' /\ OutPhase'
    BY <1>2, <1>7 DEF OutInv, OutPackets, OutIds, OutPhase
  <1>10. OutQueue'
    BY <1>2, <1>3, <1>6 DEF OutInv, OutQueue, HasEntry
  <1>11. OutOrder'
    BY <1>2, <1>3, <1>4, <1>6 DEF OutInv, OutOrder
  <1>12. OutAcks'
    BY <1>2, <1>5, <1>7 DEF OutInv, OutAcks
  <1>13. AtLeastOnce' /\ AtMostOnce'
    BY <1>2 DEF OutInv, AtLeastOnce, AtMostOnce, Current, Pending
  <1> QED
    BY <1>8, <1>9, <1>10, <1>11, <1>12, <1>13 DEF OutInv

\* With nothing queued and nothing under way little remains to be said.
LEMMA OutEmpty ==
    ASSUME OutNumbers', AtMostOnce', queue' = <<>>, toClient' = <<>>,
           \A i \in 1..Len(toBroker') : toBroker'[i].type = "Connect" /\ i = 1,
           toBroker' # <<>> => accepted' < connects',
           status' # "Disconnected" =>
               accepted' # connects' /\ \A m \in 1..Len(issued') : issued'[m].conn # connects'
    PROVE  OutInv'
  <1>1. Len(queue') = 0 /\ Len(toClient') = 0
    OBVIOUS
  <1>2. Queued' = {} /\ DistinctIds(queue')
    BY <1>1 DEF Queued, PacketsOf, DistinctIds
  <1>3. Rg(toClient') = {}
    BY <1>1 DEF Rg
  <1>4. \A p \in Rg(toBroker') : p.type = "Connect"
    BY DEF Rg
  <1>5. Flying' = {}
    BY <1>4 DEF Flying, Requests
  <1>6. Outbound' = {}
    BY <1>2, <1>5 DEF Outbound
  <1>7. OutPackets' /\ OutIds' /\ OutPhase'
    BY <1>6 DEF OutPackets, OutIds, OutPhase
  <1>8. OutQueue'
    BY <1>2, <1>5 DEF OutQueue, OutNumbers
  <1>9. OutOrder'
    <2>1. Ordered(toBroker') /\ ConnectFirst(toBroker')
      BY DEF Ordered, ConnectFirst
    <2>2. toBroker' = <<>> => Rg(toBroker') = {}
      BY DEF Rg
    <2> QED
      BY <1>2, <1>5, <2>1, <2>2 DEF OutOrder
  <1>10. OutAcks'
    BY <1>3 DEF OutAcks
  <1>11. AtLeastOnce'
    BY DEF AtLeastOnce, Current
  <1> QED
    BY <1>7, <1>8, <1>9, <1>10, <1>11 DEF OutInv

\* Another request: the old ones keep what is known of them.
LEMMA IssuedFacts ==
    ASSUME SystemTypes, OutInv, NEW e \in [qos : 0..2, conn : Nat], Len(issued) < MaxOut,
           issued' = Append(issued, e), UNCHANGED <<got, accepted, connects>>, e.conn <= connects
    PROVE  /\ Len(issued) \in Nat /\ Len(issued') = Len(issued) + 1
           /\ \A m \in 1..Len(issued) : m \in 1..Len(issued') /\ issued'[m] = issued[m]
           /\ \A m \in 1..Len(issued') : m \in 1..Len(issued) \/ (m = Len(issued) + 1 /\ issued'[m] = e)
           /\ got[Len(issued) + 1] = 0
           /\ OutNumbers' /\ AtMostOnce'
  <1>1. /\ Len(issued) \in Nat /\ Len(issued') = Len(issued) + 1
        /\ \A m \in 1..Len(issued) : issued'[m] = issued[m]
        /\ issued'[Len(issued) + 1] = e
    BY AppendFacts, LenProperties DEF SystemTypes
  <1>2. /\ \A m \in 1..Len(issued) : m \in 1..Len(issued')
        /\ \A m \in 1..Len(issued') : m \in 1..Len(issued) \/ m = Len(issued) + 1
    BY <1>1
  <1>3. got[Len(issued) + 1] = 0
    <2>1. Len(issued) + 1 \in 1..MaxOut /\ Len(issued) + 1 > Len(issued)
      BY <1>1, SystemAssumption
    <2> QED
      BY <2>1 DEF OutInv, OutNumbers
  <1>4. OutNumbers'
    <2>1. accepted' <= connects'
      BY DEF OutInv, OutNumbers
    <2>2. \A m \in 1..Len(issued') : issued'[m].conn <= connects'
      BY <1>1, <1>2 DEF OutInv, OutNumbers
    <2>3. \A m \in 1..MaxOut : m > Len(issued') => got'[m] = 0
      <3>1. \A m \in 1..MaxOut : m > Len(issued') => m > Len(issued)
        BY <1>1, SystemAssumption
      <3> QED
        BY <3>1 DEF OutInv, OutNumbers
    <2> QED
      BY <2>1, <2>2, <2>3 DEF OutNumbers
  <1>5. AtMostOnce'
    BY <1>1, <1>2, <1>3 DEF OutInv, AtMostOnce
  <1> QED
    BY <1>1, <1>2, <1>3, <1>4, <1>5

\* The connection is closed, by a request that fails or otherwise.
LEMMA OutOff ==
    ASSUME SystemInv, OutInv, Off, UNCHANGED <<got, accepted, connects>>,
           \/ issued' = issued
           \/ Len(issued) < MaxOut /\ \E c \in 0..2 : issued' = Append(issued, [qos |-> c, conn |-> 0])
    PROVE  OutInv'
  <1>1. OutNumbers' /\ AtMostOnce'
    <2>1. CASE issued' = issued
      BY <2>1 DEF OutInv, OutNumbers, AtMostOnce
    <2>2. CASE Len(issued) < MaxOut /\ \E c \in 0..2 : issued' = Append(issued, [qos |-> c, conn |-> 0])
      <3>1. PICK c \in 0..2 : issued' = Append(issued, [qos |-> c, conn |-> 0])
        BY <2>2
      <3> DEFINE e == [qos |-> c, conn |-> 0]
      <3>2. e \in [qos : 0..2, conn : Nat] /\ e.conn <= connects
        BY DEF SystemInv, SystemTypes
      <3> HIDE DEF e
      <3>3. issued' = Append(issued, e)
        BY <3>1 DEF e
      <3> QED
        BY <2>2, <3>2, <3>3, IssuedFacts DEF SystemInv
    <2> QED
      BY <2>1, <2>2
  <1>2. queue' = <<>> /\ toClient' = <<>> /\ toBroker' = <<>> /\ status' = "Disconnected" /\ Len(toBroker') = 0
    BY DEF Off, Down
  <1> QED
    BY <1>1, <1>2, OutEmpty

\* A new connection.
LEMMA OutConnect == ASSUME SystemInv, OutInv, AppConnect PROVE OutInv'
  <1>1. /\ toBroker' = <<Packet("Connect", 0, 0, 0)>> /\ connects' = connects + 1
        /\ UNCHANGED <<queue, toClient, issued, accepted, got>> /\ status = "Disconnected"
    BY DEF AppConnect, Connect, brokerVars
  <1>2. queue' = <<>> /\ toClient' = <<>>
    BY <1>1 DEF SystemInv, ClientInv, SocketMatchesStatus
  <1>3. \A i \in 1..Len(toBroker') : toBroker'[i].type = "Connect" /\ i = 1
    BY <1>1 DEF Packet
  <1>4. connects \in Nat /\ accepted \in Nat /\ \A m \in 1..Len(issued) : issued[m].conn \in Nat
    <2>1. \A m \in 1..Len(issued) : issued[m] \in [qos : 0..2, conn : Nat]
      BY ElementOfSeq DEF SystemInv, SystemTypes
    <2> QED
      BY <2>1 DEF SystemInv, SystemTypes
  <1>5. accepted' < connects' /\ accepted' # connects' /\ \A m \in 1..Len(issued') : issued'[m].conn # connects'
    BY <1>1, <1>4 DEF OutInv, OutNumbers
  <1>6. OutNumbers' /\ AtMostOnce'
    BY <1>1, <1>4 DEF OutInv, OutNumbers, AtMostOnce
  <1> QED
    BY <1>2, <1>3, <1>5, <1>6, OutEmpty

\* The broker accepts the connection and forgets what the last one has left.
LEMMA OutAccept ==
    ASSUME SystemInv, OutInv, toBroker # <<>>, Head(toBroker).type = "Connect",
           toBroker' = Tail(toBroker), UNCHANGED <<status, queue, issued, connects, got>>,
           accepted' = connects, recorded' = {},
           NEW p \in Packets, p.type \notin Acks, toClient' = Append(toClient, p)
    PROVE  OutInv'
  <1>1. toBroker \in Seq(Packets) /\ toClient \in Seq(Packets) /\ connects \in Nat /\ accepted \in Nat
    BY DEF SystemInv, ClientInv, ClientTypes, SystemTypes
  <1>2. /\ Rg(toBroker') \subseteq Rg(toBroker) /\ Head(toBroker) \in Rg(toBroker)
        /\ Ordered(toBroker') /\ ConnectFirst(toBroker')
        /\ \A x \in Rg(toBroker') : x.type # "Connect"
    BY <1>1, TailFacts, OrderTail DEF OutInv, OutOrder
  <1>3. accepted # connects
    BY <1>1, <1>2 DEF OutInv, OutOrder
  <1>4. Rg(toClient') = Rg(toClient) \cup {p}
    BY <1>1, AppendFacts
  <1>5. \A a \in Rg(toClient') : a.type \notin Acks
    BY <1>3, <1>4 DEF OutInv, OutAcks
  <1>6. Flying' \subseteq Flying
    BY <1>2 DEF Flying
  <1>7. Queued' = Queued /\ DistinctIds(queue') = DistinctIds(queue)
    BY DEF Queued
  <1>8. Outbound' \subseteq Outbound
    BY <1>6, <1>7 DEF Outbound
  <1>9. OutNumbers'
    BY <1>1 DEF OutInv, OutNumbers
  <1>10. OutPackets' /\ OutIds'
    BY <1>8 DEF OutInv, OutPackets, OutIds
  <1>11. OutPhase'
    BY <1>3, <1>8 DEF OutInv, OutPhase
  <1>12. OutQueue'
    BY <1>6, <1>7 DEF OutInv, OutQueue, HasEntry
  <1>13. OutOrder'
    BY <1>2, <1>6, <1>7 DEF OutInv, OutOrder
  <1>14. OutAcks'
    BY <1>5 DEF OutAcks
  <1>15. AtLeastOnce' /\ AtMostOnce'
    BY DEF OutInv, AtLeastOnce, AtMostOnce, Current, Pending
  <1> QED
    BY <1>9, <1>10, <1>11, <1>12, <1>13, <1>14, <1>15 DEF OutInv

\* Sender sends a packet of the queue again and moves it to the end.
LEMMA OutResend ==
    ASSUME SystemInv, OutInv, DoResend, UNCHANGED <<brokerVars, appVars>>, SystemInv' PROVE OutInv'
  <1> DEFINE e == Head(queue)
             p == e.packet
             f == QueueEntry(p, e.tries - 1)
  <1>1. /\ queue # <<>> /\ toBroker' = Append(toBroker, p) /\ queue' = Append(Tail(queue), f)
        /\ UNCHANGED <<toClient, issued, connects, accepted, got, recorded>>
        /\ status # "Disconnected" /\ status' = status
    BY DEF DoResend, Stays, brokerVars, appVars
  <1>2. /\ toBroker \in Seq(Packets) /\ GoodQueue(queue, now) /\ queue \in Seq(Entries)
        /\ now \in 0..(TickMod - 1)
    BY DEF SystemInv, ClientInv, ClientTypes, GoodQueue
  <1>3. Tail(queue) \in Seq(Entries) /\ e = queue[1] /\ e \in Entries
    BY <1>1, <1>2, TailFacts
  <1>4. 1 \in 1..Len(queue)
    BY <1>1, <1>2, TailFacts
  <1>5. /\ PacketsOf(queue) = PacketsOf(Tail(queue)) \cup {p}
        /\ DistinctIds(Tail(queue)) /\ \A q \in PacketsOf(Tail(queue)) : q.id # p.id
    BY <1>1, <1>2, PacketsTail DEF OutInv, OutQueue
  <1>6. p \in Packets /\ p.type \in Requests /\ e.tries - 1 \in Int
    BY <1>2, <1>3, <1>4 DEF Entries, GoodQueue
  <1>7. f \in Entries /\ f.packet = p
    <2>1. GoodQueue(<<>>, now)
      BY GoodEmpty
    <2> DEFINE n == e.tries - 1
    <2> HIDE DEF e, p, n
    <2>2. QueueEntry(p, n) \in Entries
      BY <1>2, <1>6, <2>1, GoodInsert DEF n
    <2>3. QueueEntry(p, n).packet = p
      BY DEF QueueEntry
    <2> QED
      BY <2>2, <2>3 DEF n
  <1> HIDE DEF f, p, e
  <1>8. /\ PacketsOf(queue') = PacketsOf(Tail(queue)) \cup {p}
        /\ DistinctIds(queue')
    BY <1>1, <1>3, <1>5, <1>7, PacketsAppend
  <1>9. Queued' = Queued /\ p \in Queued
    BY <1>5, <1>8 DEF Queued
  <1>10. Rg(toBroker') = Rg(toBroker) \cup {p}
    BY <1>1, <1>2, <1>6, AppendFacts
  <1>11. Flying' = Flying \cup {p}
    BY <1>6, <1>10 DEF Flying
  <1>12. Outbound' = Outbound
    BY <1>9, <1>11 DEF Outbound
  <1>13. OutNumbers'
    BY <1>1 DEF OutInv, OutNumbers
  <1>14. OutPackets' /\ OutIds' /\ OutPhase'
    BY <1>1, <1>12 DEF OutInv, OutPackets, OutIds, OutPhase
  <1>15. OutQueue'
    <2>1. p.qos = 2 => HasEntry(p.id)
      BY <1>9 DEF HasEntry
    <2>2. \A x : HasEntry(x)' = HasEntry(x)
      BY <1>9 DEF HasEntry
    <2> QED
      BY <1>1, <1>8, <1>9, <1>11, <2>1, <2>2 DEF OutInv, OutQueue
  <1>16. OutOrder'
    <2>1. \A q \in Queued : q.id = p.id => q = p
      BY <1>5 DEF Queued
    <2>2. p.type # "Connect"
      BY <1>6 DEF Requests
    <2>3. p.type = "Publish" => \A r \in Rg(toBroker) : r.type = "PubRel" => r.id # p.id
      BY <1>9 DEF OutInv, OutOrder, Flying, Requests
    <2>4. Ordered(toBroker') /\ ConnectFirst(toBroker')
      BY <1>1, <1>2, <1>6, <2>2, <2>3, OrderAppend DEF OutInv, OutOrder
    <2>5. \A x \in Rg(toBroker') : x.type = "Connect" => accepted' < connects'
      BY <1>1, <1>10, <2>2 DEF OutInv, OutOrder
    <2>6. \A r \in Flying', q \in Queued' : r.type = "PubRel" /\ q.type = "Publish" => r.id # q.id
      BY <1>9, <1>11, <2>1 DEF OutInv, OutOrder
    <2> QED
      BY <2>4, <2>5, <2>6 DEF OutOrder
  <1>17. OutAcks'
    BY <1>1, <1>12 DEF OutInv, OutAcks
  <1>18. AtMostOnce'
    BY <1>1 DEF OutInv, AtMostOnce
  <1>19. AtLeastOnce'
    <2>1. \A m : Pending(m)' <=> \E q \in Queued' : q.msg = m
      BY DEF Pending, Queued, PacketsOf
    <2>2. \A m : Pending(m) <=> \E q \in Queued : q.msg = m
      BY DEF Pending, Queued, PacketsOf
    <2> QED
      BY <1>1, <1>9, <2>1, <2>2 DEF OutInv, AtLeastOnce, Current
  <1> QED
    BY <1>13, <1>14, <1>15, <1>16, <1>17, <1>18, <1>19 DEF OutInv

\* Whether a request is in the queue.
LEMMA PendingFacts ==
    /\ \A m : Pending(m) <=> \E q \in Queued : q.msg = m
    /\ \A m : Pending(m)' <=> \E q \in Queued' : q.msg = m
  BY DEF Pending, Queued, PacketsOf

\* The application's request is sent and queued under a free identifier.
LEMMA OutRequest ==
    ASSUME SystemInv, OutInv, NEW type \in {"Subscribe", "Unsubscribe", "Publish"}, NEW qos \in 0..2,
           type # "Publish" => qos = 1, DoRequest(Packet(type, nextId, qos, Len(issued) + 1)),
           Len(issued) < MaxOut, IdentifierFree, UNCHANGED <<brokerVars, connects>>,
           issued' = Append(issued,
               [qos |-> qos, conn |-> IF status' = "Disconnected" THEN 0 ELSE connects])
    PROVE  OutInv'
  <1> DEFINE n == Len(issued) + 1
             p == Packet(type, nextId, qos, n)
             e == [qos |-> qos, conn |-> connects]
             f == QueueEntry(p, SendTries - 1)
  <1>1. /\ status # "Disconnected" /\ status' = status /\ toBroker' = Append(toBroker, p)
        /\ queue' = IF p.qos > 0 THEN Append(queue, f) ELSE queue
        /\ UNCHANGED <<toClient, connects, accepted, got, recorded>>
    BY DEF DoRequest, Stays, brokerVars
  <1>2. /\ toBroker \in Seq(Packets) /\ toClient \in Seq(Packets) /\ queue \in Seq(Entries)
        /\ now \in 0..(TickMod - 1) /\ nextId \in Nat /\ connects \in Nat /\ Len(issued) \in Nat
    BY LenProperties DEF SystemInv, ClientInv, ClientTypes, GoodQueue, SystemTypes
  <1>3. type \in Types /\ type \in Requests /\ type # "PubRel" /\ type # "Connect" /\ n \in Nat
    BY <1>2 DEF Types, Requests
  <1>4. p \in Packets /\ p.type = type /\ p.id = nextId /\ p.qos = qos /\ p.msg = n
    <2> HIDE DEF n
    <2> QED
      BY <1>2, <1>3 DEF Packet, Packets
  <1>5. f \in Entries /\ f.packet = p
    <2>1. GoodQueue(<<>>, now) /\ SendTries - 1 \in Int
      BY GoodEmpty, MqttAssumption
    <2> HIDE DEF p
    <2>2. f \in Entries
      BY <1>2, <1>3, <1>4, <2>1, GoodInsert
    <2> QED
      BY <2>2 DEF QueueEntry
  <1>6. e \in [qos : 0..2, conn : Nat] /\ e.conn <= connects /\ e.conn = connects /\ e.qos = qos
    BY <1>2
  <1>7. issued' = Append(issued, e)
    BY <1>1
  <1> HIDE DEF p, e, f
  <1>8. /\ Len(issued') = n
        /\ \A m \in 1..Len(issued) : m \in 1..Len(issued') /\ issued'[m] = issued[m]
        /\ \A m \in 1..Len(issued') : m \in 1..Len(issued) \/ (m = n /\ issued'[m] = e)
        /\ got[n] = 0
        /\ OutNumbers' /\ AtMostOnce'
    BY <1>1, <1>6, <1>7, IssuedFacts DEF SystemInv
  <1>9. n \in 1..Len(issued') /\ issued'[n] = e /\ n \notin 1..Len(issued)
    BY <1>2, <1>8
  <1> HIDE DEF n
  <1>10. \A q \in Queued : q.id # nextId
    <2>1. InQueue(nextId) = 0
      BY DEF IdentifierFree
    <2> QED
      BY <1>2, <2>1, InQueueFacts DEF Queued, PacketsOf
  <1>11. (\A q \in Rg(toBroker) : q.id # nextId) /\ (\A q \in Rg(toClient) : q.id # nextId)
    BY DEF IdentifierFree, NotUnderWay, Rg
  <1>12. Queued' = (IF qos > 0 THEN Queued \cup {p} ELSE Queued) /\ DistinctIds(queue')
    <2>1. CASE qos > 0
      <3>1. queue' = Append(queue, f)
        BY <1>1, <1>4, <2>1
      <3>2. \A q \in PacketsOf(queue) : q.id # f.packet.id
        BY <1>4, <1>5, <1>10 DEF Queued
      <3>3. PacketsOf(queue') = PacketsOf(queue) \cup {p} /\ DistinctIds(queue')
        BY <1>2, <1>5, <3>1, <3>2, PacketsAppend DEF OutInv, OutQueue
      <3> QED
        BY <2>1, <3>3 DEF Queued
    <2>2. CASE ~(qos > 0)
      <3>1. queue' = queue
        BY <1>1, <1>4, <2>2
      <3> QED
        BY <2>2, <3>1 DEF Queued, OutInv, OutQueue
    <2> QED
      BY <2>1, <2>2
  <1>13. Rg(toBroker') = Rg(toBroker) \cup {p}
    BY <1>1, <1>2, <1>4, AppendFacts
  <1>14. Flying' = Flying \cup {p}
    BY <1>3, <1>4, <1>13 DEF Flying
  <1>15. Outbound' = Outbound \cup {p}
    BY <1>12, <1>14 DEF Outbound
  <1>16. \A q \in Outbound : q.id # nextId /\ q.msg \in 1..Len(issued) /\ q.msg # n
    <2>1. \A q \in Outbound : q.id # nextId
      BY <1>10, <1>11 DEF Outbound, Flying
    <2>2. \A q \in Outbound : q.msg \in 1..Len(issued)
      BY DEF OutInv, OutPackets
    <2> QED
      BY <1>9, <2>1, <2>2
  <1>17. OutPackets'
    <2>1. \A q \in Outbound : /\ q.msg \in 1..Len(issued') /\ issued'[q.msg] = issued[q.msg]
      BY <1>8, <1>16
    <2>2. p.msg \in 1..Len(issued') /\ issued'[p.msg].conn = connects /\ issued'[p.msg].qos = p.qos
      BY <1>4, <1>6, <1>9
    <2> QED
      BY <1>1, <1>15, <2>1, <2>2 DEF OutInv, OutPackets
  <1>18. OutIds'
    BY <1>4, <1>15, <1>16 DEF OutInv, OutIds
  <1>19. HasEntry(nextId) => FALSE
    BY <1>10 DEF HasEntry
  <1>20. OutPhase'
    <2>1. accepted = connects => nextId \notin recorded
      BY <1>1, <1>19 DEF OutInv, OutQueue
    <2>2. p.type \notin {"Publish", "PubRel"} => p.qos # 2
      BY <1>4
    <2>3. p.type # "PubRel" /\ ~(got[p.msg] > 0) /\ p.id = nextId
      BY <1>3, <1>4, <1>8
    <2> QED
      BY <1>1, <1>15, <2>1, <2>2, <2>3 DEF OutInv, OutPhase
  <1>21. OutQueue'
    <2>1. \A x : HasEntry(x) => HasEntry(x)'
      BY <1>12 DEF HasEntry
    <2>2. \A x : x = p.id /\ p.qos = 2 => HasEntry(x)'
      BY <1>4, <1>12 DEF HasEntry
    <2>3. \A q \in Queued' : q.qos > 0
      BY <1>4, <1>12 DEF OutInv, OutQueue
    <2>4. \A q \in Flying' : q.type = "Publish" /\ q.qos = 2 => HasEntry(q.id)'
      BY <1>14, <2>1, <2>2 DEF OutInv, OutQueue
    <2>5. (status' # "Disconnected" /\ accepted' = connects') => \A x \in recorded' : HasEntry(x)'
      BY <1>1, <2>1 DEF OutInv, OutQueue
    <2> QED
      BY <1>12, <2>3, <2>4, <2>5 DEF OutQueue
  <1>22. OutOrder'
    <2>1. Ordered(toBroker') /\ ConnectFirst(toBroker')
      BY <1>1, <1>2, <1>3, <1>4, <1>11, OrderAppend DEF OutInv, OutOrder
    <2>2. \A x \in Rg(toBroker') : x.type = "Connect" => accepted' < connects'
      BY <1>1, <1>3, <1>4, <1>13 DEF OutInv, OutOrder
    <2>3. \A r \in Flying : r.id # nextId
      BY <1>11 DEF Flying
    <2>4. \A r \in Flying', q \in Queued' : r.type = "PubRel" /\ q.type = "Publish" => r.id # q.id
      BY <1>3, <1>4, <1>12, <1>14, <2>3 DEF OutInv, OutOrder
    <2> QED
      BY <2>1, <2>2, <2>4 DEF OutOrder
  <1>23. OutAcks'
    BY <1>1, <1>4, <1>11, <1>15 DEF OutInv, OutAcks
  <1>24. AtLeastOnce'
    <2> SUFFICES ASSUME NEW m \in 1..Len(issued'), issued'[m].qos > 0, Current(m)', ~Pending(m)'
                 PROVE  got'[m] > 0
      BY DEF AtLeastOnce
    <2>1. CASE m \in 1..Len(issued)
      <3>1. issued'[m] = issued[m]
        BY <1>8, <2>1
      <3>2. ~Pending(m)
        BY <1>12, PendingFacts
      <3>3. Current(m)
        BY <1>1, <3>1 DEF Current
      <3> QED
        BY <1>1, <2>1, <3>1, <3>2, <3>3 DEF OutInv, AtLeastOnce
    <2>2. CASE m = n
      <3>1. qos > 0
        BY <1>6, <1>9, <2>2
      <3> QED
        BY <1>4, <1>12, <2>2, <3>1, PendingFacts
    <2> QED
      BY <1>8, <2>1, <2>2
  <1> QED
    BY <1>8, <1>17, <1>18, <1>20, <1>21, <1>22, <1>23, <1>24 DEF OutInv

\* RemovePacketFromQueue takes out the only packet with its identifier.
LEMMA PacketsRemove ==
    ASSUME NEW q \in Seq(Entries), NEW i \in 1..Len(q), DistinctIds(q)
    PROVE  /\ RemoveAt(q, i) \in Seq(Entries) /\ DistinctIds(RemoveAt(q, i))
           /\ \E p \in Packets :
                 /\ p = q[i].packet /\ PacketsOf(q) = PacketsOf(RemoveAt(q, i)) \cup {p}
                 /\ \A x \in PacketsOf(RemoveAt(q, i)) : x.id # p.id
  <1> DEFINE r == RemoveAt(q, i)
             p == q[i].packet
  <1>1. r \in Seq(Entries) /\ Without(q, i, r)
    BY RemoveFacts DEF Without
  <1>2. p \in Packets
    <2>1. q[i] \in Entries
      BY ElementOfSeq
    <2> QED
      BY <2>1 DEF Entries
  <1> HIDE DEF r
  <1>3. /\ PacketsOf(q) = PacketsOf(r) \cup {p}
        /\ DistinctIds(q) => DistinctIds(r) /\ \A x \in PacketsOf(r) : x.id # p.id
    BY <1>1, PacketsWithout, Zenon
  <1> QED
    BY <1>1, <1>2, <1>3 DEF r

\* An acknowledgement ends the retransmission of a packet that the broker has.
LEMMA OutAck ==
    ASSUME SystemInv, OutInv, DoAck, UNCHANGED <<brokerVars, appVars>> PROVE OutInv'
  <1>1. toBroker \in Seq(Packets) /\ toClient \in Seq(Packets) /\ queue \in Seq(Entries)
    BY DEF SystemInv, ClientInv, ClientTypes, GoodQueue
  <1>2. /\ status # "Disconnected" /\ status' = status /\ toBroker' = toBroker
        /\ toClient # <<>> /\ toClient' = Tail(toClient)
        /\ UNCHANGED <<issued, connects, accepted, got, recorded>>
    BY DEF DoAck, Takes0, Stays, brokerVars, appVars
  <1>3. PICK h : h = Head(toClient)
    OBVIOUS
  <1>4. PICK i \in 1..Len(queue) :
              /\ queue[i].packet.id = h.id /\ queue[i].packet.qos = AckQoS(h.type)
              /\ queue' = RemoveAt(queue, i)
    BY <1>3, Zenon DEF DoAck
  <1>5. h \in Rg(toClient) /\ h.type \in Acks /\ Rg(toClient') \subseteq Rg(toClient)
    <2>1. h.type \in Acks
      BY <1>3 DEF DoAck, Acks
    <2> QED
      BY <1>1, <1>2, <1>3, <2>1, TailFacts
  <1>6. PICK p \in Packets :
              /\ p = queue[i].packet /\ PacketsOf(queue) = PacketsOf(queue') \cup {p}
              /\ \A x \in PacketsOf(queue') : x.id # p.id
    BY <1>1, <1>4, PacketsRemove DEF OutInv, OutQueue
  <1>7. DistinctIds(queue')
    BY <1>1, <1>4, PacketsRemove DEF OutInv, OutQueue
  <1>8. /\ Queued = Queued' \cup {p} /\ p.id = h.id /\ p.qos = AckQoS(h.type)
        /\ \A x \in Queued' : x.id # p.id
    BY <1>4, <1>6 DEF Queued
  <1>9. Flying' = Flying
    BY <1>2 DEF Flying
  <1>10. Outbound' \subseteq Outbound /\ p \in Outbound
    BY <1>8, <1>9 DEF Outbound
  <1>11. got[p.msg] > 0
    BY <1>5, <1>8, <1>10 DEF OutInv, OutAcks
  <1>12. OutNumbers'
    BY <1>2 DEF OutInv, OutNumbers
  <1>13. OutPackets' /\ OutIds' /\ OutPhase'
    BY <1>2, <1>10 DEF OutInv, OutPackets, OutIds, OutPhase
  <1>14. OutQueue'
    <2>1. \A x : HasEntry(x) /\ x # p.id => HasEntry(x)'
      BY <1>8 DEF HasEntry
    <2>2. HasEntry(p.id) => h.type = "PubComp"
      <3>1. SUFFICES ASSUME NEW q \in Queued, q.id = p.id, q.qos = 2 PROVE h.type = "PubComp"
        BY DEF HasEntry
      <3>2. q = p
        BY <1>8, <3>1
      <3> QED
        BY <1>8, <3>1, <3>2 DEF AckQoS
    <2>3. h.type = "PubComp" => p.id \notin recorded /\ \A q \in Flying : q.id = p.id => q.type # "Publish"
      BY <1>5, <1>8 DEF OutInv, OutAcks, Outbound
    <2>4. \A q \in Flying' : q.type = "Publish" /\ q.qos = 2 => HasEntry(q.id)'
      BY <1>9, <2>1, <2>2, <2>3 DEF OutInv, OutQueue
    <2>5. (status' # "Disconnected" /\ accepted' = connects') => \A x \in recorded' : HasEntry(x)'
      BY <1>2, <2>1, <2>2, <2>3 DEF OutInv, OutQueue
    <2>6. \A q \in Queued' : q.qos > 0
      BY <1>8 DEF OutInv, OutQueue
    <2> QED
      BY <1>7, <2>4, <2>5, <2>6 DEF OutQueue
  <1>15. OutOrder'
    BY <1>2, <1>8, <1>9 DEF OutInv, OutOrder
  <1>16. OutAcks'
    BY <1>2, <1>5, <1>10 DEF OutInv, OutAcks
  <1>17. AtMostOnce'
    BY <1>2 DEF OutInv, AtMostOnce
  <1>18. AtLeastOnce'
    <2> SUFFICES ASSUME NEW m \in 1..Len(issued), issued[m].qos > 0, Current(m), ~Pending(m)'
                 PROVE  got[m] > 0
      BY <1>2 DEF AtLeastOnce, Current
    <2>1. CASE Pending(m)
      BY <1>8, <1>11, <2>1, PendingFacts
    <2>2. CASE ~Pending(m)
      BY <2>2 DEF OutInv, AtLeastOnce
    <2> QED
      BY <2>1, <2>2
  <1> QED
    BY <1>12, <1>13, <1>14, <1>15, <1>16, <1>17, <1>18 DEF OutInv

\* PUBREC: the PUBREL takes the place of the PUBLISH that the broker has.
LEMMA OutPubRec ==
    ASSUME SystemInv, OutInv, DoPubRec, UNCHANGED <<brokerVars, appVars>> PROVE OutInv'
  <1>1. /\ toBroker \in Seq(Packets) /\ toClient \in Seq(Packets) /\ queue \in Seq(Entries)
        /\ now \in 0..(TickMod - 1)
    BY DEF SystemInv, ClientInv, ClientTypes, GoodQueue
  <1>2. PICK h : h = Head(toClient)
    OBVIOUS
  <1>3. PICK i \in 1..Len(queue) :
              /\ queue[i].packet.id = h.id /\ queue[i].packet.qos = 2
              /\ Answers(h, Packet("PubRel", h.id, 2, queue[i].packet.msg))
              /\ queue' = Append(RemoveAt(queue, i),
                       QueueEntry(Packet("PubRel", h.id, 2, queue[i].packet.msg), SendTries - 1))
    BY <1>2, Zenon DEF DoPubRec
  <1>4. PICK p \in Packets :
              /\ p = queue[i].packet /\ PacketsOf(queue) = PacketsOf(RemoveAt(queue, i)) \cup {p}
              /\ \A x \in PacketsOf(RemoveAt(queue, i)) : x.id # p.id
    BY <1>1, PacketsRemove DEF OutInv, OutQueue
  <1>5. RemoveAt(queue, i) \in Seq(Entries) /\ DistinctIds(RemoveAt(queue, i))
    BY <1>1, PacketsRemove DEF OutInv, OutQueue
  <1>6. PICK rel : rel = Packet("PubRel", p.id, 2, p.msg)
    OBVIOUS
  <1>7. /\ rel \in Packets /\ rel.type = "PubRel" /\ rel.id = p.id /\ rel.qos = 2 /\ rel.msg = p.msg
        /\ p.id \in Nat /\ p.msg \in Nat
    <2>1. p.id \in Nat /\ p.msg \in Nat
      BY <1>4 DEF Packets
    <2>2. Packet("PubRel", p.id, 2, p.msg) \in Packets /\ Packet("PubRel", p.id, 2, p.msg).type = "PubRel"
      BY <2>1, AnswerPackets, Zenon
    <2>3. rel.id = p.id /\ rel.qos = 2 /\ rel.msg = p.msg
      BY <1>6 DEF Packet
    <2> QED
      BY <1>6, <2>1, <2>2, <2>3
  <1>8. p.id = h.id /\ p.qos = 2
    BY <1>3, <1>4
  <1>9. /\ Answers(h, rel) /\ queue' = Append(RemoveAt(queue, i), QueueEntry(rel, SendTries - 1))
    BY <1>3, <1>4, <1>6, <1>8
  <1>10. /\ status # "Disconnected" /\ status' = status /\ toBroker' = Append(toBroker, rel)
         /\ toClient # <<>> /\ toClient' = Tail(toClient)
         /\ UNCHANGED <<issued, connects, accepted, got, recorded>>
    BY <1>9 DEF Answers, Stays, brokerVars, appVars
  <1>11. h \in Rg(toClient) /\ h.type = "PubRec" /\ Rg(toClient') \subseteq Rg(toClient)
    <2>1. h.type = "PubRec"
      BY <1>2 DEF DoPubRec
    <2> QED
      BY <1>1, <1>2, <1>10, <2>1, TailFacts
  <1>12. QueueEntry(rel, SendTries - 1) \in Entries /\ QueueEntry(rel, SendTries - 1).packet = rel
    <2>1. GoodQueue(<<>>, now) /\ SendTries - 1 \in Int /\ rel.type \in Requests
      BY <1>7, GoodEmpty, MqttAssumption DEF Requests
    <2>2. QueueEntry(rel, SendTries - 1) \in Entries
      BY <1>1, <1>7, <2>1, GoodInsert
    <2> QED
      BY <2>2 DEF QueueEntry
  <1>13. PacketsOf(queue') = PacketsOf(RemoveAt(queue, i)) \cup {rel} /\ DistinctIds(queue')
    <2> DEFINE f == QueueEntry(rel, SendTries - 1)
               r == RemoveAt(queue, i)
    <2>1. f \in Entries /\ f.packet = rel /\ r \in Seq(Entries) /\ DistinctIds(r) /\ queue' = Append(r, f)
          /\ \A x \in PacketsOf(r) : x.id # f.packet.id
      BY <1>4, <1>5, <1>7, <1>9, <1>12
    <2> HIDE DEF f, r
    <2>2. PacketsOf(queue') = PacketsOf(r) \cup {rel} /\ DistinctIds(queue')
      BY <2>1, PacketsAppend
    <2> QED
      BY <2>2 DEF r
  <1>14. PICK rest : rest = PacketsOf(RemoveAt(queue, i))
    OBVIOUS
  <1>15. /\ Queued = rest \cup {p} /\ Queued' = rest \cup {rel} /\ \A x \in rest : x.id # p.id
    BY <1>4, <1>13, <1>14 DEF Queued
  <1>16. Rg(toBroker') = Rg(toBroker) \cup {rel}
    BY <1>1, <1>7, <1>10, AppendFacts
  <1>17. Flying' = Flying \cup {rel}
    BY <1>7, <1>16 DEF Flying, Requests
  <1>18. \A x \in Outbound' : x = rel \/ x \in Outbound
    BY <1>15, <1>17 DEF Outbound
  <1>19. p \in Outbound
    BY <1>15 DEF Outbound
  <1>20. h.type \in Acks
    BY <1>11 DEF Acks
  <1>21. accepted = connects /\ got[p.msg] > 0
    BY <1>8, <1>11, <1>19, <1>20 DEF OutInv, OutAcks
  <1>22. OutNumbers'
    BY <1>10 DEF OutInv, OutNumbers
  <1>23. OutPackets'
    BY <1>7, <1>8, <1>10, <1>18, <1>19 DEF OutInv, OutPackets
  <1>24. OutIds'
    BY <1>7, <1>18, <1>19 DEF OutInv, OutIds
  <1>25. OutPhase'
    BY <1>7, <1>10, <1>18, <1>21 DEF OutInv, OutPhase
  <1>26. OutQueue'
    <2>1. \A x : HasEntry(x) => HasEntry(x)'
      BY <1>7, <1>15 DEF HasEntry
    <2>2. \A q \in Queued' : q.qos > 0
      BY <1>7, <1>15 DEF OutInv, OutQueue
    <2>3. \A q \in Flying' : q.type = "Publish" /\ q.qos = 2 => HasEntry(q.id)'
      BY <1>7, <1>17, <2>1 DEF OutInv, OutQueue
    <2>4. (status' # "Disconnected" /\ accepted' = connects') => \A x \in recorded' : HasEntry(x)'
      BY <1>10, <2>1 DEF OutInv, OutQueue
    <2> QED
      BY <1>13, <2>2, <2>3, <2>4 DEF OutQueue
  <1>27. OutOrder'
    <2>1. Ordered(toBroker') /\ ConnectFirst(toBroker')
      BY <1>1, <1>7, <1>10, OrderAppend DEF OutInv, OutOrder
    <2>2. \A x \in Rg(toBroker') : x.type = "Connect" => accepted' < connects'
      BY <1>7, <1>10, <1>16 DEF OutInv, OutOrder
    <2>3. \A r \in Flying', q \in Queued' : r.type = "PubRel" /\ q.type = "Publish" => r.id # q.id
      BY <1>7, <1>15, <1>17 DEF OutInv, OutOrder
    <2> QED
      BY <2>1, <2>2, <2>3 DEF OutOrder
  <1>28. OutAcks'
    BY <1>7, <1>10, <1>11, <1>18, <1>21 DEF OutInv, OutAcks
  <1>29. AtMostOnce'
    BY <1>10 DEF OutInv, AtMostOnce
  <1>30. AtLeastOnce'
    <2>1. \A m : Pending(m)' <=> Pending(m)
      BY <1>7, <1>15, PendingFacts
    <2> QED
      BY <1>10, <2>1 DEF OutInv, AtLeastOnce, Current
  <1> QED
    BY <1>22, <1>23, <1>24, <1>25, <1>26, <1>27, <1>28, <1>29, <1>30 DEF OutInv

\* The broker takes a request, or knows it, and acknowledges it.
LEMMA OutTake == ASSUME SystemInv, OutInv, BrokerRequest PROVE OutInv'
  <1>1. /\ toBroker \in Seq(Packets) /\ toClient \in Seq(Packets) /\ got \in [1..MaxOut -> Nat]
        /\ Len(issued) <= MaxOut /\ Len(issued) \in Nat
    BY LenProperties DEF SystemInv, ClientInv, ClientTypes, SystemTypes
  <1>2. PICK h : h = Head(toBroker)
    OBVIOUS
  <1>3. /\ status # "Disconnected" /\ accepted = connects /\ toBroker # <<>> /\ toBroker' = Tail(toBroker)
        /\ h.type \in {"Subscribe", "Unsubscribe", "Publish"}
        /\ UNCHANGED <<status, queue, issued, connects, accepted>>
    BY <1>2 DEF BrokerRequest, BrokerOpen, BrokerReads, clientVars, appVars
  <1>4. /\ (h.qos < 2 \/ h.id \notin recorded) => got' = [got EXCEPT ![h.msg] = @ + 1]
        /\ ~(h.qos < 2 \/ h.id \notin recorded) => got' = got
        /\ recorded' = IF h.qos = 2 THEN recorded \cup {h.id} ELSE recorded
    BY <1>2 DEF BrokerRequest, Takes
  <1>5. /\ h \in Packets /\ h \in Rg(toBroker) /\ Rg(toBroker') \subseteq Rg(toBroker)
        /\ Ordered(toBroker') /\ ConnectFirst(toBroker')
    BY <1>1, <1>2, <1>3, TailFacts, OrderTail DEF OutInv, OutOrder
  <1>6. h \in Flying /\ h \in Outbound /\ h.id \in Nat /\ h.qos \in Nat
    BY <1>3, <1>5 DEF Flying, Outbound, Requests, Packets
  <1>7. \A a \in Rg(toClient') : a \in Rg(toClient) \/ (a.type # "PubComp" /\ a.id = h.id)
    <2>1. CASE toClient' = toClient
      BY <2>1
    <2>2. CASE \E t \in {"SubAck", "UnsubAck", "PubAck", "PubRec"}, c \in Nat :
                  toClient' = Append(toClient, Packet(t, h.id, c, 0))
      <3>1. PICK t \in {"SubAck", "UnsubAck", "PubAck", "PubRec"}, c \in Nat :
                  toClient' = Append(toClient, Packet(t, h.id, c, 0))
        BY <2>2
      <3>2. PICK a : a = Packet(t, h.id, c, 0)
        OBVIOUS
      <3>3. t \in Types /\ t # "PubComp"
        BY DEF Types, Answering
      <3>4. a \in Packets /\ a.type = t /\ a.id = h.id
        <4>1. PICK x : x = h.id
          OBVIOUS
        <4>2. x \in Nat /\ a = Packet(t, x, c, 0)
          BY <1>6, <3>2, <4>1
        <4>3. a \in Packets /\ a.type = t /\ a.id = x
          BY <3>3, <4>2 DEF Packet, Packets
        <4> QED
          BY <4>1, <4>3
      <3>5. Rg(toClient') = Rg(toClient) \cup {a}
        BY <1>1, <3>1, <3>2, <3>4, AppendFacts
      <3> QED
        BY <3>3, <3>4, <3>5
    <2>3. 0 \in Nat /\ 128 \in Nat
      OBVIOUS
    <2> QED
      BY <1>2, <2>1, <2>2, <2>3 DEF BrokerRequest, BrokerSays
  <1>8. Flying' \subseteq Flying
    BY <1>5 DEF Flying
  <1>9. Queued' = Queued
    BY <1>3 DEF Queued
  <1>10. Outbound' \subseteq Outbound
    BY <1>8, <1>9 DEF Outbound
  <1>11. PICK k : k = h.msg
    OBVIOUS
  <1>12. k \in 1..Len(issued) /\ k \in 1..MaxOut /\ issued[k].qos = h.qos /\ h.qos \in 0..2
    <2>1. k \in 1..Len(issued) /\ issued[k].qos = h.qos
      BY <1>6, <1>11 DEF OutInv, OutPackets
    <2>2. issued[k] \in [qos : 0..2, conn : Nat]
      BY <2>1, ElementOfSeq DEF SystemInv, SystemTypes
    <2> QED
      BY <1>1, <2>1, <2>2, SystemAssumption
  <1>13. \/ got' = [got EXCEPT ![k] = @ + 1] /\ (h.qos = 2 => h.id \notin recorded)
         \/ got' = got /\ h.qos = 2 /\ h.id \in recorded
    BY <1>4, <1>11, <1>12
  <1>14. h.qos = 2 => h.type = "Publish" /\ (got[k] > 0 <=> h.id \in recorded)
    BY <1>3, <1>6, <1>11 DEF OutInv, OutPhase
  <1>15. /\ \A m \in 1..MaxOut : m # k => got'[m] = got[m]
         /\ got'[k] > 0 /\ (h.qos = 2 /\ got[k] <= 1 => got'[k] <= 1)
         /\ \A m \in 1..MaxOut : got[m] > 0 => got'[m] > 0
    <2>1. CASE got' = [got EXCEPT ![k] = @ + 1] /\ (h.qos = 2 => h.id \notin recorded)
      BY <1>1, <1>12, <1>14, <2>1
    <2>2. CASE got' = got /\ h.qos = 2 /\ h.id \in recorded
      BY <1>1, <1>12, <1>14, <2>2
    <2> QED
      BY <1>13, <2>1, <2>2
  <1>16. \A q \in Outbound : q.msg \in 1..MaxOut /\ (q.id = h.id <=> q.msg = k)
    <2>1. \A q \in Outbound : q.msg \in 1..Len(issued)
      BY DEF OutInv, OutPackets
    <2> QED
      BY <1>1, <1>6, <1>11, <2>1, SystemAssumption DEF OutInv, OutIds
  <1>17. OutNumbers'
    <2>1. \A m \in 1..MaxOut : m > Len(issued) => m # k
      BY <1>1, <1>12
    <2> QED
      BY <1>3, <1>15, <2>1 DEF OutInv, OutNumbers
  <1>18. OutPackets' /\ OutIds'
    BY <1>3, <1>10 DEF OutInv, OutPackets, OutIds
  <1>19. OutPhase'
    <2> SUFFICES ASSUME NEW p \in Outbound
                 PROVE  /\ p.type = "PubRel" => p.qos = 2 /\ accepted' = connects' /\ got'[p.msg] > 0
                        /\ p.type \notin {"Publish", "PubRel"} => p.qos # 2
                        /\ p.type = "Publish" /\ p.qos = 2 =>
                              (got'[p.msg] > 0 <=> accepted' = connects' /\ p.id \in recorded')
      BY <1>10 DEF OutPhase
    <2>1. /\ p.type = "PubRel" => p.qos = 2 /\ got[p.msg] > 0
          /\ p.type \notin {"Publish", "PubRel"} => p.qos # 2
          /\ p.type = "Publish" /\ p.qos = 2 => (got[p.msg] > 0 <=> p.id \in recorded)
          /\ issued[p.msg].qos = p.qos
      BY <1>3 DEF OutInv, OutPhase, OutPackets
    <2>2. CASE p.msg = k
      <3>1. p.id = h.id /\ p.qos = h.qos
        BY <1>12, <1>16, <2>1, <2>2
      <3> QED
        BY <1>3, <1>4, <1>15, <2>1, <2>2, <3>1
    <2>3. CASE p.msg # k
      <3>1. p.id # h.id /\ got'[p.msg] = got[p.msg]
        BY <1>15, <1>16, <2>3
      <3>2. p.id \in recorded' <=> p.id \in recorded
        BY <1>4, <3>1
      <3> QED
        BY <1>3, <2>1, <3>1, <3>2
    <2> QED
      BY <2>2, <2>3
  <1>20. OutQueue'
    <2>1. \A x : HasEntry(x)' <=> HasEntry(x)
      BY <1>9 DEF HasEntry
    <2>2. h.qos = 2 => HasEntry(h.id)
      BY <1>6, <1>14 DEF OutInv, OutQueue
    <2>3. \A x \in recorded' : HasEntry(x)
      BY <1>3, <1>4, <2>2 DEF OutInv, OutQueue
    <2>4. DistinctIds(queue')
      BY <1>3 DEF OutInv, OutQueue
    <2> QED
      BY <1>8, <1>9, <2>1, <2>3, <2>4 DEF OutInv, OutQueue
  <1>21. OutOrder'
    BY <1>3, <1>5, <1>8, <1>9 DEF OutInv, OutOrder
  <1>22. OutAcks'
    <2> SUFFICES ASSUME NEW a \in Rg(toClient'), a.type \in Acks
                 PROVE  /\ accepted' = connects'
                        /\ \A p \in Outbound' : p.id = a.id => got'[p.msg] > 0
                        /\ a.type = "PubComp" =>
                              a.id \notin recorded' /\ \A p \in Outbound' : p.id = a.id => p.type # "Publish"
      BY DEF OutAcks
    <2>1. CASE a \in Rg(toClient)
      <3>1. /\ \A p \in Outbound : p.id = a.id => got[p.msg] > 0
            /\ a.type = "PubComp" =>
                  a.id \notin recorded /\ \A p \in Outbound : p.id = a.id => p.type # "Publish"
        BY <2>1 DEF OutInv, OutAcks
      <3>2. \A p \in Outbound' : p.id = a.id => got'[p.msg] > 0
        BY <1>10, <1>15, <1>16, <3>1
      <3>3. a.type = "PubComp" => a.id \notin recorded'
        BY <1>4, <1>6, <1>14, <3>1
      <3> QED
        BY <1>3, <1>10, <3>1, <3>2, <3>3
    <2>2. CASE a.type # "PubComp" /\ a.id = h.id
      BY <1>3, <1>10, <1>15, <1>16, <2>2
    <2> QED
      BY <1>7, <2>1, <2>2
  <1>23. AtMostOnce'
    <2> SUFFICES ASSUME NEW m \in 1..Len(issued), issued[m].qos = 2 PROVE got'[m] <= 1
      BY <1>3 DEF AtMostOnce
    <2>1. got[m] <= 1 /\ m \in 1..MaxOut
      BY <1>1, SystemAssumption DEF OutInv, AtMostOnce
    <2> QED
      BY <1>12, <1>15, <2>1
  <1>24. AtLeastOnce'
    <2> SUFFICES ASSUME NEW m \in 1..Len(issued), issued[m].qos > 0, Current(m), ~Pending(m)
                 PROVE  got'[m] > 0
      BY <1>3 DEF AtLeastOnce, Current, Pending
    <2>1. got[m] > 0 /\ m \in 1..MaxOut
      BY <1>1, SystemAssumption DEF OutInv, AtLeastOnce
    <2> QED
      BY <1>15, <2>1
  <1> QED
    BY <1>17, <1>18, <1>19, <1>20, <1>21, <1>22, <1>23, <1>24 DEF OutInv

\* PUBREL: the broker forgets the identifier and says so.
LEMMA OutRelease == ASSUME SystemInv, OutInv, BrokerPubRel PROVE OutInv'
  <1>1. toBroker \in Seq(Packets) /\ toClient \in Seq(Packets)
    BY DEF SystemInv, ClientInv, ClientTypes
  <1>2. PICK h : h = Head(toBroker)
    OBVIOUS
  <1>3. /\ toBroker # <<>> /\ toBroker' = Tail(toBroker) /\ h.type = "PubRel"
        /\ recorded' = recorded \ {h.id} /\ toClient' = Append(toClient, Packet("PubComp", h.id, 0, 0))
        /\ UNCHANGED <<status, queue, issued, connects, accepted, got>>
    BY <1>2 DEF BrokerPubRel, BrokerReads, BrokerSays, clientVars, appVars
  <1>4. /\ h \in Packets /\ h \in Rg(toBroker) /\ Rg(toBroker') \subseteq Rg(toBroker)
        /\ Ordered(toBroker') /\ ConnectFirst(toBroker')
        /\ \A p \in Rg(toBroker') : p.type = "Publish" => p.id # h.id
    BY <1>1, <1>2, <1>3, TailFacts, OrderTail DEF OutInv, OutOrder
  <1>5. h \in Flying /\ h \in Outbound /\ h.id \in Nat
    BY <1>3, <1>4 DEF Flying, Outbound, Requests, Packets
  <1>6. \A a \in Rg(toClient') : a \in Rg(toClient) \/ a.id = h.id
    <2>1. PICK a : a = Packet("PubComp", h.id, 0, 0)
      OBVIOUS
    <2>2. a \in Packets /\ a.id = h.id
      <3>1. Packet("PubComp", h.id, 0, 0) \in Packets
        BY <1>5, AnswerPackets, Zenon
      <3> QED
        BY <2>1, <3>1 DEF Packet
    <2>3. Rg(toClient') = Rg(toClient) \cup {a}
      BY <1>1, <1>3, <2>1, <2>2, AppendFacts
    <2> QED
      BY <2>2, <2>3
  <1>7. Flying' \subseteq Flying
    BY <1>4 DEF Flying
  <1>8. Queued' = Queued /\ DistinctIds(queue') = DistinctIds(queue)
    BY <1>3 DEF Queued
  <1>9. Outbound' \subseteq Outbound
    BY <1>7, <1>8 DEF Outbound
  <1>10. \A p \in Outbound' : p.type = "Publish" => p.id # h.id
    <2>1. \A p \in Queued : p.type = "Publish" => p.id # h.id
      BY <1>3, <1>5 DEF OutInv, OutOrder
    <2> QED
      BY <1>4, <1>8, <2>1 DEF Outbound, Flying
  <1>11. accepted = connects /\ \A p \in Outbound : p.id = h.id => got[p.msg] > 0
    BY <1>3, <1>5 DEF OutInv, OutPhase, OutIds
  <1>12. OutNumbers'
    BY <1>3 DEF OutInv, OutNumbers
  <1>13. OutPackets' /\ OutIds'
    BY <1>3, <1>9 DEF OutInv, OutPackets, OutIds
  <1>14. OutPhase'
    BY <1>3, <1>9, <1>10 DEF OutInv, OutPhase
  <1>15. OutQueue'
    BY <1>3, <1>7, <1>8 DEF OutInv, OutQueue, HasEntry
  <1>16. OutOrder'
    BY <1>3, <1>4, <1>7, <1>8 DEF OutInv, OutOrder
  <1>17. OutAcks'
    BY <1>3, <1>6, <1>9, <1>10, <1>11 DEF OutInv, OutAcks
  <1>18. AtLeastOnce' /\ AtMostOnce'
    BY <1>3 DEF OutInv, AtLeastOnce, AtMostOnce, Current, Pending
  <1> QED
    BY <1>12, <1>13, <1>14, <1>15, <1>16, <1>17, <1>18 DEF OutInv

\* What Receiver does to the requests.
LEMMA OutReceiver ==
    ASSUME SystemInv, OutInv, Receiver, UNCHANGED <<brokerVars, appVars>> PROVE OutInv'
  <1>1. UNCHANGED <<issued, connects, accepted, got, recorded>>
    BY DEF brokerVars, appVars
  <1>2. toClient # <<>> => Head(toClient).id \in Nat
    BY HeadFacts DEF SystemInv
  <1>3. ASSUME NEW t \in {"PubAck", "PubRec", "PubComp"}, queue' = queue,
               Answers(Head(toClient), Packet(t, Head(toClient).id, 0, 0))
        PROVE  OutMoves
    <2>1. /\ toClient # <<>> /\ toClient' = Tail(toClient) /\ status' = status
          /\ toBroker' = Append(toBroker, Packet(t, Head(toClient).id, 0, 0))
      BY <1>3 DEF Answers, Stays
    <2>2. PICK p : p = Packet(t, Head(toClient).id, 0, 0)
      OBVIOUS
    <2>3. p \in Packets /\ p.type = t
      BY <1>2, <2>1, <2>2, AnswerPackets, Zenon
    <2>4. p.type \notin Requests \cup {"Connect"}
      BY <2>3 DEF Requests
    <2> QED
      BY <1>1, <1>3, <2>1, <2>2, <2>3, <2>4 DEF OutMoves
  <1>4. ASSUME DoPublish0 \/ DoOther PROVE OutMoves
    BY <1>1, <1>4 DEF DoPublish0, DoOther, Takes0, Stays, OutMoves
  <1>5. ASSUME DoPublish1 \/ DoPublish2 \/ DoPubRel PROVE OutMoves
    <2>1. PICK t \in {"PubAck", "PubRec", "PubComp"} :
              queue' = queue /\ Answers(Head(toClient), Packet(t, Head(toClient).id, 0, 0))
      <3>1. CASE DoPublish1
        BY <3>1, Zenon DEF DoPublish1
      <3>2. CASE DoPublish2
        BY <3>2, Zenon DEF DoPublish2
      <3>3. CASE DoPubRel
        BY <3>3, Zenon DEF DoPubRel
      <3> QED
        BY <1>5, <3>1, <3>2, <3>3
    <2> QED
      BY <1>3, <2>1
  <1>6. ASSUME Off PROVE OutInv'
    BY <1>1, <1>6, OutOff
  <1> QED
    BY <1>4, <1>5, <1>6, OutMovesStep, OutAck, OutPubRec, ReceiverFacts DEF SystemInv

\* What a broker that keeps to the protocol does to the requests.
LEMMA OutBroker ==
    ASSUME SystemInv, OutInv, Broker, ~Faulty, CleanSession PROVE OutInv'
  <1>1. status # "Disconnected" /\ UNCHANGED clientVars
    BY BrokerFacts DEF SystemInv, Channels
  <1>2. toBroker # <<>> => Head(toBroker).id \in Nat
    <2>1. toBroker \in Seq(Packets)
      BY DEF SystemInv, ClientInv, ClientTypes
    <2>2. toBroker # <<>> => Head(toBroker) \in Packets
      BY <2>1, TailFacts
    <2> QED
      BY <2>2 DEF Packets
  <1>3. ASSUME UNCHANGED <<issued, connects, accepted, got, recorded>>,
               toBroker' = toBroker \/ (toBroker # <<>> /\ toBroker' = Tail(toBroker)),
               toClient' = toClient \/ \E p \in Packets : p.type \notin Acks /\ toClient' = Append(toClient, p)
        PROVE  OutInv'
    <2>1. OutMoves
      BY <1>1, <1>3 DEF OutMoves, clientVars
    <2> QED
      BY <2>1, OutMovesStep
  <1>4. ASSUME NEW t \in {"ConnAck", "PingResp", "PubRel"}, NEW x \in Nat, NEW c \in Nat,
               BrokerSays(Packet(t, x, c, 0))
        PROVE  \E p \in Packets : p.type \notin Acks /\ toClient' = Append(toClient, p)
    <2>1. t \in Types /\ t \notin Acks
      BY DEF Types, Answering, Acks
    <2>2. PICK p : p = Packet(t, x, c, 0)
      OBVIOUS
    <2>3. p \in Packets /\ p.type = t
      BY <2>1, <2>2 DEF Packet, Packets
    <2> QED
      BY <1>4, <2>1, <2>2, <2>3 DEF BrokerSays
  <1>5. 0 \in Nat /\ 1 \in Nat
    OBVIOUS
  <1>6. ASSUME BrokerConnAck PROVE OutInv'
    <2>1. /\ toBroker # <<>> /\ toBroker' = Tail(toBroker) /\ Head(toBroker).type = "Connect"
          /\ UNCHANGED <<status, queue, issued, connects, got>>
      BY <1>6 DEF BrokerConnAck, BrokerReads, appVars, clientVars
    <2>2. PICK p \in Packets : p.type \notin Acks /\ toClient' = Append(toClient, p)
      <3>1. PICK c \in Nat : BrokerSays(Packet("ConnAck", 0, c, 0))
        BY <1>5, <1>6 DEF BrokerConnAck
      <3> QED
        BY <1>4, <1>5, <3>1
    <2>3. CASE UNCHANGED <<accepted, recorded>>
      BY <1>3, <2>1, <2>2, <2>3
    <2>4. CASE accepted' = connects /\ recorded' = {}
      BY <2>1, <2>2, <2>4, OutAccept
    <2> QED
      BY <1>6, <2>3, <2>4 DEF BrokerConnAck
  <1>7. ASSUME BrokerPingReq PROVE OutInv'
    <2>1. /\ toBroker # <<>> /\ toBroker' = Tail(toBroker)
          /\ UNCHANGED <<issued, connects, accepted, got, recorded>>
          /\ BrokerSays(Packet("PingResp", 0, 0, 0))
      BY <1>7 DEF BrokerPingReq, BrokerReads, appVars, brokerVars
    <2>2. \E p \in Packets : p.type \notin Acks /\ toClient' = Append(toClient, p)
      BY <1>4, <1>5, <2>1
    <2> QED
      BY <1>3, <2>1, <2>2
  <1>8. ASSUME BrokerAnswered PROVE OutInv'
    <2>1. /\ toBroker # <<>> /\ toBroker' = Tail(toBroker)
          /\ UNCHANGED <<issued, connects, accepted, got, recorded>>
          /\ toClient' = toClient \/ BrokerSays(Packet("PubRel", Head(toBroker).id, 0, 0))
      BY <1>8 DEF BrokerAnswered, BrokerReads, appVars
    <2>2. toClient' = toClient \/ \E p \in Packets : p.type \notin Acks /\ toClient' = Append(toClient, p)
      BY <1>2, <1>4, <1>5, <2>1
    <2> QED
      BY <1>3, <2>1, <2>2
  <1>9. ASSUME NEW m \in 1..MaxIn, BrokerPubRelAgain(m) PROVE OutInv'
    <2>1. /\ toBroker' = toBroker /\ UNCHANGED <<issued, connects, accepted, got, recorded>>
          /\ BrokerSays(Packet("PubRel", IdOf(m), 0, 0)) /\ IdOf(m) \in Nat
      BY <1>9, SystemAssumption, IdFacts DEF BrokerPubRelAgain, appVars
    <2>2. \E p \in Packets : p.type \notin Acks /\ toClient' = Append(toClient, p)
      BY <1>4, <1>5, <2>1
    <2> QED
      BY <1>3, <2>1, <2>2
  <1>10. ASSUME NEW m \in 1..MaxIn, NEW qos \in 0..2, BrokerPublish(m, qos) PROVE OutInv'
    <2>1. /\ toBroker' = toBroker /\ UNCHANGED <<issued, connects, accepted, got, recorded>>
          /\ BrokerSays(Packet("Publish", IdOf(m), qos, m)) /\ IdOf(m) \in Nat /\ m \in Nat
      BY <1>10, SystemAssumption, IdFacts DEF BrokerPublish, appVars
    <2>2. PICK p : p = Packet("Publish", IdOf(m), qos, m)
      OBVIOUS
    <2>3. PICK t, x : t = "Publish" /\ x = IdOf(m)
      OBVIOUS
    <2>4. t \in Types /\ t \notin Acks /\ x \in Nat
      BY <2>1, <2>3 DEF Types, Requests, Acks
    <2>5. p \in Packets /\ p.type = t
      <3>1. p = Packet(t, x, qos, m)
        BY <2>2, <2>3
      <3> QED
        BY <2>1, <2>4, <3>1 DEF Packet, Packets
    <2>6. \E q \in Packets : q.type \notin Acks /\ toClient' = Append(toClient, q)
      BY <2>1, <2>2, <2>4, <2>5 DEF BrokerSays
    <2> QED
      BY <1>3, <2>1, <2>6
  <1> QED
    BY <1>6, <1>7, <1>8, <1>9, <1>10, OutTake, OutRelease DEF Broker, BrokerMisbehaves, BrokerIgnores

\* Every step keeps what is known of the requests.
LEMMA OutStep ==
    ASSUME SystemInv, OutInv, [SystemNext]_sysVars, ~Faulty, CleanSession PROVE OutInv'
  <1>1. ASSUME Off, UNCHANGED <<brokerVars, appVars>> PROVE OutInv'
    BY <1>1, OutOff DEF brokerVars, appVars
  <1>2. ASSUME SenderStep PROVE OutInv'
    BY <1>1, <1>2, SenderFacts, OutResend, SystemStep DEF SenderStep, SystemInv, SystemNext, ClientStep
  <1>3. ASSUME KeepAliveStep PROVE OutInv'
    <2>1. CASE Off
      BY <1>1, <1>3, <2>1 DEF KeepAliveStep
    <2>2. CASE DoPing
      <3>1. PICK p : p = Packet("PingReq", 0, 0, 0)
        OBVIOUS
      <3>2. PICK t : t = "PingReq"
        OBVIOUS
      <3>3. t \in Types /\ t \notin Requests \cup {"Connect"}
        BY <3>2 DEF Types, Requests
      <3>4. p \in Packets /\ p.type = t
        <4>1. p = Packet(t, 0, 0, 0)
          BY <3>1, <3>2
        <4> QED
          BY <3>3, <4>1 DEF Packet, Packets
      <3>5. OutMoves
        BY <1>3, <2>2, <3>1, <3>3, <3>4 DEF KeepAliveStep, DoPing, OutMoves, brokerVars, appVars
      <3> QED
        BY <3>5, OutMovesStep
    <2> QED
      BY <1>3, <2>1, <2>2, KeepAliveFacts DEF KeepAliveStep, SystemInv
  <1>4. ASSUME PeerStep \/ AppDisconnect PROVE OutInv'
    BY <1>1, <1>4, DisconnectFacts DEF PeerStep, AppDisconnect, SystemInv
  <1>5. ASSUME TimeStep \/ AppConnectFails \/ UNCHANGED sysVars PROVE OutInv'
    <2>1. OutMoves
      BY <1>5 DEF TimeStep, AppConnectFails, Tick, ConnectFails, OutMoves, sysVars, vars, clientVars,
                  brokerVars, appVars
    <2> QED
      BY <2>1, OutMovesStep
  <1>6. ASSUME AppSubscribe \/ AppUnsubscribe \/ AppPublish PROVE OutInv'
    <2>1. PICK type \in {"Subscribe", "Unsubscribe", "Publish"}, qos \in 0..2 :
              (type # "Publish" => qos = 1) /\ Issue(type, qos)
      BY <1>6 DEF AppSubscribe, AppUnsubscribe, AppPublish
    <2>2. /\ Off \/ DoRequest(Packet(type, nextId, qos, Len(issued) + 1))
          /\ Len(issued) < MaxOut /\ IdentifierFree /\ UNCHANGED <<brokerVars, connects>>
          /\ issued' = Append(issued,
                 [qos |-> qos, conn |-> IF status' = "Disconnected" THEN 0 ELSE connects])
      BY <2>1, IssueFacts DEF SystemInv
    <2>3. CASE Off
      <3>1. issued' = Append(issued, [qos |-> qos, conn |-> 0])
        BY <2>2, <2>3 DEF Off, Down
      <3>2. UNCHANGED <<got, accepted, connects>>
        BY <2>2 DEF brokerVars
      <3> QED
        BY <2>2, <2>3, <3>1, <3>2, OutOff
    <2>4. CASE DoRequest(Packet(type, nextId, qos, Len(issued) + 1))
      BY <2>1, <2>2, <2>4, OutRequest
    <2> QED
      BY <2>2, <2>3, <2>4
  <1> QED
    BY <1>2, <1>3, <1>4, <1>5, <1>6, OutReceiver, OutBroker, OutConnect
       DEF SystemNext, ClientStep, ReceiverStep, App

\* At the start there are no requests.
LEMMA OutStart == ASSUME SystemInit PROVE OutInv
  <1>1. /\ queue = <<>> /\ toBroker = <<>> /\ toClient = <<>> /\ issued = <<>> /\ status = "Disconnected"
        /\ connects = 0 /\ accepted = 0 /\ \A m \in 1..MaxOut : got[m] = 0
    BY DEF SystemInit, Init
  <1>2. Len(queue) = 0 /\ Len(toBroker) = 0 /\ Len(toClient) = 0 /\ Len(issued) = 0
    BY <1>1
  <1>3. Queued = {} /\ Rg(toBroker) = {} /\ Rg(toClient) = {}
    BY <1>2 DEF Queued, PacketsOf, Rg
  <1>4. Flying = {} /\ Outbound = {}
    BY <1>3 DEF Flying, Outbound
  <1>5. OutNumbers
    BY <1>1, <1>2 DEF OutNumbers
  <1>6. OutPackets /\ OutIds /\ OutPhase
    BY <1>4 DEF OutPackets, OutIds, OutPhase
  <1>7. OutQueue
    BY <1>1, <1>2, <1>3, <1>4 DEF OutQueue, DistinctIds
  <1>8. OutOrder
    BY <1>2, <1>3, <1>4 DEF OutOrder, Ordered, ConnectFirst
  <1>9. OutAcks /\ AtLeastOnce /\ AtMostOnce
    BY <1>2, <1>3 DEF OutAcks, AtLeastOnce, AtMostOnce
  <1> QED
    BY <1>5, <1>6, <1>7, <1>8, <1>9 DEF OutInv

\* With clean sessions and a broker that keeps to the protocol, the client's
\* retransmission (mqttclient.cpp:553-638, 699-733) loses no request.
THEOREM OutInvariant ==
    ASSUME ~Faulty, CleanSession PROVE SystemSpec => []OutInv
  <1>1. SystemInit => OutInv
    BY OutStart
  <1>2. SystemInv /\ OutInv /\ [SystemNext]_sysVars => OutInv'
    BY OutStep
  <1> QED
    BY <1>1, <1>2, ClientInvariant, PTL DEF SystemSpec

\* A request with QoS 1 or 2 stays in the retransmission queue until the broker
\* has it, for every number of requests, resends, connections and identifiers.
THEOREM NoRequestLost ==
    ASSUME ~Faulty, CleanSession PROVE SystemSpec => []AtLeastOnce
  <1>1. OutInv => AtLeastOnce
    BY DEF OutInv
  <1> QED
    BY <1>1, OutInvariant, PTL

\* A message published with QoS 2 is taken at most once, however often PUBLISH
\* and PUBREL are sent (mqttclient.cpp:582-599, 712-730).
THEOREM PublishedAtMostOnce ==
    ASSUME ~Faulty, CleanSession PROVE SystemSpec => []AtMostOnce
  <1>1. OutInv => AtMostOnce
    BY DEF OutInv
  <1> QED
    BY <1>1, OutInvariant, PTL

------------------------------------------------------------------------------
(* The messages of the broker, with the same assumptions.                  *)

Replies == {"PubAck", "PubRec", "PubComp"}

\* The message is under way, or given to OnMessage.
Active(m) == out[m].state \in {"sent", "released"}
Got(m) == m \in Rg(received)

Kind(s, type) == {p \in Rg(s) : p.type = type}

\* What the phases of a message say, and that identifiers tell messages apart.
InStates ==
    \A m \in 1..MaxIn :
        /\ out[m].state = "released" => Got(m) /\ out[m].qos = 2
        /\ out[m].state = "new" => ~Got(m)
        /\ \A k \in 1..MaxIn : IdOf(m) = IdOf(k) /\ Active(m) /\ Active(k) => m = k

\* Messages and their answers belong to a connection that the broker accepted.
InOpen ==
    /\ \A p \in Rg(toClient) : p.type \in {"Publish", "PubRel"} => accepted = connects
    /\ \A a \in Rg(toBroker) : a.type \in Replies => accepted = connects

\* A PUBLISH under way: the store of identifiers tells whether it was delivered.
InPublish ==
    \A p \in Kind(toClient, "Publish") :
        /\ p.msg \in 1..MaxIn /\ p.id = IdOf(p.msg) /\ p.qos = out[p.msg].qos
        /\ out[p.msg].state # "new"
        /\ p.qos = 2 => Active(p.msg) /\ (Got(p.msg) <=> p.id \in store)
        /\ \A k \in 1..MaxIn : IdOf(k) = p.id /\ Active(k) => k = p.msg

\* The same for a PUBLISH that may be sent again; the store holds nothing else.
Sending2(m) == out[m].state = "sent" /\ out[m].qos = 2

InStore ==
    /\ status # "Disconnected" /\ accepted = connects =>
          \A m \in 1..MaxIn : Sending2(m) => (Got(m) <=> IdOf(m) \in store)
    /\ \A x \in store :
          accepted = connects /\ \E m \in 1..MaxIn : IdOf(m) = x /\ Active(m) /\ out[m].qos = 2

\* PUBREL is the last that the broker sends for a message.
InOrder ==
    /\ Ordered(toClient)
    /\ \A r \in Kind(toClient, "PubRel") : \A m \in 1..MaxIn : IdOf(m) = r.id => out[m].state # "sent"

\* What the client's answers say is so.
InReplies ==
    /\ \A a \in Kind(toBroker, "PubRec") : \A m \in 1..MaxIn :
          IdOf(m) = a.id /\ Active(m) => out[m].qos = 2 /\ Got(m)
    /\ \A a \in Kind(toBroker, "PubAck") : \A m \in 1..MaxIn :
          IdOf(m) = a.id /\ out[m].state = "sent" /\ out[m].qos = 1 => Got(m)
    /\ \A a \in Kind(toBroker, "PubComp") :
          /\ a.id \notin store
          /\ \A p \in Kind(toClient, "Publish") : p.id # a.id
          /\ \A m \in 1..MaxIn : IdOf(m) = a.id => out[m].state # "sent"

InInv ==
    /\ InStates /\ InOpen /\ InPublish /\ InStore /\ InOrder /\ InReplies
    /\ InboundOnce /\ InboundDelivered

\* A step that neither adds a PUBLISH, a PUBREL nor an answer to one.
InMoves ==
    /\ UNCHANGED <<out, received, store, connects, accepted>>
    /\ status' = "Disconnected" <=> status = "Disconnected"
    /\ \/ toBroker' = toBroker
       \/ toBroker # <<>> /\ toBroker' = Tail(toBroker)
       \/ \E p \in Packets : p.type \notin Replies /\ toBroker' = Append(toBroker, p)
    /\ \/ toClient' = toClient
       \/ toClient # <<>> /\ toClient' = Tail(toClient)
       \/ \E p \in Packets : p.type \notin {"Publish", "PubRel"} /\ toClient' = Append(toClient, p)

\* Such a step keeps the invariant: it speaks of all packets that are there.
LEMMA InMovesStep == ASSUME SystemInv, InInv, InMoves PROVE InInv'
  <1>1. toBroker \in Seq(Packets) /\ toClient \in Seq(Packets)
    BY DEF SystemInv, ClientInv, ClientTypes
  <1>2. /\ UNCHANGED <<out, received, store, connects, accepted>>
        /\ status' = "Disconnected" <=> status = "Disconnected"
    BY DEF InMoves
  <1>3. \A p \in Rg(toBroker') : p.type \in Replies => p \in Rg(toBroker)
    <2>1. CASE toBroker' = toBroker
      BY <2>1
    <2>2. CASE toBroker # <<>> /\ toBroker' = Tail(toBroker)
      BY <1>1, <2>2, TailFacts
    <2>3. CASE \E p \in Packets : p.type \notin Replies /\ toBroker' = Append(toBroker, p)
      BY <1>1, <2>3, AppendFacts
    <2> QED
      BY <2>1, <2>2, <2>3 DEF InMoves
  <1>4. /\ \A p \in Rg(toClient') : p.type \in {"Publish", "PubRel"} => p \in Rg(toClient)
        /\ Ordered(toClient) => Ordered(toClient')
    <2>1. CASE toClient' = toClient
      BY <2>1
    <2>2. CASE toClient # <<>> /\ toClient' = Tail(toClient)
      BY <1>1, <2>2, TailFacts, OrderTail
    <2>3. CASE \E p \in Packets : p.type \notin {"Publish", "PubRel"} /\ toClient' = Append(toClient, p)
      <3>1. PICK p \in Packets : p.type \notin {"Publish", "PubRel"} /\ toClient' = Append(toClient, p)
        BY <2>3
      <3>2. Rg(toClient') = Rg(toClient) \cup {p}
        BY <1>1, <3>1, AppendFacts
      <3>3. Ordered(toClient) => Ordered(toClient')
        BY <1>1, <3>1, OrderAppend
      <3> QED
        BY <3>1, <3>2, <3>3
    <2> QED
      BY <2>1, <2>2, <2>3 DEF InMoves
  <1>5. /\ Kind(toClient', "Publish") \subseteq Kind(toClient, "Publish")
        /\ Kind(toClient', "PubRel") \subseteq Kind(toClient, "PubRel")
    BY <1>4 DEF Kind
  <1>6. \A t \in Replies : Kind(toBroker', t) \subseteq Kind(toBroker, t)
    BY <1>3 DEF Kind
  <1>7. (\A m : Got(m)' <=> Got(m)) /\ (\A m : Active(m)' <=> Active(m)) /\ (\A m : Sending2(m)' <=> Sending2(m))
    BY <1>2 DEF Got, Active, Sending2
  <1>8. InStates'
    BY <1>2, <1>7 DEF InInv, InStates
  <1>9. InOpen'
    BY <1>2, <1>3, <1>4 DEF InInv, InOpen
  <1>10. InPublish'
    BY <1>2, <1>5, <1>7 DEF InInv, InPublish
  <1>11. InStore'
    BY <1>2, <1>7 DEF InInv, InStore
  <1>12. InOrder'
    BY <1>2, <1>4, <1>5 DEF InInv, InOrder
  <1>13. InReplies'
    BY <1>2, <1>5, <1>6, <1>7 DEF InInv, InReplies, Replies
  <1>14. InboundOnce' /\ InboundDelivered'
    BY <1>2 DEF InInv, InboundOnce, InboundDelivered, Delivered
  <1> QED
    BY <1>8, <1>9, <1>10, <1>11, <1>12, <1>13, <1>14 DEF InInv

\* With nothing under way and an empty store little remains to be said.
LEMMA InEmpty ==
    ASSUME InInv, UNCHANGED <<out, received>>, toClient' = <<>>, store' = {},
           \A p \in Rg(toBroker') : p.type \notin Replies,
           status' # "Disconnected" => accepted' # connects'
    PROVE  InInv'
  <1>1. Len(toClient') = 0
    OBVIOUS
  <1>2. Rg(toClient') = {} /\ Ordered(toClient')
    BY <1>1 DEF Rg, Ordered
  <1>3. \A t : Kind(toClient', t) = {}
    BY <1>2 DEF Kind
  <1>4. \A t \in Replies : Kind(toBroker', t) = {}
    BY DEF Kind
  <1>5. (\A m : Got(m)' <=> Got(m)) /\ (\A m : Active(m)' <=> Active(m))
    BY DEF Got, Active
  <1>6. InStates'
    BY <1>5 DEF InInv, InStates
  <1>7. InOpen' /\ InPublish' /\ InOrder'
    BY <1>2, <1>3 DEF InOpen, InPublish, InOrder
  <1>8. InStore'
    BY DEF InStore
  <1>9. InReplies'
    BY <1>4 DEF InReplies, Replies
  <1>10. InboundOnce' /\ InboundDelivered'
    BY DEF InInv, InboundOnce, InboundDelivered, Delivered
  <1> QED
    BY <1>6, <1>7, <1>8, <1>9, <1>10 DEF InInv

\* Closing, and a new connection.
LEMMA InOff == ASSUME SystemInv, InInv, Off, UNCHANGED brokerVars PROVE InInv'
  <1>1. /\ UNCHANGED <<out, received>> /\ toClient' = <<>> /\ store' = {} /\ toBroker' = <<>>
        /\ status' = "Disconnected"
    BY DEF Off, Down, brokerVars
  <1>2. Rg(toBroker') = {}
    BY <1>1 DEF Rg
  <1> QED
    BY <1>1, <1>2, InEmpty

\* A new connection starts with nothing under way and an empty store.
LEMMA InConnect == ASSUME SystemInv, OutInv, InInv, AppConnect PROVE InInv'
  <1>1. /\ toBroker' = <<Packet("Connect", 0, 0, 0)>> /\ connects' = connects + 1
        /\ UNCHANGED <<toClient, store, out, received, accepted>> /\ status = "Disconnected"
    BY DEF AppConnect, Connect, brokerVars
  <1>2. toClient' = <<>> /\ store' = {}
    BY <1>1 DEF SystemInv, ClientInv, SocketMatchesStatus
  <1>3. \A p \in Rg(toBroker') : p.type \notin Replies
    BY <1>1 DEF Rg, Packet, Replies
  <1>4. accepted' # connects'
    BY <1>1 DEF OutInv, OutNumbers, SystemInv, SystemTypes
  <1> QED
    BY <1>1, <1>2, <1>3, <1>4, InEmpty

\* Receiver takes the first packet.
LEMMA InTakes ==
    ASSUME SystemInv, InInv, toClient # <<>>, toClient' = Tail(toClient), NEW h, h = Head(toClient)
    PROVE  /\ h \in Packets /\ h \in Rg(toClient) /\ Rg(toClient') \subseteq Rg(toClient)
           /\ Ordered(toClient') /\ \A t : Kind(toClient', t) \subseteq Kind(toClient, t)
           /\ h.type = "PubRel" => \A p \in Kind(toClient', "Publish") : p.id # h.id
  <1>1. toClient \in Seq(Packets)
    BY DEF SystemInv, ClientInv, ClientTypes
  <1>2. /\ h \in Packets /\ h \in Rg(toClient) /\ Rg(toClient') \subseteq Rg(toClient)
        /\ Ordered(toClient')
        /\ h.type = "PubRel" => \A p \in Rg(toClient') : p.type = "Publish" => p.id # h.id
    BY <1>1, TailFacts, OrderTail DEF InInv, InOrder
  <1> QED
    BY <1>2 DEF Kind

\* A message is given to OnMessage that is not of QoS 2 or was not given before.
LEMMA DeliverFacts ==
    ASSUME SystemInv, InInv, NEW k \in 1..MaxIn, received' = Append(received, k), UNCHANGED out,
           out[k].qos = 2 => ~Got(k)
    PROVE  /\ \A m : Got(m)' <=> Got(m) \/ m = k
           /\ InboundOnce' /\ InboundDelivered'
  <1>1. received \in Seq(Nat) /\ k \in Nat
    BY SystemAssumption DEF SystemInv, ClientInv, ClientTypes
  <1>2. /\ Len(received') = Len(received) + 1 /\ Len(received) \in Nat
        /\ \A i \in 1..Len(received) : received'[i] = received[i]
        /\ received'[Len(received) + 1] = k
        /\ Rg(received') = Rg(received) \cup {k}
    BY <1>1, AppendFacts, LenProperties
  <1>3. \A m : Got(m)' <=> Got(m) \/ m = k
    BY <1>2 DEF Got
  <1>4. \A i \in 1..Len(received') : i \in 1..Len(received) \/ (i = Len(received) + 1 /\ received'[i] = k)
    BY <1>2
  <1>5. \A i \in 1..Len(received) : Got(received[i])
    BY DEF Got, Rg
  <1>6. InboundOnce'
    <2> SUFFICES ASSUME NEW m \in 1..MaxIn, out[m].qos = 2,
                        NEW i \in 1..Len(received'), NEW j \in 1..Len(received'),
                        received'[i] = m, received'[j] = m
                 PROVE  i = j
      BY DEF InboundOnce
    <2>1. CASE m = k
      <3>1. ~Got(m)
        BY <2>1
      <3>2. i \notin 1..Len(received) /\ j \notin 1..Len(received)
        BY <1>2, <1>5, <3>1
      <3> QED
        BY <1>4, <3>2
    <2>2. CASE m # k
      <3>1. i \in 1..Len(received) /\ j \in 1..Len(received)
        BY <1>4, <2>2
      <3> QED
        BY <1>2, <3>1 DEF InInv, InboundOnce
    <2> QED
      BY <2>1, <2>2
  <1>7. InboundDelivered'
    <2>1. \A i \in 1..Len(received) : i \in 1..Len(received') /\ received'[i] = received[i]
      BY <1>2
    <2> QED
      BY <2>1 DEF InInv, InboundDelivered, Delivered
  <1> QED
    BY <1>3, <1>6, <1>7

\* A message with QoS 0 or 1.
LEMMA InDeliver ==
    ASSUME SystemInv, InInv, NEW h, h = Head(toClient), toClient # <<>>, toClient' = Tail(toClient),
           h.type = "Publish", h.qos # 2, received' = Append(received, h.msg),
           UNCHANGED <<out, store, connects, accepted, status>>,
           \/ toBroker' = toBroker
           \/ \E a \in Packets : a.type = "PubAck" /\ a.id = h.id /\ toBroker' = Append(toBroker, a)
    PROVE  InInv'
  <1>1. /\ h \in Rg(toClient) /\ Rg(toClient') \subseteq Rg(toClient)
        /\ Ordered(toClient') /\ \A t : Kind(toClient', t) \subseteq Kind(toClient, t)
    BY InTakes
  <1>2. h \in Kind(toClient, "Publish")
    BY <1>1 DEF Kind
  <1>3. PICK k : k = h.msg
    OBVIOUS
  <1>4. /\ k \in 1..MaxIn /\ h.id = IdOf(k) /\ h.qos = out[k].qos /\ out[k].state # "new"
        /\ \A m \in 1..MaxIn : IdOf(m) = h.id /\ Active(m) => m = k
        /\ accepted = connects
    BY <1>1, <1>2, <1>3 DEF InInv, InPublish, InOpen
  <1>5. /\ \A m : Got(m)' <=> Got(m) \/ m = k
        /\ InboundOnce' /\ InboundDelivered'
    BY <1>3, <1>4, DeliverFacts
  <1>6. (\A m : Active(m)' <=> Active(m)) /\ (\A m : Sending2(m)' <=> Sending2(m))
    BY DEF Active, Sending2
  <1>7. \A a \in Rg(toBroker') : a \in Rg(toBroker) \/ (a.type = "PubAck" /\ a.id = h.id)
    <2>1. toBroker \in Seq(Packets)
      BY DEF SystemInv, ClientInv, ClientTypes
    <2>2. CASE toBroker' = toBroker
      BY <2>2
    <2>3. CASE \E a \in Packets : a.type = "PubAck" /\ a.id = h.id /\ toBroker' = Append(toBroker, a)
      BY <2>1, <2>3, AppendFacts
    <2> QED
      BY <2>2, <2>3
  <1>8. InStates'
    BY <1>4, <1>5, <1>6 DEF InInv, InStates
  <1>9. InOpen'
    BY <1>1, <1>4 DEF InInv, InOpen
  <1>10. InPublish'
    <2>1. \A p \in Kind(toClient, "Publish") : p.qos = 2 => p.msg # k
      BY <1>4 DEF InInv, InPublish
    <2> QED
      BY <1>1, <1>5, <1>6, <2>1 DEF InInv, InPublish
  <1>11. InStore'
    <2>1. ~Sending2(k)
      BY <1>4 DEF Sending2
    <2> QED
      BY <1>5, <1>6, <2>1 DEF InInv, InStore
  <1>12. InOrder'
    BY <1>1 DEF InInv, InOrder
  <1>13. InReplies'
    <2>1. Kind(toBroker', "PubRec") \subseteq Kind(toBroker, "PubRec") /\ Kind(toBroker', "PubComp") \subseteq Kind(toBroker, "PubComp")
      BY <1>7 DEF Kind
    <2>2. \A a \in Kind(toBroker', "PubAck") : a \in Kind(toBroker, "PubAck") \/ a.id = h.id
      BY <1>7 DEF Kind
    <2>3. \A m \in 1..MaxIn : IdOf(m) = h.id /\ out[m].state = "sent" => m = k
      BY <1>4 DEF Active
    <2>4. \A a \in Kind(toBroker', "PubRec") : \A m \in 1..MaxIn :
              IdOf(m) = a.id /\ Active(m)' => out'[m].qos = 2 /\ Got(m)'
      BY <1>5, <1>6, <2>1 DEF InInv, InReplies
    <2>5. \A a \in Kind(toBroker', "PubAck") : \A m \in 1..MaxIn :
              IdOf(m) = a.id /\ out'[m].state = "sent" /\ out'[m].qos = 1 => Got(m)'
      BY <1>5, <2>2, <2>3 DEF InInv, InReplies
    <2>6. \A a \in Kind(toBroker', "PubComp") :
              /\ a.id \notin store'
              /\ \A p \in Kind(toClient', "Publish") : p.id # a.id
              /\ \A m \in 1..MaxIn : IdOf(m) = a.id => out'[m].state # "sent"
      BY <1>1, <2>1 DEF InInv, InReplies
    <2> QED
      BY <2>4, <2>5, <2>6 DEF InReplies
  <1> QED
    BY <1>5, <1>8, <1>9, <1>10, <1>11, <1>12, <1>13 DEF InInv

\* A message with QoS 2: the store keeps it from being delivered again.
LEMMA InDeliver2 ==
    ASSUME SystemInv, InInv, NEW h, h = Head(toClient), toClient # <<>>, toClient' = Tail(toClient),
           h.type = "Publish", h.qos = 2,
           received' = IF h.id \in store THEN received ELSE Append(received, h.msg),
           store' = store \cup {h.id}, UNCHANGED <<out, connects, accepted, status>>,
           NEW b \in Packets, b.type = "PubRec", b.id = h.id, toBroker' = Append(toBroker, b)
    PROVE  InInv'
  <1>1. /\ h \in Rg(toClient) /\ Rg(toClient') \subseteq Rg(toClient)
        /\ Ordered(toClient') /\ \A t : Kind(toClient', t) \subseteq Kind(toClient, t)
    BY InTakes
  <1>2. h \in Kind(toClient, "Publish")
    BY <1>1 DEF Kind
  <1>3. PICK k : k = h.msg
    OBVIOUS
  <1>4. /\ k \in 1..MaxIn /\ h.id = IdOf(k) /\ out[k].qos = 2 /\ out[k].state # "new"
        /\ Active(k) /\ (Got(k) <=> h.id \in store)
        /\ \A m \in 1..MaxIn : IdOf(m) = h.id /\ Active(m) => m = k
        /\ accepted = connects
    BY <1>1, <1>2, <1>3 DEF InInv, InPublish, InOpen
  <1>5. /\ \A m : Got(m)' <=> Got(m) \/ m = k
        /\ InboundOnce' /\ InboundDelivered'
    <2>1. CASE h.id \in store
      <3>1. received' = received /\ Got(k)
        BY <1>4, <2>1
      <3> QED
        BY <3>1 DEF Got, InInv, InboundOnce, InboundDelivered, Delivered
    <2>2. CASE h.id \notin store
      BY <1>3, <1>4, <2>2, DeliverFacts
    <2> QED
      BY <2>1, <2>2
  <1>6. (\A m : Active(m)' <=> Active(m)) /\ (\A m : Sending2(m)' <=> Sending2(m))
    BY DEF Active, Sending2
  <1>7. Rg(toBroker') = Rg(toBroker) \cup {b}
    <2>1. toBroker \in Seq(Packets)
      BY DEF SystemInv, ClientInv, ClientTypes
    <2> QED
      BY <2>1, AppendFacts
  <1>8. InStates'
    BY <1>4, <1>5, <1>6 DEF InInv, InStates
  <1>9. InOpen'
    BY <1>1, <1>4 DEF InInv, InOpen
  <1>10. InPublish'
    <2> SUFFICES ASSUME NEW p \in Kind(toClient, "Publish")
                 PROVE  /\ p.msg \in 1..MaxIn /\ p.id = IdOf(p.msg) /\ p.qos = out[p.msg].qos
                        /\ out[p.msg].state # "new"
                        /\ p.qos = 2 => Active(p.msg) /\ (Got(p.msg) \/ p.msg = k <=> p.id \in store')
                        /\ \A m \in 1..MaxIn : IdOf(m) = p.id /\ Active(m) => m = p.msg
      BY <1>1, <1>5, <1>6 DEF InPublish
    <2>1. /\ p.msg \in 1..MaxIn /\ p.id = IdOf(p.msg) /\ p.qos = out[p.msg].qos
          /\ out[p.msg].state # "new"
          /\ p.qos = 2 => Active(p.msg) /\ (Got(p.msg) <=> p.id \in store)
          /\ \A m \in 1..MaxIn : IdOf(m) = p.id /\ Active(m) => m = p.msg
      BY DEF InInv, InPublish
    <2>2. p.qos = 2 => (p.id = h.id <=> p.msg = k)
      BY <1>4, <2>1
    <2> QED
      BY <2>1, <2>2
  <1>11. InStore'
    <2>1. \A m \in 1..MaxIn : Sending2(m) => Active(m)
      BY DEF Sending2, Active
    <2>2. \A m \in 1..MaxIn : Sending2(m) => (IdOf(m) = h.id <=> m = k)
      BY <1>4, <2>1
    <2>3. status' # "Disconnected" /\ accepted' = connects' =>
              \A m \in 1..MaxIn : Sending2(m)' => (Got(m)' <=> IdOf(m) \in store')
      BY <1>5, <1>6, <2>2 DEF InInv, InStore
    <2>4. \A x \in store' : accepted' = connects' /\ \E m \in 1..MaxIn : IdOf(m) = x /\ Active(m)' /\ out'[m].qos = 2
      BY <1>4, <1>6 DEF InInv, InStore
    <2> QED
      BY <2>3, <2>4 DEF InStore
  <1>12. InOrder'
    BY <1>1 DEF InInv, InOrder
  <1>13. InReplies'
    <2>1. Kind(toBroker', "PubAck") \subseteq Kind(toBroker, "PubAck") /\ Kind(toBroker', "PubComp") \subseteq Kind(toBroker, "PubComp")
      BY <1>7 DEF Kind
    <2>2. \A a \in Kind(toBroker', "PubRec") : a \in Kind(toBroker, "PubRec") \/ a.id = h.id
      BY <1>7 DEF Kind
    <2>3. \A a \in Kind(toBroker', "PubRec") : \A m \in 1..MaxIn :
              IdOf(m) = a.id /\ Active(m)' => out'[m].qos = 2 /\ Got(m)'
      BY <1>4, <1>5, <1>6, <2>2 DEF InInv, InReplies
    <2>4. \A a \in Kind(toBroker', "PubAck") : \A m \in 1..MaxIn :
              IdOf(m) = a.id /\ out'[m].state = "sent" /\ out'[m].qos = 1 => Got(m)'
      BY <1>5, <2>1 DEF InInv, InReplies
    <2>5. \A a \in Kind(toBroker', "PubComp") :
              /\ a.id \notin store'
              /\ \A p \in Kind(toClient', "Publish") : p.id # a.id
              /\ \A m \in 1..MaxIn : IdOf(m) = a.id => out'[m].state # "sent"
      BY <1>1, <1>2, <2>1 DEF InInv, InReplies
    <2> QED
      BY <2>3, <2>4, <2>5 DEF InReplies
  <1> QED
    BY <1>5, <1>8, <1>9, <1>10, <1>11, <1>12, <1>13 DEF InInv

\* PUBREL: the identifier can be used again.
LEMMA InForget ==
    ASSUME SystemInv, InInv, NEW h, h = Head(toClient), toClient # <<>>, toClient' = Tail(toClient),
           h.type = "PubRel", store' = store \ {h.id}, UNCHANGED <<out, received, connects, accepted, status>>,
           NEW b \in Packets, b.type = "PubComp", b.id = h.id, toBroker' = Append(toBroker, b)
    PROVE  InInv'
  <1>1. /\ h \in Rg(toClient) /\ Rg(toClient') \subseteq Rg(toClient)
        /\ Ordered(toClient') /\ \A t : Kind(toClient', t) \subseteq Kind(toClient, t)
        /\ \A p \in Kind(toClient', "Publish") : p.id # h.id
    BY InTakes
  <1>2. h \in Kind(toClient, "PubRel")
    BY <1>1 DEF Kind
  <1>3. accepted = connects /\ \A m \in 1..MaxIn : IdOf(m) = h.id => out[m].state # "sent"
    BY <1>1, <1>2 DEF InInv, InOrder, InOpen
  <1>4. (\A m : Got(m)' <=> Got(m)) /\ (\A m : Active(m)' <=> Active(m)) /\ (\A m : Sending2(m)' <=> Sending2(m))
    BY DEF Got, Active, Sending2
  <1>5. Rg(toBroker') = Rg(toBroker) \cup {b}
    <2>1. toBroker \in Seq(Packets)
      BY DEF SystemInv, ClientInv, ClientTypes
    <2> QED
      BY <2>1, AppendFacts
  <1>6. InStates'
    BY <1>4 DEF InInv, InStates
  <1>7. InOpen'
    BY <1>1, <1>3 DEF InInv, InOpen
  <1>8. InPublish'
    BY <1>1, <1>4 DEF InInv, InPublish
  <1>9. InStore'
    <2>1. \A m \in 1..MaxIn : Sending2(m) => IdOf(m) # h.id
      BY <1>3 DEF Sending2
    <2> QED
      BY <1>4, <2>1 DEF InInv, InStore
  <1>10. InOrder'
    BY <1>1 DEF InInv, InOrder
  <1>11. InReplies'
    <2>1. Kind(toBroker', "PubAck") \subseteq Kind(toBroker, "PubAck") /\ Kind(toBroker', "PubRec") \subseteq Kind(toBroker, "PubRec")
      BY <1>5 DEF Kind
    <2>2. \A a \in Kind(toBroker', "PubComp") : a \in Kind(toBroker, "PubComp") \/ a.id = h.id
      BY <1>5 DEF Kind
    <2>3. \A a \in Kind(toBroker', "PubComp") :
              /\ a.id \notin store'
              /\ \A p \in Kind(toClient', "Publish") : p.id # a.id
              /\ \A m \in 1..MaxIn : IdOf(m) = a.id => out'[m].state # "sent"
      BY <1>1, <1>3, <2>2 DEF InInv, InReplies
    <2> QED
      BY <1>4, <2>1, <2>3 DEF InInv, InReplies
  <1>12. InboundOnce' /\ InboundDelivered'
    BY DEF InInv, InboundOnce, InboundDelivered, Delivered
  <1> QED
    BY <1>6, <1>7, <1>8, <1>9, <1>10, <1>11, <1>12 DEF InInv

\* The broker accepts a clean session and gives up what it had under way.
LEMMA InAccept ==
    ASSUME SystemInv, OutInv, InInv, toBroker # <<>>, Head(toBroker).type = "Connect",
           toBroker' = Tail(toBroker), UNCHANGED <<status, store, received, connects>>,
           accepted' = connects,
           NEW p \in Packets, p.type \notin {"Publish", "PubRel"}, toClient' = Append(toClient, p),
           \A m \in 1..MaxIn :
               /\ out'[m].qos = out[m].qos
               /\ out'[m].state = IF Active(m) THEN "dropped" ELSE out[m].state
    PROVE  InInv'
  <1>1. toBroker \in Seq(Packets) /\ toClient \in Seq(Packets) /\ connects \in Nat /\ accepted \in Nat
    BY DEF SystemInv, ClientInv, ClientTypes, SystemTypes
  <1>2. Rg(toBroker') \subseteq Rg(toBroker) /\ Head(toBroker) \in Rg(toBroker)
    BY <1>1, TailFacts
  <1>3. accepted # connects
    BY <1>1, <1>2 DEF OutInv, OutOrder
  <1>4. Rg(toClient') = Rg(toClient) \cup {p} /\ Ordered(toClient')
    BY <1>1, AppendFacts, OrderAppend DEF InInv, InOrder
  <1>5. \A q \in Rg(toClient') : q.type \notin {"Publish", "PubRel"}
    BY <1>3, <1>4 DEF InInv, InOpen
  <1>6. \A a \in Rg(toBroker') : a.type \notin Replies
    BY <1>2, <1>3 DEF InInv, InOpen
  <1>7. store' = {}
    BY <1>3 DEF InInv, InStore
  <1>8. \A m \in 1..MaxIn : ~Active(m)' /\ ~Sending2(m)'
    BY DEF Active, Sending2
  <1>9. \A m : Got(m)' <=> Got(m)
    BY DEF Got
  <1>10. \A m \in 1..MaxIn : out'[m].state # "released" /\ (out'[m].state = "new" => out[m].state = "new")
    BY DEF Active
  <1>11. InStates'
    BY <1>8, <1>9, <1>10 DEF InInv, InStates
  <1>12. InOpen' /\ InPublish' /\ InOrder'
    BY <1>4, <1>5, <1>6 DEF InOpen, InPublish, InOrder, Kind
  <1>13. InStore'
    BY <1>7, <1>8 DEF InStore
  <1>14. InReplies'
    BY <1>6 DEF InReplies, Kind, Replies
  <1>15. InboundOnce'
    BY DEF InInv, InboundOnce
  <1>16. InboundDelivered'
    BY DEF InInv, InboundDelivered, Delivered, Active
  <1> QED
    BY <1>11, <1>12, <1>13, <1>14, <1>15, <1>16 DEF InInv

\* The broker sends PUBREL: the messages x stands for are released.
LEMMA InRelease ==
    ASSUME SystemInv, InInv, accepted = connects, UNCHANGED <<status, store, received, connects, accepted>>,
           Rg(toBroker') \subseteq Rg(toBroker),
           NEW x \in Nat, NEW p \in Packets, p.type = "PubRel", p.id = x, toClient' = Append(toClient, p),
           \A m \in 1..MaxIn :
               /\ out'[m].qos = out[m].qos
               /\ \/ out'[m].state = out[m].state
                  \/ out[m].state = "sent" /\ out'[m].state = "released" /\ Got(m) /\ out[m].qos = 2
               /\ IdOf(m) = x => out'[m].state # "sent"
    PROVE  InInv'
  <1>1. toClient \in Seq(Packets)
    BY DEF SystemInv, ClientInv, ClientTypes
  <1>2. Rg(toClient') = Rg(toClient) \cup {p} /\ Ordered(toClient')
    BY <1>1, AppendFacts, OrderAppend DEF InInv, InOrder
  <1>3. /\ Kind(toClient', "Publish") \subseteq Kind(toClient, "Publish")
        /\ \A r \in Kind(toClient', "PubRel") : r \in Kind(toClient, "PubRel") \/ r.id = x
        /\ \A t : Kind(toBroker', t) \subseteq Kind(toBroker, t)
    BY <1>2 DEF Kind
  <1>4. \A m : Got(m)' <=> Got(m)
    BY DEF Got
  <1>5. \A m \in 1..MaxIn : (Active(m)' <=> Active(m)) /\ (Sending2(m)' => Sending2(m))
    BY DEF Active, Sending2
  <1>6. InStates'
    BY <1>4, <1>5 DEF InInv, InStates
  <1>7. InOpen'
    BY <1>2 DEF InInv, InOpen
  <1>8. InPublish'
    BY <1>3, <1>4, <1>5 DEF InInv, InPublish
  <1>9. InStore'
    BY <1>4, <1>5 DEF InInv, InStore
  <1>10. InOrder'
    BY <1>2, <1>3 DEF InInv, InOrder
  <1>11. InReplies'
    BY <1>3, <1>4, <1>5 DEF InInv, InReplies
  <1>12. InboundOnce'
    BY DEF InInv, InboundOnce
  <1>13. InboundDelivered'
    BY DEF InInv, InboundDelivered, Delivered
  <1> QED
    BY <1>6, <1>7, <1>8, <1>9, <1>10, <1>11, <1>12, <1>13 DEF InInv

\* The last answer to a message.
LEMMA InFinish ==
    ASSUME SystemInv, InInv, UNCHANGED <<status, store, received, connects, accepted, toClient>>,
           Rg(toBroker') \subseteq Rg(toBroker), NEW x \in Nat,
           \A m \in 1..MaxIn :
               /\ out'[m].qos = out[m].qos
               /\ \/ out'[m].state = out[m].state
                  \/ IdOf(m) = x /\ Got(m) /\ out'[m].state = "done" /\ Active(m)
                     /\ (out[m].qos = 2 => x \notin store /\ \A p \in Kind(toClient, "Publish") : p.id # x)
    PROVE  InInv'
  <1>1. \A t : Kind(toBroker', t) \subseteq Kind(toBroker, t)
    BY DEF Kind
  <1>2. \A m : Got(m)' <=> Got(m)
    BY DEF Got
  <1>3. \A m \in 1..MaxIn : (Active(m)' => Active(m)) /\ (Sending2(m)' => Sending2(m))
    BY DEF Active, Sending2
  <1>4. \A m \in 1..MaxIn : Active(m) /\ out[m].qos = 2 /\ ~Active(m)' =>
            IdOf(m) = x /\ x \notin store /\ \A p \in Kind(toClient, "Publish") : p.id # x
    BY DEF Active
  <1>5. InStates'
    BY <1>2, <1>3 DEF InInv, InStates
  <1>6. InOpen'
    BY DEF InInv, InOpen
  <1>7. InPublish'
    <2> SUFFICES ASSUME NEW p \in Kind(toClient, "Publish")
                 PROVE  /\ p.msg \in 1..MaxIn /\ p.id = IdOf(p.msg) /\ p.qos = out'[p.msg].qos
                        /\ out'[p.msg].state # "new"
                        /\ p.qos = 2 => Active(p.msg)' /\ (Got(p.msg) <=> p.id \in store)
                        /\ \A k \in 1..MaxIn : IdOf(k) = p.id /\ Active(k)' => k = p.msg
      BY <1>2 DEF InPublish
    <2>1. /\ p.msg \in 1..MaxIn /\ p.id = IdOf(p.msg) /\ p.qos = out[p.msg].qos
          /\ out[p.msg].state # "new"
          /\ p.qos = 2 => Active(p.msg) /\ (Got(p.msg) <=> p.id \in store)
          /\ \A k \in 1..MaxIn : IdOf(k) = p.id /\ Active(k) => k = p.msg
      BY DEF InInv, InPublish
    <2> QED
      BY <1>3, <1>4, <2>1
  <1>8. InStore'
    <2>1. \A y \in store' : accepted' = connects' /\ \E m \in 1..MaxIn : IdOf(m) = y /\ Active(m)' /\ out'[m].qos = 2
      BY <1>4 DEF InInv, InStore
    <2> QED
      BY <1>2, <1>3, <2>1 DEF InInv, InStore
  <1>9. InOrder'
    BY DEF InInv, InOrder
  <1>10. InReplies'
    BY <1>1, <1>2, <1>3 DEF InInv, InReplies
  <1>11. InboundOnce'
    BY DEF InInv, InboundOnce
  <1>12. InboundDelivered'
    BY DEF InInv, InboundDelivered, Delivered, Got, Rg
  <1> QED
    BY <1>5, <1>6, <1>7, <1>8, <1>9, <1>10, <1>11, <1>12 DEF InInv

\* The broker sends a message, for the first time or again.
LEMMA InSend ==
    ASSUME SystemInv, InInv, NEW m \in 1..MaxIn, NEW qos \in 0..2, BrokerPublish(m, qos)
    PROVE  InInv'
  <1>1. /\ accepted = connects /\ status # "Disconnected"
        /\ UNCHANGED <<status, store, received, connects, accepted, toBroker>>
        /\ \A k \in 1..MaxIn : k # m /\ IdOf(k) = IdOf(m) => ~Active(k)
    BY DEF BrokerPublish, BrokerOpen, clientVars, appVars, Active
  <1>2. /\ out'[m].state = IF qos = 0 THEN "done" ELSE "sent"
        /\ out'[m].qos = qos
        /\ \A k \in 1..MaxIn : k # m => out'[k] = out[k]
    BY DEF BrokerPublish, SystemInv, SystemTypes
  <1>3. IdOf(m) \in Nat /\ m \in Nat
    BY SystemAssumption, IdFacts
  <1>4. PICK i : i = IdOf(m)
    OBVIOUS
  <1>5. PICK p : p = Packet("Publish", IdOf(m), qos, m)
    OBVIOUS
  <1>6. /\ p \in Packets /\ p.type = "Publish" /\ p.id = i /\ p.qos = qos /\ p.msg = m
        /\ toClient' = Append(toClient, p)
    <2>1. PICK t : t = "Publish"
      OBVIOUS
    <2>2. t \in Types
      BY <2>1 DEF Types, Requests
    <2>3. p = Packet(t, i, qos, m) /\ i \in Nat /\ qos \in Nat
      BY <1>3, <1>4, <1>5, <2>1
    <2>4. p \in Packets /\ p.type = t /\ p.id = i /\ p.qos = qos /\ p.msg = m
      BY <1>3, <2>2, <2>3 DEF Packet, Packets
    <2> QED
      BY <1>5, <2>1, <2>4 DEF BrokerPublish, BrokerSays
  <1>7. toClient \in Seq(Packets) /\ toBroker \in Seq(Packets)
    BY DEF SystemInv, ClientInv, ClientTypes
  <1>8. /\ out[m].state \in {"new", "sent"}
        /\ out[m].state = "sent" => out[m].qos = qos
        /\ out[m].state = "new" =>
              (\A q \in Rg(toBroker) : q.id # i) /\ (\A q \in Rg(toClient) : q.id # i)
    BY <1>4 DEF BrokerPublish, NotUnderWay, Rg
  <1>9. \A r \in Kind(toClient, "PubRel") : r.id # i
    BY <1>4, <1>8 DEF InInv, InOrder, Kind
  <1>10. \A a \in Kind(toBroker, "PubComp") : a.id # i
    BY <1>4, <1>8 DEF InInv, InReplies, Kind
  <1>11. Rg(toClient') = Rg(toClient) \cup {p} /\ Ordered(toClient')
    BY <1>6, <1>7, <1>9, AppendFacts, OrderAppend DEF InInv, InOrder, Kind
  <1>12. /\ \A q \in Kind(toClient', "Publish") : q \in Kind(toClient, "Publish") \/ q = p
         /\ Kind(toClient', "PubRel") \subseteq Kind(toClient, "PubRel")
    BY <1>6, <1>11 DEF Kind
  <1>13. \A k : Got(k)' <=> Got(k)
    BY <1>1 DEF Got
  <1>14. /\ \A k \in 1..MaxIn : k # m => (Active(k)' <=> Active(k)) /\ (Sending2(k)' <=> Sending2(k))
         /\ Active(m)' <=> qos # 0
         /\ Active(m) <=> out[m].state = "sent"
         /\ Sending2(m)' <=> qos = 2
    BY <1>2, <1>8 DEF Active, Sending2
  <1>15. qos = 2 => (Got(m) <=> i \in store)
    <2>1. CASE out[m].state = "new"
      <3>1. ~Got(m) /\ ~Active(m)
        BY <1>14, <2>1 DEF InInv, InStates
      <3>2. i \notin store
        BY <1>1, <1>4, <3>1 DEF InInv, InStore
      <3> QED
        BY <3>1, <3>2
    <2>2. CASE out[m].state = "sent"
      <3>1. qos = 2 => Sending2(m)
        BY <1>8, <2>2 DEF Sending2
      <3> QED
        BY <1>1, <1>4, <3>1 DEF InInv, InStore
    <2> QED
      BY <1>8, <2>1, <2>2
  <1>16. InStates'
    BY <1>1, <1>2, <1>13, <1>14 DEF InInv, InStates
  <1>17. InOpen'
    BY <1>1 DEF InInv, InOpen
  <1>18. InPublish'
    <2> SUFFICES ASSUME NEW q \in Kind(toClient', "Publish")
                 PROVE  /\ q.msg \in 1..MaxIn /\ q.id = IdOf(q.msg) /\ q.qos = out'[q.msg].qos
                        /\ out'[q.msg].state # "new"
                        /\ q.qos = 2 => Active(q.msg)' /\ (Got(q.msg) <=> q.id \in store)
                        /\ \A k \in 1..MaxIn : IdOf(k) = q.id /\ Active(k)' => k = q.msg
      BY <1>1, <1>13 DEF InPublish
    <2>1. CASE q = p
      BY <1>1, <1>2, <1>4, <1>6, <1>14, <1>15, <2>1
    <2>2. CASE q \in Kind(toClient, "Publish")
      <3>1. /\ q.msg \in 1..MaxIn /\ q.id = IdOf(q.msg) /\ q.qos = out[q.msg].qos
            /\ out[q.msg].state # "new"
            /\ q.qos = 2 => Active(q.msg) /\ (Got(q.msg) <=> q.id \in store)
            /\ \A k \in 1..MaxIn : IdOf(k) = q.id /\ Active(k) => k = q.msg
        BY <2>2 DEF InInv, InPublish
      <3>2. q.id = i => Active(m)
        BY <1>8, <1>14, <2>2 DEF Kind
      <3>3. q.msg = m => out[m].state = "sent" /\ q.qos = qos
        BY <1>8, <3>1
      <3> QED
        BY <1>2, <1>4, <1>14, <3>1, <3>2, <3>3
    <2> QED
      BY <1>12, <2>1, <2>2
  <1>19. InStore'
    <2>1. \A k \in 1..MaxIn : Sending2(k)' => (Got(k) <=> IdOf(k) \in store)
      BY <1>1, <1>4, <1>14, <1>15 DEF InInv, InStore
    <2>2. \A y \in store : accepted = connects /\ \E k \in 1..MaxIn : IdOf(k) = y /\ Active(k)' /\ out'[k].qos = 2
      BY <1>2, <1>8, <1>14 DEF InInv, InStore
    <2> QED
      BY <1>1, <1>13, <2>1, <2>2 DEF InStore
  <1>20. InOrder'
    <2>1. \A r \in Kind(toClient', "PubRel") : \A k \in 1..MaxIn : IdOf(k) = r.id => out'[k].state # "sent"
      BY <1>2, <1>4, <1>9, <1>12 DEF InInv, InOrder
    <2> QED
      BY <1>11, <2>1 DEF InOrder
  <1>21. InReplies'
    <2>1. \A a \in Kind(toBroker, "PubRec") : \A k \in 1..MaxIn :
              IdOf(k) = a.id /\ Active(k)' => out'[k].qos = 2 /\ Got(k)
      <3> SUFFICES ASSUME NEW a \in Kind(toBroker, "PubRec"), NEW k \in 1..MaxIn, IdOf(k) = a.id, Active(k)'
                   PROVE  out'[k].qos = 2 /\ Got(k)
        OBVIOUS
      <3>1. CASE k # m
        BY <1>2, <1>14, <3>1 DEF InInv, InReplies
      <3>2. CASE k = m
        <4>1. out[m].state = "sent"
          BY <1>4, <1>8, <3>2 DEF Kind
        <4> QED
          BY <1>2, <1>8, <1>14, <3>2, <4>1 DEF InInv, InReplies
      <3> QED
        BY <3>1, <3>2
    <2>2. \A a \in Kind(toBroker, "PubAck") : \A k \in 1..MaxIn :
              IdOf(k) = a.id /\ out'[k].state = "sent" /\ out'[k].qos = 1 => Got(k)
      <3> SUFFICES ASSUME NEW a \in Kind(toBroker, "PubAck"), NEW k \in 1..MaxIn, IdOf(k) = a.id,
                          out'[k].state = "sent", out'[k].qos = 1
                   PROVE  Got(k)
        OBVIOUS
      <3>1. CASE k # m
        BY <1>2, <3>1 DEF InInv, InReplies
      <3>2. CASE k = m
        <4>1. out[m].state = "sent"
          BY <1>4, <1>8, <3>2 DEF Kind
        <4> QED
          BY <1>2, <1>8, <3>2, <4>1 DEF InInv, InReplies
      <3> QED
        BY <3>1, <3>2
    <2>3. \A a \in Kind(toBroker, "PubComp") :
              /\ a.id \notin store
              /\ \A q \in Kind(toClient', "Publish") : q.id # a.id
              /\ \A k \in 1..MaxIn : IdOf(k) = a.id => out'[k].state # "sent"
      BY <1>2, <1>4, <1>6, <1>10, <1>12 DEF InInv, InReplies
    <2> QED
      BY <1>1, <1>13, <2>1, <2>2, <2>3 DEF InReplies
  <1>22. InboundOnce'
    <2>1. out[m].state = "new" => \A j \in 1..Len(received) : received[j] # m
      BY DEF InInv, InStates, Got, Rg
    <2> QED
      BY <1>1, <1>2, <1>8, <2>1 DEF InInv, InboundOnce
  <1>23. InboundDelivered'
    BY <1>1, <1>2 DEF InInv, InboundDelivered, Delivered
  <1> QED
    BY <1>16, <1>17, <1>18, <1>19, <1>20, <1>21, <1>22, <1>23 DEF InInv

\* The PUBREL that the broker sends.
LEMMA PubRelPacket ==
    ASSUME NEW x \in Nat, BrokerSays(Packet("PubRel", x, 0, 0))
    PROVE  \E p \in Packets : p.type = "PubRel" /\ p.id = x /\ toClient' = Append(toClient, p)
  <1>1. PICK t : t = "PubRel"
    OBVIOUS
  <1>2. t \in Types
    BY <1>1 DEF Types, Requests
  <1>3. Packet(t, x, 0, 0) \in Packets /\ Packet(t, x, 0, 0).type = t /\ Packet(t, x, 0, 0).id = x
    BY <1>2, PlainPackets, Zenon
  <1> QED
    BY <1>1, <1>3 DEF BrokerSays

\* The broker reads an answer to one of its messages.
LEMMA InAnswered == ASSUME SystemInv, InInv, BrokerAnswered PROVE InInv'
  <1>1. /\ toBroker # <<>> /\ toBroker' = Tail(toBroker) /\ Head(toBroker).type \in Replies
        /\ UNCHANGED <<status, store, received, connects, accepted>>
    BY DEF BrokerAnswered, BrokerReads, Replies, clientVars, appVars
  <1>2. PICK h : h = Head(toBroker)
    OBVIOUS
  <1>3. h \in Packets /\ h \in Rg(toBroker) /\ Rg(toBroker') \subseteq Rg(toBroker)
    <2>1. toBroker \in Seq(Packets)
      BY DEF SystemInv, ClientInv, ClientTypes
    <2> QED
      BY <1>1, <1>2, <2>1, TailFacts
  <1>4. accepted = connects /\ h.id \in Nat
    BY <1>1, <1>2, <1>3 DEF InInv, InOpen, Packets
  <1>5. PICK x : x = h.id
    OBVIOUS
  <1>6. out \in [1..MaxIn -> Messages]
    BY DEF SystemInv, SystemTypes
  <1>7. CASE h.type = "PubAck"
    <2>1. /\ toClient' = toClient
          /\ out' = [m \in 1..MaxIn |-> IF m \in Answered({"sent"}) /\ out[m].qos = 1
                                        THEN [out[m] EXCEPT !.state = "done"] ELSE out[m]]
      BY <1>2, <1>7 DEF BrokerAnswered, BrokerReads
    <2>2. \A m \in 1..MaxIn : m \in Answered({"sent"}) => IdOf(m) = x /\ out[m].state = "sent"
      BY <1>2, <1>5 DEF Answered
    <2>3. h \in Kind(toBroker, "PubAck")
      BY <1>3, <1>7 DEF Kind
    <2>4. \A m \in 1..MaxIn : m \in Answered({"sent"}) /\ out[m].qos = 1 => Got(m) /\ Active(m)
      BY <1>5, <2>2, <2>3 DEF InInv, InReplies, Active
    <2>5. \A m \in 1..MaxIn :
              /\ out'[m].qos = out[m].qos
              /\ \/ out'[m].state = out[m].state
                 \/ IdOf(m) = x /\ Got(m) /\ out'[m].state = "done" /\ Active(m)
                    /\ (out[m].qos = 2 => x \notin store /\ \A p \in Kind(toClient, "Publish") : p.id # x)
      BY <1>6, <2>1, <2>2, <2>4 DEF Messages
    <2> QED
      BY <1>1, <1>3, <1>4, <1>5, <2>1, <2>5, InFinish
  <1>8. CASE h.type = "PubComp"
    <2>1. /\ toClient' = toClient
          /\ out' = [m \in 1..MaxIn |-> IF m \in Answered({"released"})
                                        THEN [out[m] EXCEPT !.state = "done"] ELSE out[m]]
      BY <1>2, <1>8 DEF BrokerAnswered, BrokerReads
    <2>2. \A m \in 1..MaxIn : m \in Answered({"released"}) => IdOf(m) = x /\ out[m].state = "released"
      BY <1>2, <1>5 DEF Answered
    <2>3. h \in Kind(toBroker, "PubComp")
      BY <1>3, <1>8 DEF Kind
    <2>4. x \notin store /\ \A p \in Kind(toClient, "Publish") : p.id # x
      BY <1>5, <2>3 DEF InInv, InReplies
    <2>5. \A m \in 1..MaxIn : m \in Answered({"released"}) => Got(m) /\ Active(m)
      BY <2>2 DEF InInv, InStates, Active
    <2>6. \A m \in 1..MaxIn :
              /\ out'[m].qos = out[m].qos
              /\ \/ out'[m].state = out[m].state
                 \/ IdOf(m) = x /\ Got(m) /\ out'[m].state = "done" /\ Active(m)
                    /\ (out[m].qos = 2 => x \notin store /\ \A p \in Kind(toClient, "Publish") : p.id # x)
      BY <1>6, <2>1, <2>2, <2>4, <2>5 DEF Messages
    <2> QED
      BY <1>1, <1>3, <1>4, <1>5, <2>1, <2>6, InFinish
  <1>9. CASE h.type = "PubRec"
    <2>1. /\ BrokerSays(Packet("PubRel", h.id, 0, 0))
          /\ out' = [m \in 1..MaxIn |-> IF m \in Answered({"sent"})
                                        THEN [state |-> "released", qos |-> 2, sends |-> 1] ELSE out[m]]
      BY <1>2, <1>9 DEF BrokerAnswered, BrokerReads
    <2>2. \A m \in 1..MaxIn : m \in Answered({"sent"}) <=> IdOf(m) = x /\ out[m].state = "sent"
      BY <1>2, <1>5 DEF Answered
    <2>3. h \in Kind(toBroker, "PubRec")
      BY <1>3, <1>9 DEF Kind
    <2>4. \A m \in 1..MaxIn : m \in Answered({"sent"}) => Got(m) /\ out[m].qos = 2
      BY <1>5, <2>2, <2>3 DEF InInv, InReplies, Active
    <2>5. \A m \in 1..MaxIn :
              /\ out'[m].qos = out[m].qos
              /\ \/ out'[m].state = out[m].state
                 \/ out[m].state = "sent" /\ out'[m].state = "released" /\ Got(m) /\ out[m].qos = 2
              /\ IdOf(m) = x => out'[m].state # "sent"
      BY <2>1, <2>2, <2>4
    <2>6. PICK p \in Packets : p.type = "PubRel" /\ p.id = x /\ toClient' = Append(toClient, p)
      BY <1>4, <1>5, <2>1, PubRelPacket
    <2> QED
      BY <1>1, <1>3, <1>4, <1>5, <2>5, <2>6, InRelease
  <1> QED
    BY <1>1, <1>2, <1>7, <1>8, <1>9 DEF Replies

\* The broker sends PUBREL again.
LEMMA InPubRelAgain ==
    ASSUME SystemInv, InInv, NEW m \in 1..MaxIn, BrokerPubRelAgain(m) PROVE InInv'
  <1>1. /\ accepted = connects /\ UNCHANGED <<status, store, received, connects, accepted, toBroker>>
        /\ out[m].state = "released" /\ out' = [out EXCEPT ![m].sends = @ + 1]
        /\ BrokerSays(Packet("PubRel", IdOf(m), 0, 0))
    BY DEF BrokerPubRelAgain, BrokerOpen, clientVars, appVars
  <1>2. IdOf(m) \in Nat
    BY SystemAssumption, IdFacts
  <1>3. PICK x : x = IdOf(m)
    OBVIOUS
  <1>4. PICK p \in Packets : p.type = "PubRel" /\ p.id = x /\ toClient' = Append(toClient, p)
    BY <1>1, <1>2, <1>3, PubRelPacket
  <1>5. \A k \in 1..MaxIn : out'[k].state = out[k].state /\ out'[k].qos = out[k].qos
    BY <1>1 DEF SystemInv, SystemTypes, Messages
  <1>6. \A k \in 1..MaxIn : IdOf(k) = x => out[k].state # "sent"
    BY <1>1, <1>3 DEF InInv, InStates, Active
  <1> QED
    BY <1>1, <1>2, <1>3, <1>4, <1>5, <1>6, InRelease

\* What Receiver does to the broker's messages.
LEMMA InReceiver ==
    ASSUME SystemInv, InInv, Receiver, UNCHANGED <<brokerVars, appVars>> PROVE InInv'
  <1>1. UNCHANGED <<connects, accepted, out>>
    BY DEF brokerVars, appVars
  <1>2. PICK h : h = Head(toClient)
    OBVIOUS
  <1>3. toClient # <<>> => h.id \in Nat
    BY <1>2, HeadFacts DEF SystemInv
  <1>4. ASSUME NEW t \in {"PubAck", "PubRec", "PubComp"}, Answers(h, Packet(t, h.id, 0, 0))
        PROVE  /\ toClient # <<>> /\ toClient' = Tail(toClient) /\ status' = status
               /\ \E b \in Packets : b.type = t /\ b.id = h.id /\ toBroker' = Append(toBroker, b)
    <2>1. /\ toClient # <<>> /\ toClient' = Tail(toClient) /\ status' = status
          /\ toBroker' = Append(toBroker, Packet(t, h.id, 0, 0))
      BY <1>4 DEF Answers, Stays
    <2>2. PICK x : x = h.id
      OBVIOUS
    <2>3. t \in Types
      BY DEF Types, Answering
    <2>4. Packet(t, x, 0, 0) \in Packets /\ Packet(t, x, 0, 0).type = t /\ Packet(t, x, 0, 0).id = x
      BY <1>3, <2>1, <2>2, <2>3, PlainPackets, Zenon
    <2> QED
      BY <2>1, <2>2, <2>4
  <1>5. ASSUME DoOther \/ DoAck PROVE InInv'
    <2>1. InMoves
      BY <1>1, <1>5 DEF DoOther, DoAck, Takes0, Stays, InMoves
    <2> QED
      BY <2>1, InMovesStep
  <1>6. ASSUME DoPubRec PROVE InInv'
    <2>1. PICK i \in 1..Len(queue) : Answers(h, Packet("PubRel", h.id, 2, queue[i].packet.msg))
      BY <1>2, <1>6 DEF DoPubRec
    <2>2. PICK y : y = queue[i].packet.msg
      OBVIOUS
    <2>3. y \in Nat
      <3>1. queue \in Seq(Entries)
        BY DEF SystemInv, ClientInv, GoodQueue
      <3>2. queue[i] \in Entries
        BY <3>1
      <3> QED
        BY <2>2, <3>2 DEF Entries, Packets
    <2>4. PICK p : p = Packet("PubRel", h.id, 2, y)
      OBVIOUS
    <2>5. /\ toClient # <<>> /\ toClient' = Tail(toClient) /\ status' = status /\ UNCHANGED <<store, received>>
          /\ toBroker' = Append(toBroker, p)
      BY <1>6, <2>1, <2>2, <2>4 DEF Answers, Stays, DoPubRec
    <2>6. p \in Packets /\ p.type = "PubRel"
      BY <1>3, <2>3, <2>4, <2>5, AnswerPackets, Zenon
    <2>7. InMoves
      BY <1>1, <2>5, <2>6 DEF InMoves, Replies
    <2> QED
      BY <2>7, InMovesStep
  <1>7. ASSUME DoPublish0 PROVE InInv'
    <2>1. /\ toClient # <<>> /\ toClient' = Tail(toClient) /\ h.type = "Publish" /\ h.qos # 2
          /\ received' = Append(received, h.msg) /\ UNCHANGED <<store, status, toBroker>>
      BY <1>2, <1>7 DEF DoPublish0, Takes0, Stays
    <2> QED
      BY <1>1, <1>2, <2>1, InDeliver
  <1>8. ASSUME DoPublish1 PROVE InInv'
    <2>1. /\ Answers(h, Packet("PubAck", h.id, 0, 0)) /\ h.type = "Publish" /\ h.qos # 2
          /\ received' = Append(received, h.msg) /\ store' = store
      BY <1>2, <1>8 DEF DoPublish1
    <2>2. /\ toClient # <<>> /\ toClient' = Tail(toClient) /\ status' = status
          /\ \E b \in Packets : b.type = "PubAck" /\ b.id = h.id /\ toBroker' = Append(toBroker, b)
      BY <1>4, <2>1
    <2> QED
      BY <1>1, <1>2, <2>1, <2>2, InDeliver
  <1>9. ASSUME DoPublish2 PROVE InInv'
    <2>1. /\ Answers(h, Packet("PubRec", h.id, 0, 0)) /\ h.type = "Publish" /\ h.qos = 2
          /\ received' = IF h.id \in store THEN received ELSE Append(received, h.msg)
          /\ store' = store \cup {h.id}
      BY <1>2, <1>9 DEF DoPublish2
    <2>2. /\ toClient # <<>> /\ toClient' = Tail(toClient) /\ status' = status
          /\ \E b \in Packets : b.type = "PubRec" /\ b.id = h.id /\ toBroker' = Append(toBroker, b)
      BY <1>4, <2>1
    <2> QED
      BY <1>1, <1>2, <2>1, <2>2, InDeliver2
  <1>10. ASSUME DoPubRel PROVE InInv'
    <2>1. /\ Answers(h, Packet("PubComp", h.id, 0, 0)) /\ h.type = "PubRel"
          /\ store' = store \ {h.id} /\ received' = received
      BY <1>2, <1>10 DEF DoPubRel
    <2>2. /\ toClient # <<>> /\ toClient' = Tail(toClient) /\ status' = status
          /\ \E b \in Packets : b.type = "PubComp" /\ b.id = h.id /\ toBroker' = Append(toBroker, b)
      BY <1>4, <2>1
    <2> QED
      BY <1>1, <1>2, <2>1, <2>2, InForget
  <1>11. ASSUME Off PROVE InInv'
    BY <1>11, InOff
  <1> QED
    BY <1>5, <1>6, <1>7, <1>8, <1>9, <1>10, <1>11, ReceiverFacts DEF SystemInv

\* What a broker that keeps to the protocol does to its messages.
LEMMA InBroker ==
    ASSUME SystemInv, OutInv, InInv, Broker, ~Faulty, CleanSession PROVE InInv'
  <1>1. status # "Disconnected" /\ UNCHANGED clientVars
    BY BrokerFacts DEF SystemInv, Channels
  <1>2. toBroker # <<>> => Head(toBroker).id \in Nat
    <2>1. toBroker \in Seq(Packets)
      BY DEF SystemInv, ClientInv, ClientTypes
    <2>2. toBroker # <<>> => Head(toBroker) \in Packets
      BY <2>1, TailFacts
    <2> QED
      BY <2>2 DEF Packets
  <1>3. 0 \in Nat /\ 1 \in Nat /\ 128 \in Nat
    OBVIOUS
  <1>4. ASSUME NEW t \in {"ConnAck", "PingResp", "SubAck", "UnsubAck", "PubAck", "PubRec", "PubComp"},
               NEW x \in Nat, NEW c \in Nat, BrokerSays(Packet(t, x, c, 0))
        PROVE  \E p \in Packets : p.type \notin {"Publish", "PubRel"} /\ toClient' = Append(toClient, p)
    <2>1. t \in Types /\ t \notin {"Publish", "PubRel"}
      BY DEF Types, Answering
    <2>2. PICK p : p = Packet(t, x, c, 0)
      OBVIOUS
    <2>3. p \in Packets /\ p.type = t
      BY <2>1, <2>2 DEF Packet, Packets
    <2> QED
      BY <1>4, <2>1, <2>2, <2>3 DEF BrokerSays
  <1>5. ASSUME UNCHANGED <<connects, accepted, out>>, toBroker # <<>>, toBroker' = Tail(toBroker),
               \/ toClient' = toClient
               \/ \E p \in Packets : p.type \notin {"Publish", "PubRel"} /\ toClient' = Append(toClient, p)
        PROVE  InInv'
    <2>1. InMoves
      BY <1>1, <1>5 DEF InMoves, clientVars
    <2> QED
      BY <2>1, InMovesStep
  <1>6. ASSUME BrokerConnAck PROVE InInv'
    <2>1. /\ toBroker # <<>> /\ toBroker' = Tail(toBroker) /\ Head(toBroker).type = "Connect"
          /\ UNCHANGED <<status, store, received, connects>>
      BY <1>6 DEF BrokerConnAck, BrokerReads, appVars, clientVars
    <2>2. PICK p \in Packets : p.type \notin {"Publish", "PubRel"} /\ toClient' = Append(toClient, p)
      <3>1. PICK c \in Nat : BrokerSays(Packet("ConnAck", 0, c, 0))
        BY <1>3, <1>6 DEF BrokerConnAck
      <3> QED
        BY <1>3, <1>4, <3>1
    <2>3. CASE UNCHANGED <<accepted, out>>
      BY <1>5, <2>1, <2>2, <2>3
    <2>4. CASE /\ accepted' = connects
               /\ out' = [m \in 1..MaxIn |->
                             IF CleanSession /\ out[m].state \in {"sent", "released"}
                             THEN [out[m] EXCEPT !.state = "dropped"]
                             ELSE [out[m] EXCEPT !.sends = 0]]
      <3>1. out \in [1..MaxIn -> Messages]
        BY DEF SystemInv, SystemTypes
      <3>2. \A m \in 1..MaxIn :
                /\ out'[m].qos = out[m].qos
                /\ out'[m].state = IF Active(m) THEN "dropped" ELSE out[m].state
        BY <2>4, <3>1 DEF Active, Messages
      <3> QED
        BY <2>1, <2>2, <2>4, <3>2, InAccept
    <2> QED
      BY <1>6, <2>3, <2>4 DEF BrokerConnAck
  <1>7. ASSUME BrokerPingReq PROVE InInv'
    <2>1. /\ toBroker # <<>> /\ toBroker' = Tail(toBroker) /\ UNCHANGED <<connects, accepted, out>>
          /\ BrokerSays(Packet("PingResp", 0, 0, 0))
      BY <1>7 DEF BrokerPingReq, BrokerReads, appVars, brokerVars
    <2> QED
      BY <1>3, <1>4, <1>5, <2>1
  <1>8. ASSUME BrokerPubRel PROVE InInv'
    <2>1. /\ toBroker # <<>> /\ toBroker' = Tail(toBroker) /\ UNCHANGED <<connects, accepted, out>>
          /\ BrokerSays(Packet("PubComp", Head(toBroker).id, 0, 0))
      BY <1>8 DEF BrokerPubRel, BrokerReads, appVars
    <2> QED
      BY <1>2, <1>3, <1>4, <1>5, <2>1
  <1>9. ASSUME BrokerRequest PROVE InInv'
    <2>1. /\ toBroker # <<>> /\ toBroker' = Tail(toBroker) /\ UNCHANGED <<connects, accepted, out>>
      BY <1>9 DEF BrokerRequest, BrokerReads, appVars
    <2>2. \/ toClient' = toClient
          \/ \E t \in {"SubAck", "UnsubAck", "PubAck", "PubRec"}, c \in Nat :
                BrokerSays(Packet(t, Head(toBroker).id, c, 0))
      BY <1>3, <1>9 DEF BrokerRequest
    <2>3. \/ toClient' = toClient
          \/ \E p \in Packets : p.type \notin {"Publish", "PubRel"} /\ toClient' = Append(toClient, p)
      BY <1>2, <1>4, <2>1, <2>2
    <2> QED
      BY <1>5, <2>1, <2>3
  <1> QED
    BY <1>6, <1>7, <1>8, <1>9, InAnswered, InPubRelAgain, InSend
       DEF Broker, BrokerMisbehaves, BrokerIgnores

\* Every step keeps what is known of the broker's messages.
LEMMA InNext ==
    ASSUME SystemInv, OutInv, InInv, [SystemNext]_sysVars, ~Faulty, CleanSession PROVE InInv'
  <1>1. ASSUME Off, UNCHANGED <<brokerVars>> PROVE InInv'
    BY <1>1, InOff
  <1>2. ASSUME NEW p \in Packets, p.type \notin Replies, toBroker' = Append(toBroker, p),
               UNCHANGED <<toClient, store, received, brokerVars, connects>>,
               status # "Disconnected", status' # "Disconnected"
        PROVE  InInv'
    <2>1. InMoves
      BY <1>2 DEF InMoves, brokerVars
    <2> QED
      BY <2>1, InMovesStep
  <1>3. ASSUME SenderStep PROVE InInv'
    <2>1. CASE Off
      BY <1>1, <1>3, <2>1 DEF SenderStep
    <2>2. CASE DoResend
      <3>1. PICK p : p = Head(queue).packet
        OBVIOUS
      <3>2. /\ queue # <<>> /\ toBroker' = Append(toBroker, p) /\ UNCHANGED <<toClient, store, received>>
            /\ status # "Disconnected" /\ status' # "Disconnected"
        BY <2>2, <3>1 DEF DoResend, Stays
      <3>3. queue \in Seq(Entries) /\ \A i \in 1..Len(queue) : queue[i].packet.type \in Requests
        BY DEF SystemInv, ClientInv, GoodQueue
      <3>4. 1 \in 1..Len(queue) /\ Head(queue) = queue[1] /\ Head(queue) \in Entries
        BY <3>2, <3>3, TailFacts
      <3>5. p \in Packets /\ p.type \in Requests
        BY <3>1, <3>3, <3>4 DEF Entries
      <3>6. p.type \notin Replies
        BY <3>5 DEF Requests, Replies
      <3> QED
        BY <1>2, <1>3, <3>2, <3>5, <3>6 DEF SenderStep, appVars
    <2> QED
      BY <1>3, <2>1, <2>2, SenderFacts DEF SenderStep, SystemInv
  <1>4. ASSUME KeepAliveStep PROVE InInv'
    <2>1. CASE Off
      BY <1>1, <1>4, <2>1 DEF KeepAliveStep
    <2>2. CASE DoPing
      <3>1. PICK p : p = Packet("PingReq", 0, 0, 0)
        OBVIOUS
      <3>2. PICK t : t = "PingReq"
        OBVIOUS
      <3>3. t \in Types /\ t \notin Replies
        BY <3>2 DEF Types, Replies
      <3>4. p \in Packets /\ p.type = t
        <4>1. p = Packet(t, 0, 0, 0)
          BY <3>1, <3>2
        <4> QED
          BY <3>3, <4>1 DEF Packet, Packets
      <3> QED
        BY <1>2, <1>4, <2>2, <3>1, <3>3, <3>4 DEF KeepAliveStep, DoPing, appVars
    <2> QED
      BY <1>4, <2>1, <2>2, KeepAliveFacts DEF KeepAliveStep, SystemInv
  <1>5. ASSUME PeerStep \/ AppDisconnect PROVE InInv'
    BY <1>1, <1>5, DisconnectFacts DEF PeerStep, AppDisconnect, SystemInv
  <1>6. ASSUME TimeStep \/ AppConnectFails \/ UNCHANGED sysVars PROVE InInv'
    <2>1. InMoves
      BY <1>6 DEF TimeStep, AppConnectFails, Tick, ConnectFails, InMoves, sysVars, vars, clientVars,
                  brokerVars, appVars
    <2> QED
      BY <2>1, InMovesStep
  <1>7. ASSUME AppSubscribe \/ AppUnsubscribe \/ AppPublish PROVE InInv'
    <2>1. PICK type \in {"Subscribe", "Unsubscribe", "Publish"}, qos \in 0..2 :
              (type # "Publish" => qos = 1) /\ Issue(type, qos)
      BY <1>7 DEF AppSubscribe, AppUnsubscribe, AppPublish
    <2>2. /\ Off \/ DoRequest(Packet(type, nextId, qos, Len(issued) + 1))
          /\ UNCHANGED <<brokerVars, connects>>
      BY <2>1, IssueFacts DEF SystemInv
    <2>3. CASE Off
      BY <1>1, <2>2, <2>3
    <2>4. CASE DoRequest(Packet(type, nextId, qos, Len(issued) + 1))
      <3>1. PICK p : p = Packet(type, nextId, qos, Len(issued) + 1)
        OBVIOUS
      <3>2. nextId \in Nat /\ Len(issued) + 1 \in Nat /\ type \in Types /\ type \notin Replies
        BY DEF SystemInv, ClientInv, ClientTypes, SystemTypes, Types, Requests, Replies
      <3>3. p \in Packets /\ p.type = type
        BY <3>1, <3>2 DEF Packet, Packets
      <3> QED
        BY <1>2, <2>2, <2>4, <3>1, <3>2, <3>3 DEF DoRequest, Stays
    <2> QED
      BY <2>2, <2>3, <2>4
  <1> QED
    BY <1>3, <1>4, <1>5, <1>6, <1>7, InReceiver, InBroker, InConnect
       DEF SystemNext, ClientStep, ReceiverStep, App

\* At the start the broker has sent nothing.
LEMMA InStart == ASSUME SystemInit PROVE InInv
  <1>1. /\ toBroker = <<>> /\ toClient = <<>> /\ received = <<>> /\ store = {}
        /\ \A m \in 1..MaxIn : out[m].state = "new" /\ out[m].qos = 0
        /\ status = "Disconnected"
    BY DEF SystemInit, Init
  <1>2. Len(toBroker) = 0 /\ Len(toClient) = 0 /\ Len(received) = 0
    BY <1>1
  <1>3. Rg(toBroker) = {} /\ Rg(toClient) = {} /\ Rg(received) = {}
    BY <1>2 DEF Rg
  <1>4. InStates
    BY <1>1, <1>3 DEF InStates, Got, Active
  <1>5. InOpen /\ InPublish /\ InReplies
    BY <1>3 DEF InOpen, InPublish, InReplies, Kind
  <1>6. InStore
    BY <1>1 DEF InStore
  <1>7. InOrder
    BY <1>2, <1>3 DEF InOrder, Ordered, Kind
  <1>8. InboundOnce /\ InboundDelivered
    BY <1>1 DEF InboundOnce, InboundDelivered
  <1> QED
    BY <1>4, <1>5, <1>6, <1>7, <1>8 DEF InInv

\* With clean sessions and a broker that keeps to the protocol, the identifiers
\* that ReceivePublish stores and ReceivePubRel removes (mqttclient.cpp:512-550,
\* 602-623) tell a new message from one that is sent again.
THEOREM InInvariant ==
    ASSUME ~Faulty, CleanSession PROVE SystemSpec => []InInv
  <1>1. SystemInit => InInv
    BY InStart
  <1>2. SystemInv /\ OutInv /\ InInv /\ [SystemNext]_sysVars => InInv'
    BY InNext
  <1> QED
    BY <1>1, <1>2, ClientInvariant, OutInvariant, PTL DEF SystemSpec

\* A message with QoS 2 is given to OnMessage at most once, for every number of
\* messages and identifiers and however often the broker sends it.
THEOREM DeliveredOnce ==
    ASSUME ~Faulty, CleanSession PROVE SystemSpec => []InboundOnce
  <1>1. InInv => InboundOnce
    BY DEF InInv
  <1> QED
    BY <1>1, InInvariant, PTL

\* A message with QoS 1 or 2 that the client has answered to the end was given
\* to OnMessage (mqttclient.cpp:512-550).
THEOREM AnsweredWasDelivered ==
    ASSUME ~Faulty, CleanSession PROVE SystemSpec => []InboundDelivered
  <1>1. InInv => InboundDelivered
    BY DEF InInv
  <1> QED
    BY <1>1, InInvariant, PTL
==============================================================================
