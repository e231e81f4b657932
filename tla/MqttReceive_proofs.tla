------------------------- MODULE MqttReceive_proofs -------------------------
(***************************************************************************)
(* Proofs about MqttReceive, for every size of the frame, of the packets   *)
(* and of the queue and for packets of any length: the receiver stays in   *)
(* step with the stream and gives up only with the promised number of      *)
(* packets in its buffer.                                                  *)
(*                                                                         *)
(* What is in the buffer and under way is described by where each packet   *)
(* starts, counted from the front of the buffer: a byte's place is the     *)
(* start of its packet and its offset.  The starts of all packets are part *)
(* of the invariant, as are the distances between any two of them, so that *)
(* no step has to add up the sizes of the packets before.                  *)
(***************************************************************************)
EXTENDS MqttReceive, SequenceTheorems, FiniteSetTheorems, TLAPS

Byte == [pkt : Nat, off : Nat]

\* The client subscribes to one topic at a time (mqttclient.cpp:275-305): a
\* SUBACK carries the identifier and one return code.
OneReturnCode == \A k \in Kinds : k.type = "SubAck" => k.rest = 3

ReceiveTypes ==
    /\ sent \in Seq(Kinds) /\ handled \in 0..Len(sent)
    /\ wire \in Seq(Byte) /\ buffer \in Seq(Byte) /\ outPtr \in Nat
    /\ state \in {"receive", "handle", "closed", "halted"}

\* st says where the packets of s start.
Starts(s, st) ==
    /\ st \in [1..(Len(s) + 1) -> Int]
    /\ \A n \in 1..Len(s) : st[n + 1] = st[n] + Size(s[n])
    /\ \A m, n \in 1..(Len(s) + 1) : m <= n => st[m] <= st[n]

\* How far they are apart at most.
Spans(s, st) ==
    \A m, n \in 1..(Len(s) + 1) : m <= n => st[n] <= st[m] + (n - m) * MaxPacketSize

\* The byte b is at the place i.
At(s, st, b, i) ==
    /\ b.pkt \in 1..Len(s) /\ b.off < Size(s[b.pkt])
    /\ i = st[b.pkt] + b.off + 1

\* The first packet that was not handled starts the buffer, the last one ends
\* what is under way, and every byte is in its place.
Placed(st) ==
    /\ st[handled + 1] = 0
    /\ st[Len(sent) + 1] = Len(buffer) + Len(wire)
    /\ \A i \in 1..Len(buffer) : At(sent, st, buffer[i], i)
    /\ \A i \in 1..Len(wire) : At(sent, st, wire[i], Len(buffer) + i)

\* A packet is handled when all of it is there; nothing is under way to a closed
\* connection.
Handling ==
    /\ state = "handle" => PacketComplete(buffer) /\ outPtr = Front(buffer).head
    /\ state = "closed" => wire = <<>>

ReceiveInv ==
    /\ ReceiveTypes /\ Handling /\ WithinBuffer /\ RoomForQueued
    /\ \E st : Starts(sent, st) /\ Spans(sent, st) /\ (state \in {"receive", "handle"} => Placed(st))

\* The sizes of the packets.
LEMMA SizeFacts ==
    ASSUME NEW k \in Kinds
    PROVE  Size(k) \in Nat /\ Size(k) >= 2 /\ Size(k) <= MaxPacketSize /\ k.head \in Nat /\ k.rest \in Nat
  <1>1. k.head \in 2..5 /\ k.rest \in Nat /\ k.head + k.rest <= MaxPacketSize /\ MaxPacketSize \in Nat
    BY ReceiveAssumption
  <1> QED
    BY <1>1 DEF Size

\* The start of a packet and of the next one.
LEMMA StartFacts ==
    ASSUME NEW s \in Seq(Kinds), NEW st, Starts(s, st), NEW p \in 1..Len(s)
    PROVE  /\ p \in 1..(Len(s) + 1) /\ p + 1 \in 1..(Len(s) + 1)
           /\ st[p] \in Int /\ st[p + 1] \in Int /\ st[p + 1] = st[p] + Size(s[p])
           /\ s[p] \in Kinds /\ Size(s[p]) \in Nat /\ Size(s[p]) >= 2
           /\ Size(s[p]) <= MaxPacketSize
  <1>1. Len(s) \in Nat /\ s[p] \in Kinds
    OBVIOUS
  <1>2. p \in 1..(Len(s) + 1) /\ p + 1 \in 1..(Len(s) + 1)
    BY <1>1
  <1>3. st[p] \in Int /\ st[p + 1] \in Int /\ st[p + 1] = st[p] + Size(s[p])
    BY <1>2 DEF Starts
  <1> QED
    BY <1>1, <1>2, <1>3, SizeFacts

\* Two packets p and n with the starts u and v and the sizes x and y that do
\* not overlap have no place in common.
LEMMA NoOverlap ==
    ASSUME NEW p \in Int, NEW n \in Int, NEW u \in Int, NEW v \in Int, NEW x \in Int, NEW y \in Int,
           NEW o \in Nat, NEW j \in Nat, o < x, j < y, u + o = v + j,
           p + 1 <= n => u + x <= v, n + 1 <= p => v + y <= u, p = n => u = v
    PROVE  p = n /\ o = j
  OBVIOUS

\* A place holds one byte.
LEMMA PlaceFacts ==
    ASSUME NEW s \in Seq(Kinds), NEW st, Starts(s, st), NEW b \in Byte, NEW c \in Byte, NEW i \in Int,
           At(s, st, b, i), At(s, st, c, i)
    PROVE  b = c
  <1>1. PICK p, n, o, j : p = b.pkt /\ n = c.pkt /\ o = b.off /\ j = c.off
    OBVIOUS
  <1>2. /\ p \in 1..Len(s) /\ o \in Nat /\ o < Size(s[p]) /\ i = st[p] + o + 1
        /\ n \in 1..Len(s) /\ j \in Nat /\ j < Size(s[n]) /\ i = st[n] + j + 1
    BY <1>1 DEF At, Byte
  <1>3. /\ st[p] \in Int /\ st[p + 1] \in Int /\ st[p + 1] = st[p] + Size(s[p]) /\ Size(s[p]) \in Nat
        /\ p \in 1..(Len(s) + 1) /\ p + 1 \in 1..(Len(s) + 1)
    BY <1>2, StartFacts, Zenon
  <1>4. /\ st[n] \in Int /\ st[n + 1] \in Int /\ st[n + 1] = st[n] + Size(s[n]) /\ Size(s[n]) \in Nat
        /\ n \in 1..(Len(s) + 1) /\ n + 1 \in 1..(Len(s) + 1)
    BY <1>2, StartFacts, Zenon
  <1>5. (p + 1 <= n => st[p + 1] <= st[n]) /\ (n + 1 <= p => st[n + 1] <= st[p])
    BY <1>3, <1>4 DEF Starts
  <1>6. PICK u \in Int, v \in Int, x \in Int, y \in Int :
            u = st[p] /\ v = st[n] /\ x = Size(s[p]) /\ y = Size(s[n])
    BY <1>3, <1>4, SMTT(30)
  <1>7. o < x /\ j < y /\ u + o = v + j /\ p \in Int /\ n \in Int
    <2>1. i = u + o + 1 /\ i = v + j + 1 /\ o < x /\ j < y
      BY <1>2, <1>6, Zenon
    <2> QED
      BY <1>2, <2>1
  <1>8. (p + 1 <= n => u + x <= v) /\ (n + 1 <= p => v + y <= u) /\ (p = n => u = v)
    BY <1>3, <1>4, <1>5, <1>6
  <1>9. p = n /\ o = j
    BY <1>2, <1>7, <1>8, NoOverlap
  <1>10. b = [pkt |-> b.pkt, off |-> b.off] /\ c = [pkt |-> c.pkt, off |-> c.off]
    BY DEF Byte
  <1> QED
    BY <1>1, <1>9, <1>10, Zenon

\* The front of the buffer is the start of the first packet not handled.
LEMMA FrontFacts ==
    ASSUME ReceiveTypes, NEW st, Starts(sent, st), st[handled + 1] = 0,
           NEW b \in Seq(Byte), b # <<>>, At(sent, st, b[1], 1)
    PROVE  /\ handled < Len(sent) /\ handled + 1 \in 1..Len(sent) /\ b[1] \in Byte
           /\ b[1] = [pkt |-> handled + 1, off |-> 0] /\ Front(b) = sent[handled + 1]
           /\ Front(b) \in Kinds
  <1>1. Len(b) \in Nat \ {0} /\ b[1] \in Byte /\ Len(sent) \in Nat /\ handled \in Nat
    BY EmptySeq, LenProperties, ElementOfSeq DEF ReceiveTypes
  <1>2. PICK p, o : p = b[1].pkt /\ o = b[1].off
    OBVIOUS
  <1>3. p \in 1..Len(sent) /\ o \in Nat /\ o < Size(sent[p]) /\ 1 = st[p] + o + 1
    BY <1>1, <1>2 DEF At, Byte
  <1>4. sent[p] \in Kinds /\ Size(sent[p]) \in Nat /\ st[p] \in Int /\ st[p + 1] = st[p] + Size(sent[p])
    BY <1>1, <1>3, StartFacts DEF ReceiveTypes
  <1>5. handled < Len(sent)
    <2>1. handled = Len(sent) => st[p + 1] <= 0
      <3>1. p + 1 \in 1..(Len(sent) + 1) /\ Len(sent) + 1 \in 1..(Len(sent) + 1) /\ p + 1 <= Len(sent) + 1
        BY <1>1, <1>3
      <3>2. st[p + 1] <= st[Len(sent) + 1]
        BY <3>1 DEF Starts
      <3> QED
        BY <3>2
    <2> QED
      BY <1>1, <1>3, <1>4, <2>1 DEF ReceiveTypes
  <1>6. handled + 1 \in 1..Len(sent) /\ sent[handled + 1] \in Kinds
    BY <1>1, <1>5 DEF ReceiveTypes
  <1>7. Size(sent[handled + 1]) \in Nat /\ Size(sent[handled + 1]) >= 2
    BY <1>6, SizeFacts
  <1>8. PICK c : c = [pkt |-> handled + 1, off |-> 0]
    OBVIOUS
  <1>9. c \in Byte /\ c.pkt = handled + 1 /\ c.off = 0
    BY <1>1, <1>8 DEF Byte
  <1>10. At(sent, st, c, 1)
    BY <1>6, <1>7, <1>9 DEF At
  <1>11. b[1] = c
    BY <1>1, <1>9, <1>10, PlaceFacts DEF ReceiveTypes
  <1> QED
    BY <1>1, <1>5, <1>6, <1>8, <1>9, <1>11 DEF Front

\* The broker sends a packet: it starts where the last one ends.
LEMMA StartsAppend ==
    ASSUME NEW s \in Seq(Kinds), NEW st, Starts(s, st), Spans(s, st), NEW k \in Kinds
    PROVE  \E su : /\ Starts(Append(s, k), su) /\ Spans(Append(s, k), su)
                   /\ \A n \in 1..(Len(s) + 1) : su[n] = st[n]
                   /\ su[Len(s) + 2] = st[Len(s) + 1] + Size(k)
  <1> DEFINE N == Len(s)
             a == Append(s, k)
             su == [n \in 1..(N + 2) |-> IF n <= N + 1 THEN st[n] ELSE st[N + 1] + Size(k)]
  <1>1. N \in Nat /\ Len(a) = N + 1 /\ (\A n \in 1..N : a[n] = s[n]) /\ a[N + 1] = k
    BY AppendProperties, LenProperties
  <1>2. Size(k) \in Nat /\ Size(k) <= MaxPacketSize /\ MaxPacketSize \in Nat
    BY SizeFacts, ReceiveAssumption
  <1>3. st \in [1..(N + 1) -> Int]
    BY DEF Starts
  <1> HIDE DEF a
  <1>4. su \in [1..(Len(a) + 1) -> Int]
    BY <1>1, <1>2, <1>3
  <1>5. /\ \A n \in 1..(N + 1) : su[n] = st[n]
        /\ su[N + 2] = st[N + 1] + Size(k)
    BY <1>1
  <1> HIDE DEF su
  <1>6. \A n \in 1..Len(a) : su[n + 1] = su[n] + Size(a[n])
    <2> SUFFICES ASSUME NEW n \in 1..Len(a) PROVE su[n + 1] = su[n] + Size(a[n])
      OBVIOUS
    <2>1. CASE n \in 1..N
      BY <1>1, <1>5, <2>1 DEF Starts
    <2>2. CASE n = N + 1
      BY <1>1, <1>5, <2>2
    <2> QED
      BY <1>1, <2>1, <2>2
  <1>7. ASSUME NEW m \in 1..(Len(a) + 1), NEW n \in 1..(Len(a) + 1), m <= n
        PROVE  su[m] <= su[n] /\ su[n] <= su[m] + (n - m) * MaxPacketSize
    <2>1. CASE n \in 1..(N + 1)
      BY <1>1, <1>5, <1>7, <2>1 DEF Starts, Spans
    <2>2. CASE n = N + 2 /\ m = N + 2
      <3>1. (n - m) * MaxPacketSize = 0
        BY <1>1, <1>2, <2>2
      <3> QED
        BY <1>1, <1>4, <2>2, <3>1
    <2>3. CASE n = N + 2 /\ m \in 1..(N + 1)
      <3>1. st[m] <= st[N + 1] /\ st[N + 1] <= st[m] + (N + 1 - m) * MaxPacketSize
        BY <1>1, <2>3 DEF Starts, Spans
      <3>2. (n - m) * MaxPacketSize = (N + 1 - m) * MaxPacketSize + MaxPacketSize
        BY <1>1, <1>2, <2>3
      <3>3. PICK z \in Int : z = (N + 1 - m) * MaxPacketSize
        BY <1>1, <1>2, <2>3
      <3>4. st[m] \in Int /\ st[N + 1] \in Int /\ su[m] = st[m] /\ su[n] = st[N + 1] + Size(k)
        BY <1>1, <1>3, <1>5, <2>3
      <3> QED
        BY <1>2, <3>1, <3>2, <3>3, <3>4, SMTT(30)
    <2> QED
      BY <1>1, <2>1, <2>2, <2>3
  <1>8. Starts(a, su) /\ Spans(a, su)
    BY <1>4, <1>6, <1>7 DEF Starts, Spans
  <1> QED
    BY <1>5, <1>8 DEF a

\* When the front of the buffer moves, so do the starts.
LEMMA StartsShift ==
    ASSUME NEW s \in Seq(Kinds), NEW st, Starts(s, st), Spans(s, st), NEW d \in Int
    PROVE  \E su : /\ Starts(s, su) /\ Spans(s, su)
                   /\ \A n \in 1..(Len(s) + 1) : su[n] = st[n] - d
  <1>1. PICK N \in Nat : N = Len(s)
    OBVIOUS
  <1> DEFINE su == [n \in 1..(N + 1) |-> st[n] - d]
  <1>2. st \in [1..(N + 1) -> Int]
    BY <1>1 DEF Starts
  <1>3. su \in [1..(N + 1) -> Int] /\ \A n \in 1..(N + 1) : su[n] = st[n] - d
    BY <1>2
  <1> HIDE DEF su
  <1>4. \A n \in 1..N : su[n + 1] = su[n] + Size(s[n])
    <2> SUFFICES ASSUME NEW n \in 1..N PROVE su[n + 1] = su[n] + Size(s[n])
      OBVIOUS
    <2>1. /\ n \in 1..(N + 1) /\ n + 1 \in 1..(N + 1) /\ st[n] \in Int /\ Size(s[n]) \in Nat
          /\ st[n + 1] = st[n] + Size(s[n])
      BY <1>1, StartFacts
    <2>2. su[n] = st[n] - d /\ su[n + 1] = st[n + 1] - d
      BY <1>3, <2>1
    <2> QED
      BY <2>1, <2>2
  <1>5. ASSUME NEW m \in 1..(N + 1), NEW n \in 1..(N + 1), m <= n
        PROVE  su[m] <= su[n] /\ su[n] <= su[m] + (n - m) * MaxPacketSize
    <2>1. st[m] \in Int /\ st[n] \in Int /\ st[m] <= st[n] /\ su[m] = st[m] - d /\ su[n] = st[n] - d
      BY <1>1, <1>2, <1>3, <1>5 DEF Starts
    <2>2. st[n] <= st[m] + (n - m) * MaxPacketSize
      BY <1>1, <1>5 DEF Spans
    <2>3. PICK z \in Int : z = (n - m) * MaxPacketSize
      BY ReceiveAssumption
    <2> QED
      BY <2>1, <2>2, <2>3
  <1>6. Starts(s, su) /\ Spans(s, su)
    BY <1>1, <1>3, <1>4, <1>5 DEF Starts, Spans
  <1> QED
    BY <1>1, <1>3, <1>6

\* A byte keeps its place when packets are added behind, and moves with the
\* front of the buffer.
LEMMA AtAppend ==
    ASSUME NEW s \in Seq(Kinds), NEW k \in Kinds, NEW st, NEW su,
           \A n \in 1..(Len(s) + 1) : su[n] = st[n], NEW b, NEW i, At(s, st, b, i)
    PROVE  At(Append(s, k), su, b, i)
  <1>1. PICK p : p = b.pkt
    OBVIOUS
  <1>2. p \in 1..Len(s) /\ b.off < Size(s[p]) /\ i = st[p] + b.off + 1 /\ Len(s) \in Nat
    BY <1>1 DEF At
  <1>3. p \in 1..(Len(s) + 1) /\ Append(s, k)[p] = s[p] /\ p \in 1..Len(Append(s, k))
    BY <1>2, AppendProperties
  <1> QED
    BY <1>1, <1>2, <1>3 DEF At

\* The same when the front moves by d.
LEMMA AtShift ==
    ASSUME NEW s \in Seq(Kinds), NEW st, Starts(s, st), NEW su, NEW d \in Int,
           \A n \in 1..(Len(s) + 1) : su[n] = st[n] - d, NEW b \in Byte, NEW i \in Int, At(s, st, b, i)
    PROVE  At(s, su, b, i - d)
  <1>1. PICK p, o : p = b.pkt /\ o = b.off
    OBVIOUS
  <1>2. p \in 1..Len(s) /\ o < Size(s[p]) /\ i = st[p] + o + 1 /\ o \in Nat
    BY <1>1 DEF At, Byte
  <1>3. st[p] \in Int /\ su[p] = st[p] - d
    BY <1>2, StartFacts
  <1>4. PICK u \in Int : u = st[p]
    BY <1>3
  <1>5. i = u + o + 1 /\ su[p] = u - d
    BY <1>2, <1>3, <1>4
  <1>6. i - d = su[p] + o + 1
    BY <1>2, <1>5
  <1> QED
    BY <1>1, <1>2, <1>6 DEF At

\* Multiplication keeps the order.
LEMMA Times == ASSUME NEW a \in Int, NEW b \in Int, NEW k \in Nat, a <= b PROVE a * k <= b * k
  OBVIOUS

\* A full buffer holds MaxPacketsQueued packets: they take at most
\* MaxPacketSize bytes each, and the bytes behind them are in the buffer, too.
LEMMA FullFacts ==
    ASSUME ReceiveTypes, NEW st, Starts(sent, st), Spans(sent, st), Placed(st), ~RoomLeft
    PROVE  Cardinality({n \in 1..Len(sent) : \E i \in 1..Len(buffer) :
               buffer[i] = [pkt |-> n, off |-> Size(sent[n]) - 1]}) >= MaxPacketsQueued
  <1>1. PICK N \in Nat, h \in Nat, L \in Nat, K \in Nat, Q \in Nat \ {0} :
            N = Len(sent) /\ h = handled /\ L = Len(buffer) /\ K = MaxPacketSize /\ Q = MaxPacketsQueued
    <2>1. /\ Len(sent) \in Nat /\ handled \in Nat /\ Len(buffer) \in Nat
          /\ MaxPacketSize \in Nat /\ MaxPacketsQueued \in Nat \ {0}
      BY ReceiveAssumption DEF ReceiveTypes
    <2> QED
      BY <2>1, Zenon
  <1>2. PICK z \in Nat : z = Q * K
    BY <1>1
  <1>3. L > z
    <2>1. FrameSize \in Nat /\ K * Q = z
      BY <1>1, <1>2, ReceiveAssumption
    <2>2. BufferSize = z + FrameSize
      BY <1>1, <2>1 DEF BufferSize
    <2> QED
      BY <1>1, <2>1, <2>2 DEF RoomLeft
  <1>4. sent \in Seq(Kinds) /\ buffer \in Seq(Byte) /\ h <= N /\ st[h + 1] = 0
    BY <1>1 DEF ReceiveTypes, Placed
  <1>5. \A n \in 1..(N + 1) : h + 1 <= n => st[n] <= (n - (h + 1)) * K
    <2>1. h + 1 \in 1..(N + 1)
      BY <1>1, <1>4
    <2> SUFFICES ASSUME NEW n \in 1..(N + 1), h + 1 <= n PROVE st[n] <= (n - (h + 1)) * K
      OBVIOUS
    <2>2. st[n] <= st[h + 1] + (n - (h + 1)) * K
      BY <1>1, <2>1 DEF Spans
    <2>3. PICK y \in Int : y = (n - (h + 1)) * K
      BY <1>1
    <2> QED
      BY <1>4, <2>2, <2>3
  <1>6. \A n \in 1..(N + 1) : h + 1 <= n /\ n <= h + Q + 1 => st[n] <= z
    <2> SUFFICES ASSUME NEW n \in 1..(N + 1), h + 1 <= n, n <= h + Q + 1 PROVE st[n] <= z
      OBVIOUS
    <2>1. PICK a \in Int, y \in Int : a = n - (h + 1) /\ y = a * K
      BY <1>1
    <2>2. a <= Q
      BY <1>1, <2>1
    <2>3. y <= z
      BY <1>1, <1>2, <2>1, <2>2, Times
    <2>4. st[n] <= y /\ st[n] \in Int
      BY <1>1, <1>5, <2>1 DEF Starts
    <2> QED
      BY <1>2, <2>3, <2>4
  <1>7. h + Q <= N
    <2>1. st[N + 1] = L + Len(wire) /\ Len(wire) \in Nat
      BY <1>1 DEF Placed, ReceiveTypes
    <2>2. N + 1 \in 1..(N + 1) /\ h + 1 <= N + 1
      BY <1>1, <1>4
    <2>3. N + 1 <= h + Q + 1 => st[N + 1] <= z
      BY <1>6, <2>2
    <2> QED
      BY <1>1, <1>2, <1>3, <2>1, <2>3
  <1> DEFINE S == {n \in 1..Len(sent) : \E i \in 1..Len(buffer) :
                      buffer[i] = [pkt |-> n, off |-> Size(sent[n]) - 1]}
  <1>8. ASSUME NEW n \in (h + 1)..(h + Q) PROVE n \in S
    <2>1. n \in 1..N /\ n + 1 \in 1..(N + 1) /\ n \in 1..(N + 1) /\ h + 1 \in 1..(N + 1) /\ h + 1 <= n
      BY <1>1, <1>7
    <2>2. /\ st[n] \in Int /\ st[n + 1] \in Int /\ st[n + 1] = st[n] + Size(sent[n])
          /\ Size(sent[n]) \in Nat /\ Size(sent[n]) >= 2
      BY <1>1, <1>4, <2>1, StartFacts
    <2>3. st[h + 1] <= st[n]
      BY <1>1, <2>1 DEF Starts
    <2>4. h + 1 <= n + 1 /\ n + 1 <= h + Q + 1
      BY <1>1
    <2>5. st[n + 1] <= z
      BY <1>6, <2>1, <2>4
    <2>6. PICK i : i = st[n + 1]
      OBVIOUS
    <2>7. i \in 1..L
      BY <1>1, <1>2, <1>3, <1>4, <2>2, <2>3, <2>5, <2>6
    <2>8. PICK x \in Nat : x = Size(sent[n])
      BY <2>2
    <2>9. PICK c : c = [pkt |-> n, off |-> x - 1]
      OBVIOUS
    <2>10. c \in Byte /\ c.pkt = n /\ c.off = x - 1
      <3>1. n \in Nat /\ x - 1 \in Nat
        BY <1>1, <2>1, <2>2, <2>8
      <3> QED
        BY <2>9, <3>1 DEF Byte
    <2>11. At(sent, st, c, i)
      <3>1. x - 1 < x /\ i = st[n] + (x - 1) + 1
        BY <2>2, <2>6, <2>8
      <3> QED
        BY <1>1, <2>1, <2>8, <2>10, <3>1 DEF At
    <2>12. At(sent, st, buffer[i], i) /\ buffer[i] \in Byte
      BY <1>1, <1>4, <2>7 DEF Placed
    <2>13. buffer[i] = c
      BY <1>4, <2>7, <2>10, <2>11, <2>12, PlaceFacts
    <2> QED
      BY <1>1, <2>1, <2>7, <2>8, <2>9, <2>13
  <1>9. IsFiniteSet(S)
    <2>1. IsFiniteSet(1..N)
      BY <1>1, FS_Interval
    <2>2. S \in SUBSET (1..N)
      BY <1>1
    <2> QED
      BY <2>1, <2>2, FS_Subset
  <1>10. (h + 1)..(h + Q) \in SUBSET S
    BY <1>8
  <1> HIDE DEF S
  <1>11. Cardinality((h + 1)..(h + Q)) = Q
    <2>1. h + 1 \in Int /\ h + Q \in Int /\ ~(h + 1 > h + Q) /\ h + Q - (h + 1) + 1 = Q
      BY <1>1
    <2> QED
      BY <2>1, FS_Interval
  <1>12. Cardinality((h + 1)..(h + Q)) <= Cardinality(S) /\ Cardinality(S) \in Nat
    BY <1>9, <1>10, FS_Subset, FS_CardinalityType
  <1>13. Cardinality(S) >= MaxPacketsQueued
    BY <1>1, <1>11, <1>12
  <1> QED
    BY <1>13 DEF S

\* The initial state.
LEMMA ReceiveInit == ASSUME Init PROVE ReceiveInv
  <1>1. /\ sent = <<>> /\ wire = <<>> /\ buffer = <<>> /\ outPtr = 0 /\ state = "receive" /\ handled = 0
        /\ reason = "none"
    BY DEF Init
  <1>2. ReceiveTypes /\ Handling /\ RoomForQueued
    BY <1>1 DEF ReceiveTypes, Handling, RoomForQueued
  <1>3. WithinBuffer
    <2>1. PICK z \in Nat : z = MaxPacketSize * MaxPacketsQueued
      BY ReceiveAssumption
    <2> QED
      BY <1>1, <2>1, ReceiveAssumption DEF WithinBuffer, BufferSize
  <1>4. PICK st : st = [n \in 1..1 |-> 0]
    OBVIOUS
  <1>5. Len(sent) = 0 /\ Len(buffer) = 0 /\ Len(wire) = 0
    BY <1>1
  <1>6. Starts(sent, st) /\ Placed(st)
    BY <1>1, <1>4, <1>5 DEF Starts, Placed
  <1>7. Spans(sent, st)
    <2> SUFFICES ASSUME NEW m \in 1..1, NEW n \in 1..1 PROVE st[n] <= st[m] + (n - m) * MaxPacketSize
      BY <1>5 DEF Spans
    <2>1. m = 1 /\ n = 1 /\ st[m] = 0 /\ st[n] = 0
      BY <1>4
    <2>2. (1 - 1) * MaxPacketSize = 0
      BY ReceiveAssumption
    <2> QED
      BY <2>1, <2>2
  <1> QED
    BY <1>2, <1>3, <1>6, <1>7 DEF ReceiveInv

\* A packet of the broker lengthens the stream.
LEMMA SendStep == ASSUME ReceiveInv, NEW k \in Kinds, BrokerSends(k) PROVE ReceiveInv'
  <1>1. /\ sent' = Append(sent, k) /\ wire' = wire \o Bytes(k, Len(sent) + 1)
        /\ state \in {"receive", "handle"} /\ UNCHANGED <<buffer, outPtr, state, reason, handled>>
    BY DEF BrokerSends
  <1>2. PICK st : Starts(sent, st) /\ Spans(sent, st) /\ Placed(st)
    BY <1>1 DEF ReceiveInv
  <1>3. PICK N \in Nat, L \in Nat, W \in Nat, x \in Nat :
            N = Len(sent) /\ L = Len(buffer) /\ W = Len(wire) /\ x = Size(k)
    <2>1. Len(sent) \in Nat /\ Len(buffer) \in Nat /\ Len(wire) \in Nat /\ Size(k) \in Nat
      BY SizeFacts DEF ReceiveInv, ReceiveTypes
    <2> QED
      BY <2>1, Zenon
  <1>4. /\ sent \in Seq(Kinds) /\ wire \in Seq(Byte) /\ buffer \in Seq(Byte) /\ handled \in 0..N
    BY <1>3 DEF ReceiveInv, ReceiveTypes
  <1>5. /\ sent' \in Seq(Kinds) /\ Len(sent') = N + 1 /\ (\A n \in 1..N : sent'[n] = sent[n])
        /\ sent'[N + 1] = k
    BY <1>1, <1>3, <1>4, AppendProperties
  <1>6. PICK su : /\ Starts(sent', su) /\ Spans(sent', su)
                  /\ \A n \in 1..(Len(sent) + 1) : su[n] = st[n]
                  /\ su[Len(sent) + 2] = st[Len(sent) + 1] + Size(k)
    BY <1>1, <1>2, <1>4, StartsAppend
  <1>7. PICK t : t = Bytes(k, N + 1)
    OBVIOUS
  <1>8. /\ t \in Seq(Byte) /\ Len(t) = x
        /\ \A j \in 1..x : t[j] \in Byte /\ t[j].pkt = N + 1 /\ t[j].off = j - 1
    <2>1. t = [j \in 1..x |-> [pkt |-> N + 1, off |-> j - 1]]
      BY <1>3, <1>7 DEF Bytes
    <2>2. \A j \in 1..x : [pkt |-> N + 1, off |-> j - 1] \in Byte
      BY <1>3 DEF Byte
    <2>3. t \in [1..x -> Byte]
      BY <2>1, <2>2
    <2>4. t \in Seq(Byte) /\ Len(t) = x
      BY <1>3, <2>3
    <2>5. \A j \in 1..x : t[j] = [pkt |-> N + 1, off |-> j - 1]
      BY <2>1
    <2> QED
      BY <2>2, <2>4, <2>5
  <1>9. /\ wire' \in Seq(Byte) /\ Len(wire') = W + x
        /\ \A i \in 1..(W + x) : wire'[i] = IF i <= W THEN wire[i] ELSE t[i - W]
    <2>1. wire' = wire \o t
      BY <1>1, <1>3, <1>7, Zenon
    <2>2. PICK c : c = wire \o t
      OBVIOUS
    <2>3. /\ c \in Seq(Byte) /\ Len(c) = Len(wire) + Len(t)
          /\ \A i \in 1..(Len(wire) + Len(t)) : c[i] = IF i <= Len(wire) THEN wire[i] ELSE t[i - Len(wire)]
      BY <1>4, <1>8, <2>2, ConcatProperties
    <2> QED
      BY <1>3, <1>8, <2>1, <2>2, <2>3, Zenon
  <1>10. st[N + 1] = L + W /\ st[handled + 1] = 0
    BY <1>2, <1>3 DEF Placed
  <1>11. su[handled + 1] = 0 /\ su[N + 2] = L + (W + x) /\ su[N + 1] = L + W
    <2>1. handled + 1 \in 1..(N + 1) /\ N + 1 \in 1..(N + 1)
      BY <1>3, <1>4
    <2>2. su[handled + 1] = st[handled + 1] /\ su[N + 1] = st[N + 1] /\ su[N + 2] = st[N + 1] + x
      BY <1>3, <1>6, <2>1
    <2>3. su[N + 2] = (L + W) + x
      BY <1>10, <2>2
    <2> QED
      BY <1>10, <2>2, <2>3
  <1>12. \A i \in 1..L : At(sent', su, buffer[i], i)
    BY <1>1, <1>2, <1>3, <1>4, <1>6, AtAppend DEF Placed
  <1>13. ASSUME NEW i \in 1..(W + x) PROVE At(sent', su, wire'[i], L + i)
    <2>1. CASE i \in 1..W
      <3>1. At(sent, st, wire[i], L + i)
        BY <1>2, <1>3, <2>1, Zenon DEF Placed
      <3>2. wire'[i] = wire[i]
        <4>1. i <= W
          BY <1>3, <2>1
        <4> QED
          BY <1>9, <4>1
      <3> QED
        BY <1>1, <1>4, <1>6, <3>1, <3>2, AtAppend
    <2>2. CASE i \notin 1..W
      <3>1. PICK j \in 1..x : j = i - W
        <4>1. i - W \in 1..x
          BY <1>3, <2>2
        <4> QED
          BY <4>1
      <3>2. wire'[i] = t[j]
        BY <1>3, <1>9, <2>2, <3>1
      <3>3. t[j].pkt = N + 1 /\ t[j].off = j - 1
        BY <1>8
      <3>4. N + 1 \in 1..Len(sent') /\ Size(sent'[N + 1]) = x /\ j - 1 < x /\ L + i = su[N + 1] + (j - 1) + 1
        BY <1>3, <1>5, <1>11, <3>1, SMTT(30)
      <3> QED
        BY <3>2, <3>3, <3>4 DEF At
    <2> QED
      BY <2>1, <2>2
  <1>14. Placed(su)'
    <2>1. Len(sent') + 1 = N + 2 /\ Len(buffer') = L /\ handled' = handled /\ buffer' = buffer
      BY <1>1, <1>3, <1>5
    <2> QED
      BY <1>9, <1>11, <1>12, <1>13, <2>1 DEF Placed
  <1>15. ReceiveTypes'
    <2>1. handled' \in 0..Len(sent')
      BY <1>1, <1>3, <1>4, <1>5
    <2> QED
      BY <1>1, <1>5, <1>9, <2>1 DEF ReceiveInv, ReceiveTypes
  <1>16. Handling'
    <2>1. ASSUME state = "handle" PROVE sent'[buffer[1].pkt] = sent[buffer[1].pkt]
      <3>1. buffer # <<>>
        BY <2>1 DEF ReceiveInv, Handling, PacketComplete
      <3>2. 1 \in 1..Len(buffer)
        BY <1>4, <3>1, EmptySeq
      <3>3. At(sent, st, buffer[1], 1)
        BY <1>2, <3>2 DEF Placed
      <3> QED
        BY <1>3, <1>5, <3>3 DEF At
    <2> QED
      BY <1>1, <2>1 DEF ReceiveInv, Handling, PacketComplete, Front
  <1>17. WithinBuffer' /\ RoomForQueued'
    BY <1>1 DEF ReceiveInv, WithinBuffer, RoomForQueued
  <1> QED
    BY <1>1, <1>6, <1>14, <1>15, <1>16, <1>17 DEF ReceiveInv

\* Receive takes bytes from the socket: the places stay.
LEMMA ReceiveStep == ASSUME ReceiveInv, Receive PROVE ReceiveInv'
  <1>0. PICK n \in 0..FrameSize :
          \E c :
            /\ c = buffer \o SubSeq(wire, 1, n) /\ n <= Len(wire) /\ buffer' = c
            /\ outPtr' = IF PacketComplete(c) THEN Front(c).head ELSE outPtr
            /\ \/ Close("InvalidPacket")
               \/ /\ state' = IF PacketComplete(c) THEN "handle" ELSE "receive"
                  /\ wire' = SubSeq(wire, n + 1, Len(wire)) /\ UNCHANGED reason
    BY DEF Receive
  <1>1. PICK b :
            /\ b = buffer \o SubSeq(wire, 1, n) /\ n <= Len(wire) /\ buffer' = b
            /\ outPtr' = IF PacketComplete(b) THEN Front(b).head ELSE outPtr
            /\ \/ Close("InvalidPacket")
               \/ /\ state' = IF PacketComplete(b) THEN "handle" ELSE "receive"
                  /\ wire' = SubSeq(wire, n + 1, Len(wire)) /\ UNCHANGED reason
    BY <1>0
  <1>2. state = "receive" /\ RoomLeft /\ UNCHANGED <<sent, handled>>
    BY DEF Receive
  <1>3. PICK st : Starts(sent, st) /\ Spans(sent, st) /\ Placed(st)
    BY <1>2 DEF ReceiveInv
  <1>4. PICK L \in Nat, W \in Nat, F \in Nat : L = Len(buffer) /\ W = Len(wire) /\ F = FrameSize
    <2>1. Len(buffer) \in Nat /\ Len(wire) \in Nat /\ FrameSize \in Nat
      BY ReceiveAssumption DEF ReceiveInv, ReceiveTypes
    <2> QED
      BY <2>1, Zenon
  <1>5. n \in Nat /\ n <= W /\ n <= F
    BY <1>1, <1>4
  <1>6. wire \in Seq(Byte) /\ buffer \in Seq(Byte) /\ \A i \in 1..W : wire[i] \in Byte
    BY <1>4 DEF ReceiveInv, ReceiveTypes
  <1>7. PICK t, r : t = SubSeq(wire, 1, n) /\ r = SubSeq(wire, n + 1, W)
    OBVIOUS
  <1>8. t \in Seq(Byte) /\ Len(t) = n /\ \A i \in 1..n : t[i] = wire[i]
    <2>1. \A i \in 1..n : wire[i] \in Byte
      BY <1>4, <1>5, <1>6
    <2>2. t \in Seq(Byte) /\ Len(t) = (IF 1 <= n THEN n - 1 + 1 ELSE 0) /\ \A i \in 1..(n - 1 + 1) : t[i] = wire[1 + i - 1]
      BY <1>5, <1>7, <2>1, SubSeqProperties
    <2> QED
      BY <1>5, <2>2
  <1>9. r \in Seq(Byte) /\ Len(r) = W - n /\ \A i \in 1..(W - n) : r[i] = wire[n + i]
    <2>1. \A i \in (n + 1)..W : wire[i] \in Byte
      BY <1>4, <1>5, <1>6
    <2>2. /\ r \in Seq(Byte) /\ Len(r) = (IF n + 1 <= W THEN W - (n + 1) + 1 ELSE 0)
          /\ \A i \in 1..(W - (n + 1) + 1) : r[i] = wire[(n + 1) + i - 1]
      BY <1>4, <1>5, <1>7, <2>1, SubSeqProperties
    <2>3. W - (n + 1) + 1 = W - n /\ \A i \in 1..(W - n) : (n + 1) + i - 1 = n + i
      BY <1>4, <1>5
    <2> QED
      BY <1>4, <1>5, <2>2, <2>3
  <1>10. b \in Seq(Byte) /\ Len(b) = L + n /\ \A i \in 1..(L + n) : b[i] = IF i <= L THEN buffer[i] ELSE t[i - L]
    BY <1>1, <1>4, <1>6, <1>7, <1>8, ConcatProperties
  <1>11. ASSUME NEW i \in 1..(L + n) PROVE At(sent, st, b[i], i)
    <2>1. CASE i <= L
      <3>1. i \in 1..L /\ b[i] = buffer[i]
        BY <1>4, <1>5, <1>10, <2>1
      <3> QED
        BY <1>3, <1>4, <3>1 DEF Placed
    <2>2. CASE ~(i <= L)
      <3>1. PICK j \in 1..n : j = i - L
        BY <1>4, <1>5, <2>2
      <3>2. b[i] = wire[j] /\ j \in 1..W /\ i = L + j
        BY <1>4, <1>5, <1>8, <1>10, <2>2, <3>1
      <3> QED
        BY <1>3, <1>4, <3>2 DEF Placed
    <2> QED
      BY <2>1, <2>2
  <1>12. ASSUME PacketComplete(b) PROVE Front(b) \in Kinds
    <2>1. b # <<>> /\ 1 \in 1..(L + n)
      BY <1>10, <1>12, EmptySeq DEF PacketComplete
    <2>2. At(sent, st, b[1], 1) /\ st[handled + 1] = 0 /\ ReceiveTypes
      BY <1>3, <1>11, <2>1 DEF Placed, ReceiveInv
    <2> QED
      BY <1>3, <1>10, <2>1, <2>2, FrontFacts
  <1>13. outPtr' \in Nat
    BY <1>1, <1>12, SizeFacts DEF ReceiveInv, ReceiveTypes
  <1>14. WithinBuffer'
    <2>1. PICK z \in Nat : z = MaxPacketSize * MaxPacketsQueued
      BY ReceiveAssumption
    <2>2. BufferSize = z + F
      BY <1>4, <2>1 DEF BufferSize
    <2> QED
      BY <1>1, <1>2, <1>4, <1>5, <1>10, <2>1, <2>2 DEF RoomLeft, WithinBuffer
  <1>15. CASE Close("InvalidPacket")
    <2>1. state' = "closed" /\ wire' = <<>> /\ reason' = "InvalidPacket"
      BY <1>15 DEF Close
    <2>2. ReceiveTypes' /\ Handling' /\ RoomForQueued'
      BY <1>1, <1>2, <1>10, <1>13, <2>1 DEF ReceiveInv, ReceiveTypes, Handling, RoomForQueued
    <2> QED
      BY <1>2, <1>3, <1>14, <2>1, <2>2 DEF ReceiveInv
  <1>16. CASE /\ state' = IF PacketComplete(b) THEN "handle" ELSE "receive"
              /\ wire' = SubSeq(wire, n + 1, Len(wire)) /\ UNCHANGED reason
    <2>1. wire' = r
      BY <1>4, <1>7, <1>16
    <2>2. ReceiveTypes' /\ RoomForQueued'
      BY <1>1, <1>2, <1>9, <1>10, <1>13, <1>16, <2>1 DEF ReceiveInv, ReceiveTypes, RoomForQueued
    <2>3. Handling'
      BY <1>1, <1>2, <1>16 DEF Handling, PacketComplete, Front
    <2>4. Placed(st)'
      <3>1. ASSUME NEW i \in 1..(W - n) PROVE At(sent, st, r[i], (L + n) + i)
        <4>1. n + i \in 1..W /\ r[i] = wire[n + i] /\ L + (n + i) = (L + n) + i
          BY <1>4, <1>5, <1>9
        <4>2. At(sent, st, wire[n + i], L + (n + i))
          BY <1>3, <1>4, <4>1 DEF Placed
        <4> QED
          BY <4>1, <4>2
      <3>2. st[handled + 1] = 0 /\ st[Len(sent) + 1] = (L + n) + (W - n)
        <4>1. st[handled + 1] = 0 /\ st[Len(sent) + 1] = L + W
          BY <1>3, <1>4, Zenon DEF Placed
        <4>2. L + W = (L + n) + (W - n)
          BY <1>4, <1>5
        <4> QED
          BY <4>1, <4>2, Zenon
      <3> QED
        BY <1>1, <1>2, <1>9, <1>10, <1>11, <2>1, <3>1, <3>2 DEF Placed
    <2> QED
      BY <1>2, <1>3, <1>14, <2>2, <2>3, <2>4 DEF ReceiveInv
  <1> QED
    BY <1>1, <1>15, <1>16

\* Receive finds no room.
LEMMA NoRoomStep == ASSUME ReceiveInv, ReceiveNoRoom PROVE ReceiveInv'
  <1>1. /\ state = "receive" /\ ~RoomLeft /\ state' = "closed" /\ wire' = <<>>
        /\ UNCHANGED <<sent, buffer, outPtr, handled>>
    BY DEF ReceiveNoRoom, Close
  <1>2. PICK st : Starts(sent, st) /\ Spans(sent, st) /\ Placed(st)
    BY <1>1 DEF ReceiveInv
  <1>3. ReceiveTypes' /\ Handling' /\ WithinBuffer'
    BY <1>1 DEF ReceiveInv, ReceiveTypes, Handling, WithinBuffer
  <1>4. RoomForQueued'
    BY <1>1, <1>2, FullFacts DEF ReceiveInv, RoomForQueued
  <1> QED
    BY <1>1, <1>2, <1>3, <1>4 DEF ReceiveInv

\* The connection is closed with what is left of the buffer, for any reason but
\* the want of memory.
LEMMA CloseStep ==
    ASSUME ReceiveInv, state' = "closed", wire' = <<>>, reason' # "InsufficientResources",
           sent' = sent, handled' \in 0..Len(sent), outPtr' \in Nat,
           buffer' \in Seq(Byte), WithinBuffer'
    PROVE  ReceiveInv'
  <1>1. PICK st : Starts(sent, st) /\ Spans(sent, st)
    BY DEF ReceiveInv
  <1>2. ReceiveTypes' /\ Handling' /\ RoomForQueued'
    BY DEF ReceiveInv, ReceiveTypes, Handling, RoomForQueued
  <1> QED
    BY <1>1, <1>2 DEF ReceiveInv

\* The peer is gone.
LEMMA DisconnectStep == ASSUME ReceiveInv, ReceiveDisconnect PROVE ReceiveInv'
  <1>1. /\ state' = "closed" /\ wire' = <<>> /\ reason' = "FromPeer"
        /\ UNCHANGED <<sent, buffer, outPtr, handled>>
    BY DEF ReceiveDisconnect, Close
  <1>2. WithinBuffer'
    BY <1>1 DEF ReceiveInv, WithinBuffer
  <1> QED
    BY <1>1, <1>2, CloseStep DEF ReceiveInv, ReceiveTypes

\* A new connection, or one that is opened from within a handler, which stops
\* the program: nothing is left of what was sent before.
LEMMA FreshStep ==
    ASSUME ReceiveInv, buffer' = <<>>, wire' = <<>>, state' \in {"receive", "halted"},
           handled' = Len(sent), sent' = sent, outPtr' \in Nat
    PROVE  ReceiveInv'
  <1>1. PICK st : Starts(sent, st) /\ Spans(sent, st)
    BY DEF ReceiveInv
  <1>2. PICK N \in Nat : N = Len(sent)
    BY DEF ReceiveInv, ReceiveTypes
  <1>3. sent \in Seq(Kinds) /\ st[N + 1] \in Int /\ N + 1 \in 1..(N + 1)
    BY <1>1, <1>2, SMTT(30) DEF ReceiveInv, ReceiveTypes, Starts
  <1>4. PICK d \in Int : d = st[N + 1]
    BY <1>3
  <1>5. PICK su : Starts(sent, su) /\ Spans(sent, su) /\ \A n \in 1..(Len(sent) + 1) : su[n] = st[n] - d
    BY <1>1, <1>3, StartsShift
  <1>6. su[N + 1] = 0
    BY <1>2, <1>3, <1>4, <1>5
  <1>7. Len(buffer') = 0 /\ Len(wire') = 0
    OBVIOUS
  <1>8. Placed(su)'
    BY <1>2, <1>6, <1>7 DEF Placed
  <1>9. ReceiveTypes' /\ Handling' /\ RoomForQueued'
    BY <1>2 DEF ReceiveInv, ReceiveTypes, Handling, RoomForQueued
  <1>10. WithinBuffer'
    <2>1. PICK z \in Nat : z = MaxPacketSize * MaxPacketsQueued
      BY ReceiveAssumption
    <2> QED
      BY <1>7, <2>1, ReceiveAssumption DEF WithinBuffer, BufferSize
  <1> QED
    BY <1>5, <1>8, <1>9, <1>10 DEF ReceiveInv

\* Complete removes exactly the packet that was handled.
LEMMA HandleStep == ASSUME ReceiveInv, OneReturnCode, Handle PROVE ReceiveInv'
  <1>1. state = "handle" /\ sent' = sent /\ PacketComplete(buffer) /\ outPtr = Front(buffer).head
    BY DEF Handle, ReceiveInv, Handling
  <1>2. PICK st : Starts(sent, st) /\ Spans(sent, st) /\ Placed(st)
    BY <1>1 DEF ReceiveInv
  <1>3. PICK N \in Nat, L \in Nat, W \in Nat, h \in Nat :
            N = Len(sent) /\ L = Len(buffer) /\ W = Len(wire) /\ h = handled
    <2>1. Len(sent) \in Nat /\ Len(buffer) \in Nat /\ Len(wire) \in Nat /\ handled \in Nat
      BY DEF ReceiveInv, ReceiveTypes
    <2> QED
      BY <2>1, Zenon
  <1>4. sent \in Seq(Kinds) /\ buffer \in Seq(Byte) /\ wire \in Seq(Byte) /\ outPtr \in Nat /\ ReceiveTypes
    BY DEF ReceiveInv, ReceiveTypes
  <1>5. buffer # <<>> /\ 1 \in 1..L /\ L >= Size(Front(buffer))
    BY <1>1, <1>3, <1>4, EmptySeq DEF PacketComplete
  <1>6. h < N /\ h + 1 \in 1..N /\ Front(buffer) = sent[h + 1] /\ Front(buffer) \in Kinds
    <2>1. At(sent, st, buffer[1], 1) /\ st[handled + 1] = 0
      BY <1>2, <1>3, <1>5 DEF Placed
    <2> QED
      BY <1>2, <1>3, <1>4, <1>5, <2>1, FrontFacts
  <1>7. PICK x \in Nat : x = Size(Front(buffer)) /\ x >= 2 /\ x <= L
    BY <1>5, <1>6, SizeFacts
  <1>8. outPtr + Consumed(Front(buffer)) = x
    <2>1. PICK k : k = Front(buffer)
      OBVIOUS
    <2>2. k.head \in Nat /\ k.rest \in Nat /\ Consumed(k) = k.rest
      BY <1>6, <2>1, SizeFacts DEF Consumed, OneReturnCode
    <2> QED
      BY <1>1, <1>7, <2>1, <2>2 DEF Size
  <1>9. ASSUME NEW b, NEW next, Complete(b, next)
        PROVE  /\ outPtr' = x /\ buffer' = SubSeq(b, x + 1, Len(b))
               /\ state' = IF Len(b) >= x THEN next ELSE "halted"
    BY <1>8, <1>9 DEF Complete
  <1>10. PICK r : r = SubSeq(buffer, x + 1, L)
    OBVIOUS
  <1>11. r \in Seq(Byte) /\ Len(r) = L - x /\ \A i \in 1..(L - x) : r[i] = buffer[x + i]
    <2>1. \A i \in (x + 1)..L : buffer[i] \in Byte
      BY <1>3, <1>4, <1>7
    <2>2. /\ r \in Seq(Byte) /\ Len(r) = (IF x + 1 <= L THEN L - (x + 1) + 1 ELSE 0)
          /\ \A i \in 1..(L - (x + 1) + 1) : r[i] = buffer[(x + 1) + i - 1]
      BY <1>3, <1>7, <1>10, <2>1, SubSeqProperties, SMTT(30)
    <2>3. L - (x + 1) + 1 = L - x /\ \A i \in 1..(L - x) : (x + 1) + i - 1 = x + i
      BY <1>3, <1>7
    <2>4. Len(r) = L - x
      <3>1. x \in Int /\ L \in Int /\ x <= L
        BY <1>7
      <3> QED
        BY <2>2, <3>1
    <2>5. \A i \in 1..(L - x) : r[i] = buffer[x + i]
      BY <2>2, <2>3
    <2> QED
      BY <2>2, <2>4, <2>5
  <1>12. ASSUME buffer' = r PROVE WithinBuffer'
    <2>1. PICK z \in Nat, F \in Nat : z = MaxPacketSize * MaxPacketsQueued /\ F = FrameSize
      BY ReceiveAssumption
    <2>2. BufferSize = z + F
      BY <2>1 DEF BufferSize
    <2> QED
      BY <1>3, <1>7, <1>11, <1>12, <2>1, <2>2 DEF ReceiveInv, WithinBuffer
  <1>13. CASE Handled
    <2>0. Complete(buffer, "receive") /\ handled' = handled + 1 /\ UNCHANGED <<wire, reason>>
      BY <1>13 DEF Handled
    <2>1. buffer' = r /\ outPtr' = x /\ state' = "receive"
      BY <1>3, <1>7, <1>9, <1>10, <2>0
    <2>2. PICK su : Starts(sent, su) /\ Spans(sent, su) /\ \A n \in 1..(Len(sent) + 1) : su[n] = st[n] - x
      <3>1. x \in Int
        OBVIOUS
      <3> QED
        BY <1>2, <1>4, <3>1, StartsShift
    <2>3. /\ st[h + 1] = 0 /\ st[N + 1] = L + W
      BY <1>2, <1>3 DEF Placed
    <2>4. st[(h + 1) + 1] = x
      <3>1. st[(h + 1) + 1] = st[h + 1] + Size(sent[h + 1])
        BY <1>2, <1>3, <1>4, <1>6, StartFacts
      <3> QED
        BY <1>6, <1>7, <2>3, <3>1
    <2>5. su[(h + 1) + 1] = 0 /\ su[N + 1] = (L - x) + W
      <3>1. (h + 1) + 1 \in 1..(N + 1) /\ N + 1 \in 1..(N + 1)
        BY <1>6
      <3>2. su[(h + 1) + 1] = x - x /\ su[N + 1] = (L + W) - x
        BY <1>3, <2>2, <2>3, <2>4, <3>1
      <3> QED
        BY <3>2
    <2>6. ASSUME NEW i \in 1..(L - x) PROVE At(sent, su, r[i], i)
      <3>1. x + i \in 1..L /\ r[i] = buffer[x + i] /\ (x + i) - x = i /\ x + i \in Int /\ x \in Int
        BY <1>7, <1>11
      <3>2. At(sent, st, buffer[x + i], x + i) /\ buffer[x + i] \in Byte
        BY <1>2, <1>3, <1>4, <3>1 DEF Placed
      <3>3. At(sent, su, buffer[x + i], (x + i) - x)
        BY <1>2, <1>4, <2>2, <3>1, <3>2, AtShift
      <3> QED
        BY <3>1, <3>3
    <2>7. ASSUME NEW i \in 1..W PROVE At(sent, su, wire[i], (L - x) + i)
      <3>1. L + i \in Int /\ (L + i) - x = (L - x) + i /\ x \in Int
        OBVIOUS
      <3>2. At(sent, st, wire[i], L + i) /\ wire[i] \in Byte
        BY <1>2, <1>3, <1>4 DEF Placed
      <3>3. At(sent, su, wire[i], (L + i) - x)
        BY <1>2, <1>4, <2>2, <3>1, <3>2, AtShift
      <3> QED
        BY <3>1, <3>3
    <2>8. Placed(su)'
      <3>1. sent' = sent /\ wire' = wire /\ buffer' = r /\ Len(r) = L - x /\ handled' = h + 1
        BY <1>1, <1>3, <1>11, <2>0, <2>1
      <3> QED
        BY <1>3, <2>5, <2>6, <2>7, <3>1 DEF Placed
    <2>9. ReceiveTypes'
      <3>1. handled' \in 0..Len(sent)
        BY <1>3, <1>6, <2>0
      <3> QED
        BY <1>1, <1>4, <1>11, <2>0, <2>1, <3>1 DEF ReceiveTypes
    <2>10. Handling' /\ RoomForQueued'
      BY <2>1 DEF Handling, RoomForQueued
    <2> QED
      BY <1>1, <1>12, <2>1, <2>2, <2>8, <2>9, <2>10 DEF ReceiveInv
  <1>14. ASSUME NEW why \in {"SendFailed", "PacketIdentifier", "FromApplication"}, HandledAndClosed(why)
         PROVE  ReceiveInv'
    <2>1. /\ buffer' = r /\ outPtr' = x /\ state' = "closed" /\ wire' = <<>>
          /\ reason' # "InsufficientResources" /\ handled' = handled + 1
      BY <1>3, <1>7, <1>9, <1>10, <1>14 DEF HandledAndClosed
    <2>2. handled' \in 0..Len(sent)
      BY <1>3, <1>6, <2>1
    <2> QED
      BY <1>1, <1>11, <1>12, <2>1, <2>2, CloseStep
  <1>15. CASE PublishRefused
    <2>1. /\ state' = "closed" /\ wire' = <<>> /\ reason' # "InsufficientResources"
          /\ UNCHANGED <<buffer, outPtr, handled>>
      BY <1>15 DEF PublishRefused, Close
    <2>2. WithinBuffer' /\ handled' \in 0..Len(sent)
      BY <2>1 DEF ReceiveInv, WithinBuffer, ReceiveTypes
    <2> QED
      BY <1>1, <1>4, <2>1, <2>2, CloseStep
  <1>16. CASE ReconnectFromHandler
    <2>1. Complete(<<>>, "receive") /\ wire' = <<>> /\ handled' = Len(sent)
      BY <1>16 DEF ReconnectFromHandler
    <2>2. outPtr' = x /\ buffer' = SubSeq(<<>>, x + 1, 0) /\ state' = "halted"
      BY <1>7, <1>9, <2>1
    <2>3. buffer' = <<>>
      BY <1>7, <2>2, SubSeqEmpty
    <2> QED
      BY <1>1, <2>1, <2>2, <2>3, FreshStep
  <1> QED
    BY <1>13, <1>14, <1>15, <1>16 DEF Handle

\* Every step keeps the invariant.
LEMMA ReceiveNext == ASSUME ReceiveInv, OneReturnCode, [Next]_vars PROVE ReceiveInv'
  <1>1. CASE Reconnect
    <2>1. /\ buffer' = <<>> /\ wire' = wire /\ state = "closed" /\ state' = "receive" /\ handled' = Len(sent)
          /\ sent' = sent /\ outPtr' = outPtr
      BY <1>1 DEF Reconnect
    <2>2. wire = <<>> /\ outPtr \in Nat
      BY <2>1 DEF ReceiveInv, Handling, ReceiveTypes
    <2> QED
      BY <2>1, <2>2, FreshStep
  <1>2. CASE UNCHANGED vars
    <2>1. PICK st : Starts(sent, st) /\ Spans(sent, st) /\ (state \in {"receive", "handle"} => Placed(st))
      BY DEF ReceiveInv
    <2>2. Starts(sent', st) /\ Spans(sent', st) /\ (state' \in {"receive", "handle"} => Placed(st)')
      BY <1>2, <2>1 DEF vars, Placed
    <2>3. ReceiveTypes' /\ Handling' /\ WithinBuffer' /\ RoomForQueued'
      BY <1>2 DEF vars, ReceiveInv, ReceiveTypes, Handling, WithinBuffer, RoomForQueued, PacketComplete, Front
    <2> QED
      BY <2>2, <2>3 DEF ReceiveInv
  <1> QED
    BY <1>1, <1>2, SendStep, ReceiveStep, DisconnectStep, NoRoomStep, HandleStep DEF Next, Halted

\* However the socket cuts the stream, the buffer, the stream behind it and the
\* packets not handled yet fit together (mqttreceivepacket.cpp:40-118).
THEOREM ReceiveInvariant == ASSUME OneReturnCode PROVE Spec => []ReceiveInv
  <1>1. Init => ReceiveInv
    BY ReceiveInit
  <1>2. ReceiveInv /\ [Next]_vars => ReceiveInv'
    BY ReceiveNext
  <1> QED
    BY <1>1, <1>2, PTL DEF Spec

\* The front of the buffer is always the first byte of a packet, the first that
\* was not handled, for all sizes of packets, frames and the buffer, also on a
\* connection that follows one that ended with bytes in the buffer.
THEOREM StreamInStep == ASSUME OneReturnCode PROVE Spec => []InStep
  <1>1. ReceiveInv => InStep
    <2> SUFFICES ASSUME ReceiveInv, state \in {"receive", "handle"}, buffer # <<>>
                 PROVE  buffer[1] = [pkt |-> handled + 1, off |-> 0]
      BY DEF InStep
    <2>1. PICK st : Starts(sent, st) /\ Placed(st)
      BY DEF ReceiveInv
    <2>2. buffer \in Seq(Byte) /\ ReceiveTypes /\ 1 \in 1..Len(buffer)
      BY EmptySeq DEF ReceiveInv, ReceiveTypes
    <2>3. At(sent, st, buffer[1], 1) /\ st[handled + 1] = 0
      BY <2>1, <2>2 DEF Placed
    <2> QED
      BY <2>1, <2>2, <2>3, FrontFacts
  <1> QED
    BY <1>1, ReceiveInvariant, PTL

\* Receiving is given up for want of memory only with nMaxPacketsQueued whole
\* packets in the buffer, as mqttclient.h:86-87 promises.
THEOREM QueuedPacketsFit == ASSUME OneReturnCode PROVE Spec => []RoomForQueued
  <1>1. ReceiveInv => RoomForQueued
    BY DEF ReceiveInv
  <1> QED
    BY <1>1, ReceiveInvariant, PTL

\* Receive writes no byte behind m_pBuffer (mqttreceivepacket.cpp:67-81).
THEOREM BufferNotOverrun == ASSUME OneReturnCode PROVE Spec => []WithinBuffer
  <1>1. ReceiveInv => WithinBuffer
    BY DEF ReceiveInv
  <1> QED
    BY <1>1, ReceiveInvariant, PTL
==============================================================================
