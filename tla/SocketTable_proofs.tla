-------------------------- MODULE SocketTable_proofs --------------------------
(***************************************************************************)
(* Proofs about SocketTable for every number of contexts, addresses, slots *)
(* and bytes: a context reaches its own socket, and a connection's bytes   *)
(* arrive in order.                                                        *)
(***************************************************************************)
EXTENDS SocketTable, SequenceTheorems, WellFoundedInduction, TLAPS

Slot == Addrs \cup {Null}

\* A set of positions that is not empty has a least element.
LEMMA MinOfPositions ==
    ASSUME NEW S \in SUBSET Nat, S # {}
    PROVE  Min(S) \in S /\ \A y \in S : Min(S) <= y
  <1> DEFINE R == {ss \in Nat \X Nat : ss[1] < ss[2]}
  <1>0. IsWellFoundedOn(R, Nat)
    BY NatLessThanWellFounded, Zenon DEF OpToRel
  <1>1. PICK x \in S : \A y \in S : ~(<<y, x>> \in R)
    <2> HIDE DEF R
    <2> QED
      BY <1>0, WFMin, Zenon
  <1>2. ASSUME NEW y \in S PROVE x <= y
    <2>1. x \in Nat /\ y \in Nat
      OBVIOUS
    <2>2. y < x => <<y, x>> \in R
      BY <2>1
    <2> QED
      BY <1>1, <2>1, <2>2
  <1> QED
    BY <1>2, Zenon DEF Min

\* What the search of AddSocket finds: a free slot, or 0 if there is none.
LEMMA FirstFreeSlot ==
    ASSUME NEW array \in Seq(Slot)
    PROVE  /\ FirstFree(array) \in 0..Len(array)
           /\ FirstFree(array) > 0 => array[FirstFree(array)] = Null
  <1> DEFINE I == {i \in 1..Len(array) : array[i] = Null}
  <1>1. FirstFree(array) = IF I # {} THEN Min(I) ELSE 0
    BY Zenon DEF FirstFree, SelectInSeq
  <1>2. CASE I = {}
    BY <1>1, <1>2
  <1>3. CASE I # {}
    <2>1. I \in SUBSET Nat
      OBVIOUS
    <2>2. Min(I) \in I
      BY <1>3, <2>1, MinOfPositions, Zenon
    <2> QED
      BY <1>1, <1>3, <2>2
  <1> QED
    BY <1>2, <1>3

\* AddSocket puts the socket into a slot that was free or did not exist, whose
\* handle is AddedAt, and leaves every other slot alone.
LEMMA AddSocketProperties ==
    ASSUME NEW array \in Seq(Slot), NEW a \in Addrs
    PROVE  LET n == AddedAt(array)
           IN  /\ AddSocket(array, a) \in Seq(Slot)
               /\ n \in 0..(Len(AddSocket(array, a)) - 1)
               /\ Len(AddSocket(array, a)) >= Len(array)
               /\ n < Len(array) => array[n + 1] = Null
               /\ AddSocket(array, a)[n + 1] = a
               /\ \A i \in 1..Len(array) : i # n + 1 => AddSocket(array, a)[i] = array[i]
  <1>1. CASE FirstFree(array) = 0
    BY <1>1, AppendProperties DEF AddedAt, AddSocket, Slot
  <1>2. CASE FirstFree(array) # 0
    <2>1. FirstFree(array) \in 1..Len(array) /\ array[FirstFree(array)] = Null
      BY <1>2, FirstFreeSlot
    <2>2. a \in Slot
      BY DEF Slot
    <2>3. /\ AddSocket(array, a) \in Seq(Slot)
          /\ Len(AddSocket(array, a)) = Len(array)
          /\ \A j \in 1..Len(array) :
                AddSocket(array, a)[j] = IF j = FirstFree(array) THEN a ELSE array[j]
      BY <1>2, <2>1, <2>2, ExceptSeq DEF AddSocket
    <2>4. AddedAt(array) = FirstFree(array) - 1
      BY <1>2 DEF AddedAt
    <2> QED
      BY <2>1, <2>3, <2>4
  <1> QED
    BY <1>1, <1>2

------------------------------------------------------------------------------
(* The invariant of the table.                                             *)

\* Every existing socket is in the slot of its own handle: what the
\* destructor clears is the socket's.
OwnSlot ==
    \A a \in Live : m_nHandle[a] >= 0 /\ s_SocketArray[m_nHandle[a] + 1] = a

\* ContextHasItsSocket is not inductive: the delete of one socket must not
\* clear the slot another context uses, which OwnSlot shows.
TableInv ==
    /\ s_SocketArray \in Seq(Slot)
    /\ live \in [Addrs -> {"none", "open", "listen", "failed"}]
    /\ m_nHandle \in [Addrs -> -1..(Len(s_SocketArray) - 1)]
    /\ fd \in [Contexts -> -1..(Len(s_SocketArray) - 1)]
    /\ Len(s_SocketArray) <= MaxSlots
    /\ OwnSlot
    /\ ContextHasItsSocket

\* A socket under a handle of the table is in a slot.
LEMMA GetSlot ==
    ASSUME TableInv, NEW c \in Contexts
    PROVE  /\ Get(fd[c]) \in Live \cup {Null}
           /\ fd[c] >= 0 => Get(fd[c]) \in Live /\ Get(fd[c]) \in Addrs
           /\ fd[c] < 0 => Get(fd[c]) = Null
  BY DEF TableInv, Get, ContextHasItsSocket, Slot, Live

\* A new socket a, registered once more under the handle n, and the context c
\* that gets the handle n, keep the invariant of the table.
LEMMA NewSocketStep ==
    ASSUME TableInv, NEW c \in Contexts, NEW a \in Addrs,
           NEW state \in {"open", "listen", "failed"},
           live[a] = "none", fd[c] = -1,
           live' = [live EXCEPT ![a] = state],
           NEW h \in Nat, m_nHandle' = [m_nHandle EXCEPT ![a] = h],
           NEW n \in Nat, fd' = [fd EXCEPT ![c] = n],
           s_SocketArray' \in Seq(Slot),
           h < Len(s_SocketArray'), n < Len(s_SocketArray'),
           Len(s_SocketArray) <= Len(s_SocketArray'), Len(s_SocketArray') <= MaxSlots,
           s_SocketArray'[h + 1] = a, s_SocketArray'[n + 1] = a,
           \A i \in 1..Len(s_SocketArray) :
              s_SocketArray[i] # Null => s_SocketArray'[i] = s_SocketArray[i]
    PROVE  TableInv'
  <1> USE TableAssumption
  <1>1. Len(s_SocketArray) \in Nat /\ Len(s_SocketArray') \in Nat
    BY DEF TableInv
  <1>2. /\ live' \in [Addrs -> {"none", "open", "listen", "failed"}]
        /\ m_nHandle' \in [Addrs -> -1..(Len(s_SocketArray') - 1)]
        /\ fd' \in [Contexts -> -1..(Len(s_SocketArray') - 1)]
    BY <1>1 DEF TableInv
  <1>3. Live' = Live \cup {a} /\ a \notin Live
    BY DEF TableInv, Live
  <1>4. OwnSlot'
    <2> SUFFICES ASSUME NEW b \in Live'
                 PROVE  m_nHandle'[b] >= 0 /\ s_SocketArray'[m_nHandle'[b] + 1] = b
      BY DEF OwnSlot
    <2>1. CASE b = a
      BY <2>1 DEF TableInv
    <2>2. CASE b # a
      <3>1. b \in Live /\ b \in Addrs /\ b # Null /\ m_nHandle'[b] = m_nHandle[b]
        BY <2>2, <1>3 DEF TableInv, Live
      <3>2. m_nHandle[b] \in 0..(Len(s_SocketArray) - 1) /\ s_SocketArray[m_nHandle[b] + 1] = b
        BY <3>1, <1>1 DEF TableInv, OwnSlot
      <3>3. m_nHandle[b] + 1 \in 1..Len(s_SocketArray)
        BY <3>2, <1>1, SMTT(30)
      <3>4. s_SocketArray'[m_nHandle[b] + 1] = b
        BY <3>1, <3>2, <3>3, Zenon
      <3> QED
        BY <3>1, <3>2, <3>4
    <2> QED
      BY <2>1, <2>2
  <1>5. \A d \in Contexts : d # c => fd'[d] = fd[d] /\ Get(fd[d])' = Get(fd[d])
    <2> SUFFICES ASSUME NEW d \in Contexts, d # c PROVE fd'[d] = fd[d] /\ Get(fd[d])' = Get(fd[d])
      OBVIOUS
    <2>1. fd'[d] = fd[d]
      BY DEF TableInv
    <2>2. CASE fd[d] < 0
      BY <2>1, <2>2 DEF Get
    <2>3. CASE ~(fd[d] < 0)
      <3>1. fd[d] \in 0..(Len(s_SocketArray) - 1)
        BY <2>3, <1>1 DEF TableInv
      <3>2. s_SocketArray[fd[d] + 1] \in Addrs
        BY <3>1, GetSlot DEF Get
      <3>3. fd[d] + 1 \in 1..Len(s_SocketArray) /\ s_SocketArray[fd[d] + 1] # Null
        BY <3>1, <3>2, <1>1, SMTT(30)
      <3>4. s_SocketArray'[fd[d] + 1] = s_SocketArray[fd[d] + 1]
        BY <3>3, Zenon
      <3> QED
        BY <2>1, <2>3, <3>4, Zenon DEF Get
    <2> QED
      BY <2>2, <2>3
  <1>6. fd'[c] = n /\ Get(fd[c])' = a
    BY DEF TableInv, Get
  <1>7. ContextHasItsSocket'
    <2>1. ASSUME NEW d \in Contexts, fd'[d] >= 0 PROVE Get(fd[d])' \in Live'
      BY <2>1, <1>3, <1>5, <1>6, GetSlot
    <2>2. ASSUME NEW b \in Contexts, NEW d \in Contexts, fd'[b] >= 0, b # d
          PROVE  Get(fd[b])' # Get(fd[d])'
      <3>1. CASE b = c
        BY <3>1, <2>2, <1>3, <1>5, <1>6, GetSlot
      <3>2. CASE d = c
        BY <3>2, <2>2, <1>3, <1>5, <1>6, GetSlot
      <3>3. CASE b # c /\ d # c
        BY <3>3, <2>2, <1>5 DEF TableInv, ContextHasItsSocket
      <3> QED
        BY <3>1, <3>2, <3>3
    <2> QED
      BY <2>1, <2>2 DEF ContextHasItsSocket
  <1> QED
    BY <1>2, <1>4, <1>7 DEF TableInv

\* mbedtls_net_connect and _bind keep the invariant of the table.
LEMMA NetOpenStep ==
    ASSUME TableInv, NEW c \in Contexts, NEW a \in Addrs,
           NEW state \in {"open", "listen", "failed"}, NetOpen(c, a, state)
    PROVE  TableInv'
  <1> DEFINE n == AddedAt(s_SocketArray)
  <1>1. s_SocketArray \in Seq(Slot)
    BY DEF TableInv
  <1>2. /\ AddSocket(s_SocketArray, a) \in Seq(Slot)
        /\ n \in 0..(Len(AddSocket(s_SocketArray, a)) - 1)
        /\ Len(AddSocket(s_SocketArray, a)) >= Len(s_SocketArray)
        /\ n < Len(s_SocketArray) => s_SocketArray[n + 1] = Null
        /\ AddSocket(s_SocketArray, a)[n + 1] = a
        /\ \A i \in 1..Len(s_SocketArray) :
              i # n + 1 => AddSocket(s_SocketArray, a)[i] = s_SocketArray[i]
    BY <1>1, AddSocketProperties
  <1>3. /\ live[a] = "none" /\ fd[c] = -1
        /\ live' = [live EXCEPT ![a] = state]
        /\ m_nHandle' = [m_nHandle EXCEPT ![a] = n]
        /\ fd' = [fd EXCEPT ![c] = n]
        /\ s_SocketArray' = AddSocket(s_SocketArray, a)
        /\ Len(s_SocketArray') <= MaxSlots
    BY DEF NetOpen, NewSocket
  <1> HIDE DEF n
  <1>4. n \in Nat /\ n < Len(s_SocketArray') /\ Len(s_SocketArray) <= Len(s_SocketArray')
    BY <1>1, <1>2, <1>3
  <1>5. \A i \in 1..Len(s_SocketArray) :
           s_SocketArray[i] # Null => s_SocketArray'[i] = s_SocketArray[i]
    BY <1>1, <1>2, <1>3
  <1> QED
    BY <1>2, <1>3, <1>4, <1>5, NewSocketStep

\* mbedtls_net_accept, which registers the socket twice, keeps it.
LEMMA NetAcceptStep ==
    ASSUME TableInv, NEW b \in Contexts, NEW c \in Contexts, NEW a \in Addrs, NetAccept(b, c, a)
    PROVE  TableInv'
  <1> DEFINE once == AddSocket(s_SocketArray, a)
             h == AddedAt(s_SocketArray)
             n == AddedAt(once)
  <1>1. s_SocketArray \in Seq(Slot)
    BY DEF TableInv
  <1>2. /\ once \in Seq(Slot)
        /\ h \in 0..(Len(once) - 1)
        /\ Len(once) >= Len(s_SocketArray)
        /\ h < Len(s_SocketArray) => s_SocketArray[h + 1] = Null
        /\ once[h + 1] = a
        /\ \A i \in 1..Len(s_SocketArray) : i # h + 1 => once[i] = s_SocketArray[i]
    BY <1>1, AddSocketProperties
  <1>3. /\ live[a] = "none" /\ fd[c] = -1
        /\ live' = [live EXCEPT ![a] = "open"]
        /\ m_nHandle' = [m_nHandle EXCEPT ![a] = h]
        /\ fd' = [fd EXCEPT ![c] = n]
        /\ s_SocketArray' = AddSocket(once, a)
        /\ Len(s_SocketArray') <= MaxSlots
    BY DEF NetAccept, NewSocket
  <1> HIDE DEF once, h
  <1>4. /\ AddSocket(once, a) \in Seq(Slot)
        /\ n \in 0..(Len(AddSocket(once, a)) - 1)
        /\ Len(AddSocket(once, a)) >= Len(once)
        /\ n < Len(once) => once[n + 1] = Null
        /\ AddSocket(once, a)[n + 1] = a
        /\ \A i \in 1..Len(once) : i # n + 1 => AddSocket(once, a)[i] = once[i]
    BY <1>2, AddSocketProperties
  <1> HIDE DEF n
  <1>5. a # Null
    BY TableAssumption
  <1>6. /\ h \in Nat /\ n \in Nat /\ h < Len(s_SocketArray') /\ n < Len(s_SocketArray')
        /\ Len(s_SocketArray) <= Len(s_SocketArray')
    BY <1>1, <1>2, <1>3, <1>4
  <1>7. s_SocketArray'[h + 1] = a
    BY <1>2, <1>3, <1>4, <1>5
  <1>8. \A i \in 1..Len(s_SocketArray) :
           s_SocketArray[i] # Null => s_SocketArray'[i] = s_SocketArray[i]
    BY <1>1, <1>2, <1>3, <1>4, <1>5
  <1> QED
    BY <1>3, <1>4, <1>6, <1>7, <1>8, NewSocketStep

\* mbedtls_net_free keeps it: the slot the destructor clears is the socket's
\* own, and no other context reaches that socket.
LEMMA NetFreeStep ==
    ASSUME TableInv, NEW c \in Contexts, NetFree(c)
    PROVE  TableInv'
  <1> USE TableAssumption
  <1> DEFINE a == Get(fd[c])
  <1>1. fd' = [fd EXCEPT ![c] = -1]
    BY DEF NetFree
  <1>2. CASE a = Null
    <2>1. UNCHANGED <<s_SocketArray, live, m_nHandle>>
      BY <1>2 DEF NetFree
    <2>2. ContextHasItsSocket'
      BY <1>1, <2>1 DEF TableInv, ContextHasItsSocket, Get, Live
    <2> QED
      BY <1>1, <2>1, <2>2 DEF TableInv, OwnSlot, Live
  <1>3. CASE a # Null
    <2> DEFINE h == m_nHandle[a]
    <2>1. /\ s_SocketArray' = [s_SocketArray EXCEPT ![h + 1] = Null]
          /\ live' = [live EXCEPT ![a] = "none"]
          /\ m_nHandle' = [m_nHandle EXCEPT ![a] = -1]
      BY <1>3 DEF NetFree
    <2>2. a \in Live /\ a \in Addrs
      BY <1>3, GetSlot DEF Live
    <2>3. Live' = Live \ {a}
      BY <2>1, <2>2 DEF TableInv, Live
    <2>4. h + 1 \in 1..Len(s_SocketArray) /\ s_SocketArray[h + 1] = a
      BY <2>2 DEF TableInv, OwnSlot
    <2>5. Null \in Slot
      BY DEF Slot
    <2> HIDE DEF a, h
    <2>6. /\ s_SocketArray' \in Seq(Slot)
          /\ Len(s_SocketArray') = Len(s_SocketArray)
          /\ \A j \in 1..Len(s_SocketArray) :
                s_SocketArray'[j] = IF j = h + 1 THEN Null ELSE s_SocketArray[j]
      BY <2>1, <2>4, <2>5, ExceptSeq DEF TableInv
    <2>7. /\ live' \in [Addrs -> {"none", "open", "listen", "failed"}]
          /\ m_nHandle' \in [Addrs -> -1..(Len(s_SocketArray') - 1)]
          /\ fd' \in [Contexts -> -1..(Len(s_SocketArray') - 1)]
      <3>1. Len(s_SocketArray) \in Nat
        BY DEF TableInv
      <3>2. live' \in [Addrs -> {"none", "open", "listen", "failed"}]
        BY <2>1 DEF TableInv
      <3>3. -1 \in -1..(Len(s_SocketArray) - 1)
        BY <3>1
      <3>4. m_nHandle' \in [Addrs -> -1..(Len(s_SocketArray) - 1)]
        BY <2>1, <3>3, Zenon DEF TableInv
      <3>5. fd' \in [Contexts -> -1..(Len(s_SocketArray) - 1)]
        BY <1>1, <3>3, Zenon DEF TableInv
      <3> QED
        BY <2>6, <3>2, <3>4, <3>5
    <2>8. \A j \in 1..Len(s_SocketArray) :
             s_SocketArray[j] # a => s_SocketArray'[j] = s_SocketArray[j]
      BY <2>4, <2>6, Zenon
    <2>9. OwnSlot'
      <3> SUFFICES ASSUME NEW b \in Live'
                   PROVE  m_nHandle'[b] >= 0 /\ s_SocketArray'[m_nHandle'[b] + 1] = b
        BY DEF OwnSlot
      <3>1. b \in Live /\ b \in Addrs /\ b # a /\ m_nHandle'[b] = m_nHandle[b]
        BY <2>1, <2>3 DEF TableInv, Live
      <3>2. m_nHandle[b] \in 0..(Len(s_SocketArray) - 1) /\ s_SocketArray[m_nHandle[b] + 1] = b
        BY <3>1 DEF TableInv, OwnSlot
      <3>3. m_nHandle[b] + 1 \in 1..Len(s_SocketArray)
        BY <3>2 DEF TableInv
      <3>4. s_SocketArray'[m_nHandle[b] + 1] = b
        BY <3>1, <3>2, <3>3, <2>8, Zenon
      <3> QED
        BY <3>1, <3>2, <3>4
    <2>10. fd'[c] = -1 /\ Get(fd[c])' = Null
      BY <1>1 DEF TableInv, Get
    <2>11. ASSUME NEW d \in Contexts, d # c
           PROVE  fd'[d] = fd[d] /\ Get(fd[d])' = Get(fd[d]) /\ Get(fd[d]) # a
      <3>1. fd'[d] = fd[d] /\ fd[d] \in Int
        BY <1>1, <2>11 DEF TableInv
      <3>2. Get(fd[d]) # a
        BY <1>3, <2>11 DEF TableInv, ContextHasItsSocket, Get, a
      <3>3. CASE fd[d] < 0
        BY <3>1, <3>2, <3>3, Zenon DEF Get
      <3>4. CASE ~(fd[d] < 0)
        <4>1. fd[d] + 1 \in 1..Len(s_SocketArray)
          BY <3>4 DEF TableInv
        <4>2. s_SocketArray'[fd[d] + 1] = s_SocketArray[fd[d] + 1]
          BY <3>2, <3>4, <4>1, <2>8, Zenon DEF Get
        <4> QED
          BY <3>1, <3>2, <3>4, <4>2, Zenon DEF Get
      <3> QED
        BY <3>1, <3>2, <3>3, <3>4
    <2>12. ContextHasItsSocket'
      <3>1. ASSUME NEW d \in Contexts, fd'[d] >= 0 PROVE Get(fd[d])' \in Live'
        <4>1. d # c
          BY <3>1, <2>10
        <4>2. Get(fd[d]) \in Live
          BY <3>1, <4>1, <2>11, GetSlot
        <4> QED
          BY <4>1, <4>2, <2>3, <2>11
      <3>2. ASSUME NEW b \in Contexts, NEW d \in Contexts, fd'[b] >= 0, b # d
            PROVE  Get(fd[b])' # Get(fd[d])'
        <4>1. b # c
          BY <3>2, <2>10
        <4>2. Get(fd[b]) \in Live /\ Get(fd[b]) \in Addrs
          BY <3>2, <4>1, <2>11, GetSlot
        <4>3. CASE d = c
          BY <4>1, <4>2, <4>3, <2>10, <2>11
        <4>4. CASE d # c
          BY <3>2, <4>1, <4>4, <2>11 DEF TableInv, ContextHasItsSocket
        <4> QED
          BY <4>3, <4>4
      <3> QED
        BY <3>1, <3>2 DEF ContextHasItsSocket
    <2> QED
      BY <2>6, <2>7, <2>9, <2>12 DEF TableInv
  <1> QED
    BY <1>2, <1>3

\* Calls that transfer data and steps of the peer do not touch the table.
LEMMA TableUnchanged ==
    ASSUME TableInv, UNCHANGED table PROVE TableInv'
  BY DEF TableInv, table, OwnSlot, ContextHasItsSocket, Get, Live

------------------------------------------------------------------------------
(* The invariant of the connections.                                       *)

Connection ==
    [block : BOOLEAN, rx : Seq(Nat), queue : Seq(Nat), sent : 0..MaxBytes, closed : BOOLEAN,
     got : Seq(Nat), eof : BOOLEAN]

\* The bytes of the connection k, as far as they have come.
Bytes(k) == k.got \o k.rx \o k.queue

\* StreamInOrder is not inductive: a byte sent after one was lost, or after the
\* program was told the end, would break it, so that a connection that is not
\* closed has lost nothing, and the end is only told when it is closed.
InOrder(k) ==
    /\ Len(Bytes(k)) <= k.sent
    /\ \A i \in 1..Len(Bytes(k)) : Bytes(k)[i] = i
    /\ ~k.closed => Len(Bytes(k)) = k.sent
    /\ k.eof => k.closed /\ k.rx = <<>> /\ k.queue = <<>>

ConnInv ==
    /\ conn \in [Addrs -> Connection]
    /\ \A a \in Addrs : InOrder(conn[a])

\* The bytes of a connection are a sequence of numbers.
LEMMA BytesType ==
    ASSUME NEW k \in Connection
    PROVE  /\ Bytes(k) \in Seq(Nat) /\ Len(Bytes(k)) = Len(k.got) + Len(k.rx) + Len(k.queue)
           /\ k.got \in Seq(Nat) /\ k.rx \in Seq(Nat) /\ k.queue \in Seq(Nat)
           /\ k.got \o k.rx \in Seq(Nat)
  <1>1. k.got \in Seq(Nat) /\ k.rx \in Seq(Nat) /\ k.queue \in Seq(Nat)
    BY DEF Connection
  <1>2. k.got \o k.rx \in Seq(Nat) /\ Len(k.got \o k.rx) = Len(k.got) + Len(k.rx)
    BY <1>1, ConcatProperties
  <1>3. Bytes(k) \in Seq(Nat) /\ Len(Bytes(k)) = Len(k.got \o k.rx) + Len(k.queue)
    BY <1>1, <1>2, ConcatProperties DEF Bytes
  <1> QED
    BY <1>1, <1>2, <1>3

\* A sequence cut in two and put together again is the same.
LEMMA CutSeq ==
    ASSUME NEW s \in Seq(Nat), NEW n \in 0..Len(s)
    PROVE  /\ SubSeq(s, 1, n) \in Seq(Nat) /\ SubSeq(s, n + 1, Len(s)) \in Seq(Nat)
           /\ SubSeq(s, 1, n) \o SubSeq(s, n + 1, Len(s)) = s
  <1>1. Len(s) \in Nat /\ 1 \in 1..(Len(s) + 1) /\ Len(s) \in n..Len(s) /\ n \in (1 - 1)..Len(s)
    OBVIOUS
  <1>2. SubSeq(s, 1, n) \in Seq(Nat)
    BY <1>1, SubSeqProperties, ElementOfSeq
  <1>3. SubSeq(s, n + 1, Len(s)) \in Seq(Nat)
    BY <1>1, SubSeqProperties, ElementOfSeq
  <1>4. SubSeq(s, 1, n) \o SubSeq(s, n + 1, Len(s)) = SubSeq(s, 1, Len(s))
    BY <1>1, ConcatAdjacentSubSeq
  <1> QED
    BY <1>2, <1>3, <1>4, SubSeqFull

\* If a sequence is put together of two, it makes no difference to what comes
\* before it which of them is appended first.
LEMMA JoinSeq ==
    ASSUME NEW s \in Seq(Nat), NEW u \in Seq(Nat), NEW v \in Seq(Nat)
    PROVE  s \o u \o v = s \o (u \o v)
  BY ConcatAssociative, SMTT(30)

\* A new connection has no bytes.
LEMMA NewConnectionInOrder == NewConnection \in Connection /\ InOrder(NewConnection)
  <1>1. NewConnection \in Connection
    BY TableAssumption, EmptySeq DEF NewConnection, Connection
  <1>2. Len(Bytes(NewConnection)) = 0
    <2>1. NewConnection.got = <<>> /\ NewConnection.rx = <<>> /\ NewConnection.queue = <<>>
      BY DEF NewConnection
    <2>2. Len(NewConnection.got) = 0 /\ Len(NewConnection.rx) = 0 /\ Len(NewConnection.queue) = 0
      BY <2>1
    <2>3. Len(Bytes(NewConnection))
             = Len(NewConnection.got) + Len(NewConnection.rx) + Len(NewConnection.queue)
      BY <1>1, BytesType, Zenon
    <2> QED
      BY <2>2, <2>3
  <1> QED
    BY <1>1, <1>2 DEF InOrder, NewConnection

\* The end of Receive() keeps the invariant: the buffer rx and the queue that
\* Take gets have the bytes of the connection between them.
LEMMA TakeStep ==
    ASSUME ConnInv, NEW a \in Addrs, NEW len \in 1..Frame,
           NEW rx \in Seq(Nat), NEW queue \in Seq(Nat),
           ~conn[a].eof,
           conn[a].got \o rx \o queue = Bytes(conn[a]),
           Take(a, len, rx, queue)
    PROVE  ConnInv'
  <1> DEFINE k == conn[a]
             n == Min({len, Len(rx)})
             u == SubSeq(rx, 1, n)
             v == SubSeq(rx, n + 1, Len(rx))
             k2 == [k EXCEPT !.rx = v, !.queue = queue, !.got = @ \o u]
  <1>1. k \in Connection /\ InOrder(k)
    BY DEF ConnInv
  <1>2. n \in 0..Len(rx)
    <2>1. {len, Len(rx)} \in SUBSET Nat /\ {len, Len(rx)} # {}
      BY LenProperties
    <2>2. n \in {len, Len(rx)} /\ n <= Len(rx)
      BY <2>1, MinOfPositions, Zenon
    <2> QED
      BY <2>1, <2>2
  <1>3. conn' = [conn EXCEPT ![a] = k2]
    BY DEF Take, ConnInv
  <1> HIDE DEF n
  <1>4. k.got \in Seq(Nat) /\ u \in Seq(Nat) /\ v \in Seq(Nat) /\ u \o v = rx
    BY <1>1, <1>2, CutSeq DEF Connection
  <1> HIDE DEF u, v
  <1>5. k.got \o u \in Seq(Nat)
    BY <1>4, ConcatProperties
  <1>6. k2 \in Connection
    BY <1>1, <1>4, <1>5 DEF Connection
  <1>7. /\ k2.sent = k.sent /\ k2.closed = k.closed /\ k2.eof = k.eof
        /\ k2.got = k.got \o u /\ k2.rx = v /\ k2.queue = queue
    BY <1>1 DEF Connection
  <1> HIDE DEF k2
  <1>8. Bytes(k2) = Bytes(k)
    <2>1. k.got \o u \o v = k.got \o rx
      BY <1>4, JoinSeq, ZenonT(60)
    <2> QED
      BY <1>7, <2>1 DEF Bytes
  <1>9. InOrder(k2)
    BY <1>1, <1>7, <1>8 DEF InOrder
  <1> QED
    BY <1>3, <1>6, <1>9 DEF ConnInv

\* Receive() and ReceiveTimeout() keep the invariant of the connections.
LEMMA ReceiveStep ==
    ASSUME ConnInv, NEW a \in Addrs, NEW len \in 1..Frame, NEW nothing, Receive(a, len, nothing)
    PROVE  ConnInv'
  <1> DEFINE k == conn[a]
  <1>1. k \in Connection /\ InOrder(k)
    BY DEF ConnInv
  <1>2. k.got \in Seq(Nat) /\ k.rx \in Seq(Nat) /\ k.queue \in Seq(Nat)
    BY <1>1 DEF Connection
  <1>3. CASE k.rx # <<>> /\ Take(a, len, k.rx, k.queue)
    <2>1. ~k.eof /\ k.got \o k.rx \o k.queue = Bytes(k)
      BY <1>1, <1>3 DEF InOrder, Bytes
    <2> QED
      BY <1>2, <1>3, <2>1, TakeStep
  <1>4. CASE /\ k.rx = <<>>
             /\ \E n \in 1..Len(k.queue) :
                  Take(a, len, SubSeq(k.queue, 1, n), SubSeq(k.queue, n + 1, Len(k.queue)))
    <2>1. PICK n \in 1..Len(k.queue) :
             Take(a, len, SubSeq(k.queue, 1, n), SubSeq(k.queue, n + 1, Len(k.queue)))
      BY <1>4
    <2> DEFINE u == SubSeq(k.queue, 1, n)
               v == SubSeq(k.queue, n + 1, Len(k.queue))
    <2>2. n \in 0..Len(k.queue) /\ k.queue # <<>>
      BY <1>2
    <2>3. u \in Seq(Nat) /\ v \in Seq(Nat) /\ u \o v = k.queue
      BY <1>2, <2>2, CutSeq, Zenon
    <2> HIDE DEF u, v
    <2>4. k.got \o u \o v = Bytes(k)
      <3>1. k.got \o <<>> = k.got
        BY <1>2, ConcatEmptySeq
      <3>2. k.got \o u \o v = k.got \o (u \o v)
        BY <1>2, <2>3, JoinSeq
      <3> QED
        BY <1>4, <2>3, <3>1, <3>2, Zenon DEF Bytes
    <2>5. ~k.eof
      BY <1>1, <2>2 DEF InOrder
    <2>6. Take(a, len, u, v)
      BY <2>1 DEF u, v
    <2> QED
      BY <2>3, <2>4, <2>5, <2>6, TakeStep
  <1>5. CASE /\ k.rx = <<>> /\ AtEnd(a)
             /\ conn' = [conn EXCEPT ![a].eof = (live[a] = "open")]
    <2> DEFINE k2 == [k EXCEPT !.eof = (live[a] = "open")]
    <2>1. conn' = [conn EXCEPT ![a] = k2]
      BY <1>5 DEF ConnInv
    <2>2. k2 \in Connection
      BY <1>1 DEF Connection
    <2>3. /\ k2.sent = k.sent /\ k2.closed = k.closed /\ k2.eof = (live[a] = "open")
          /\ k2.got = k.got /\ k2.rx = k.rx /\ k2.queue = k.queue
      BY <1>1 DEF Connection
    <2>4. Bytes(k2) = Bytes(k)
      BY <2>3, Zenon DEF Bytes
    <2> HIDE DEF k2
    <2>5. InOrder(k2)
      BY <1>1, <1>5, <2>3, <2>4 DEF InOrder, AtEnd
    <2> QED
      BY <2>1, <2>2, <2>5 DEF ConnInv
  <1>6. CASE UNCHANGED conn
    BY <1>6 DEF ConnInv
  <1> QED
    BY <1>3, <1>4, <1>5, <1>6 DEF Receive, ReturnsOnly

\* A byte the peer sends is the next one.
LEMMA PeerSendsStep ==
    ASSUME ConnInv, NEW a \in Addrs, PeerSends(a) PROVE ConnInv'
  <1> DEFINE k == conn[a]
             b == k.sent + 1
             k2 == [k EXCEPT !.sent = b, !.queue = Append(k.queue, b)]
  <1>1. k \in Connection /\ InOrder(k) /\ ~k.closed /\ k.sent < MaxBytes
    BY DEF ConnInv, PeerSends
  <1>2. /\ k.got \in Seq(Nat) /\ k.rx \in Seq(Nat) /\ k.queue \in Seq(Nat)
        /\ k.sent \in Nat /\ b \in Nat
    BY <1>1 DEF Connection
  <1>3. conn' = [conn EXCEPT ![a] = k2]
    BY DEF PeerSends, ConnInv
  <1>4. Append(k.queue, b) \in Seq(Nat) /\ b \in 0..MaxBytes
    BY <1>1, <1>2, TableAssumption, AppendProperties
  <1>5. k2 \in Connection
    BY <1>1, <1>4 DEF Connection
  <1>6. /\ k2.sent = b /\ k2.closed = k.closed /\ k2.eof = k.eof
        /\ k2.got = k.got /\ k2.rx = k.rx /\ k2.queue = Append(k.queue, b)
    BY <1>1 DEF Connection
  <1> HIDE DEF b, k2
  <1>7. Bytes(k2) = Append(Bytes(k), b)
    <2> DEFINE w == k.got \o k.rx
    <2>1. w \in Seq(Nat) /\ Bytes(k2) = w \o Append(k.queue, b) /\ Bytes(k) = w \o k.queue
      BY <1>2, <1>6, ConcatProperties DEF Bytes
    <2> HIDE DEF w
    <2>2. <<b>> \in Seq(Nat) /\ Append(k.queue, b) = k.queue \o <<b>>
      <3> DEFINE q == k.queue
      <3> HIDE DEF q
      <3>1. q \in Seq(Nat)
        BY <1>2 DEF q
      <3>2. Append(q, b) = q \o <<b>>
        BY <1>2, <3>1, AppendIsConcat, Zenon
      <3> QED
        BY <1>2, <3>2 DEF q
    <2>3. w \o (k.queue \o <<b>>) = w \o k.queue \o <<b>>
      BY <1>2, <2>1, <2>2, JoinSeq
    <2>4. w \o k.queue \o <<b>> = Append(w \o k.queue, b)
      BY <1>2, <2>1, ConcatProperties, AppendIsConcat
    <2> QED
      BY <2>1, <2>2, <2>3, <2>4
  <1>8. Bytes(k) \in Seq(Nat) /\ Len(Bytes(k)) = k.sent
    BY <1>1, BytesType DEF InOrder
  <1>9. /\ Len(Bytes(k2)) = k.sent + 1
        /\ \A i \in 1..k.sent : Bytes(k2)[i] = Bytes(k)[i]
        /\ Bytes(k2)[k.sent + 1] = b
    BY <1>2, <1>7, <1>8, AppendProperties
  <1>10. ASSUME NEW i \in 1..(k.sent + 1) PROVE Bytes(k2)[i] = i
    <2>1. i \in 1..k.sent => Bytes(k)[i] = i
      BY <1>1, <1>8 DEF InOrder
    <2>2. i \in 1..k.sent \/ i = k.sent + 1
      BY <1>2
    <2> QED
      BY <1>9, <2>1, <2>2, Zenon DEF b
  <1>11. InOrder(k2)
    BY <1>1, <1>2, <1>6, <1>9, <1>10 DEF InOrder, b
  <1> QED
    BY <1>3, <1>5, <1>11 DEF ConnInv

\* When the peer closes the connection, what is left of the stream is a prefix.
LEMMA PeerClosesStep ==
    ASSUME ConnInv, NEW a \in Addrs, PeerCloses(a) PROVE ConnInv'
  <1> DEFINE k == conn[a]
  <1>1. k \in Connection /\ InOrder(k) /\ ~k.closed
    BY DEF ConnInv, PeerCloses
  <1>2. k.got \in Seq(Nat) /\ k.rx \in Seq(Nat) /\ k.queue \in Seq(Nat) /\ k.sent \in Nat
    BY <1>1 DEF Connection
  <1>3. PICK n \in 0..Len(k.queue) :
           conn' = [conn EXCEPT ![a].closed = TRUE, ![a].queue = SubSeq(@, 1, n)]
    BY DEF PeerCloses
  <1> DEFINE u == SubSeq(k.queue, 1, n)
             v == SubSeq(k.queue, n + 1, Len(k.queue))
             k2 == [k EXCEPT !.closed = TRUE, !.queue = u]
  <1>4. conn' = [conn EXCEPT ![a] = k2]
    BY <1>3 DEF ConnInv
  <1>5. u \in Seq(Nat) /\ v \in Seq(Nat) /\ u \o v = k.queue
    BY <1>2, CutSeq, Zenon
  <1> HIDE DEF u, v
  <1>6. k2 \in Connection
    BY <1>1, <1>5 DEF Connection
  <1>7. /\ k2.sent = k.sent /\ k2.closed = TRUE /\ k2.eof = k.eof
        /\ k2.got = k.got /\ k2.rx = k.rx /\ k2.queue = u
    BY <1>1 DEF Connection
  <1> HIDE DEF k2
  <1>8. Bytes(k2) \in Seq(Nat) /\ Bytes(k) = Bytes(k2) \o v
    <2> DEFINE w == k.got \o k.rx
    <2>1. w \in Seq(Nat) /\ Bytes(k2) = w \o u /\ Bytes(k) = w \o k.queue
      BY <1>2, <1>7, ConcatProperties DEF Bytes
    <2> HIDE DEF w
    <2>2. w \o u \in Seq(Nat)
      BY <1>5, <2>1, ConcatProperties
    <2>3. w \o u \o v = w \o (u \o v)
      BY <1>5, <2>1, JoinSeq
    <2> QED
      BY <1>5, <2>1, <2>2, <2>3
  <1>9. /\ Len(Bytes(k2)) \in Nat /\ Len(Bytes(k2)) <= Len(Bytes(k))
        /\ \A i \in 1..Len(Bytes(k2)) : Bytes(k)[i] = Bytes(k2)[i]
    BY <1>5, <1>8, ConcatProperties
  <1>10. Len(Bytes(k)) \in Nat /\ Len(Bytes(k)) <= k.sent
    BY <1>1, BytesType DEF InOrder
  <1>11. InOrder(k2)
    <2>1. k.eof = FALSE
      BY <1>1 DEF InOrder, Connection
    <2>2. \A i \in 1..Len(Bytes(k2)) : Bytes(k2)[i] = i
      BY <1>1, <1>9, <1>10 DEF InOrder
    <2>3. Len(Bytes(k2)) <= k2.sent
      BY <1>2, <1>7, <1>9, <1>10
    <2> QED
      BY <1>7, <2>1, <2>2, <2>3 DEF InOrder
  <1> QED
    BY <1>4, <1>6, <1>11 DEF ConnInv

------------------------------------------------------------------------------
(* The theorems.                                                           *)

SocketIInv == TableInv /\ ConnInv

\* The initial state.
LEMMA InitIInv == Init => SocketIInv
  <1> SUFFICES ASSUME Init PROVE SocketIInv
    OBVIOUS
  <1>1. s_SocketArray \in Seq(Slot) /\ Len(s_SocketArray) = 0
    BY EmptySeq DEF Init
  <1>2. TableInv
    BY <1>1, TableAssumption DEF Init, TableInv, OwnSlot, ContextHasItsSocket, Live
  <1>3. ConnInv
    BY NewConnectionInOrder DEF Init, ConnInv
  <1> QED
    BY <1>2, <1>3 DEF SocketIInv

\* A constructor and a destructor leave a new connection at the address.
LEMMA ResetStep ==
    ASSUME ConnInv, NEW a \in Addrs, conn' = [conn EXCEPT ![a] = NewConnection]
    PROVE  ConnInv'
  BY NewConnectionInOrder DEF ConnInv

\* Every call of a context c keeps the invariant.
LEMMA ContextStep ==
    ASSUME SocketIInv, NEW c \in Contexts,
           \/ \E a \in Addrs : \/ NetConnect(c, a)
                               \/ NetBind(c, a)
                               \/ \E b \in Contexts : NetAccept(b, c, a)
           \/ NetFree(c)
           \/ \E block \in BOOLEAN : NetSetBlock(c, block)
           \/ \E len \in 1..Frame :
                NetRecv(c, len) \/ \E timeout \in 0..1 : NetRecvTimeout(c, len, timeout)
           \/ NetSend(c)
    PROVE  SocketIInv'
  <1> USE DEF SocketIInv
  <1> DEFINE s == Get(fd[c])
  <1>1. s = Null \/ s \in Addrs
    BY GetSlot DEF Live
  <1>2. ASSUME NEW a \in Addrs, NetConnect(c, a) \/ NetBind(c, a) PROVE SocketIInv'
    <2>1. PICK state \in {"open", "listen", "failed"} : NetOpen(c, a, state)
      BY <1>2 DEF NetConnect, NetBind
    <2>2. TableInv'
      BY <2>1, NetOpenStep
    <2>3. ConnInv'
      BY <2>1, ResetStep DEF NetOpen, NewSocket
    <2> QED
      BY <2>2, <2>3
  <1>3. ASSUME NEW a \in Addrs, NEW b \in Contexts, NetAccept(b, c, a) PROVE SocketIInv'
    <2>1. TableInv'
      BY <1>3, NetAcceptStep
    <2>2. ConnInv'
      BY <1>3, ResetStep DEF NetAccept, NewSocket
    <2> QED
      BY <2>1, <2>2
  <1>4. ASSUME NetFree(c) PROVE SocketIInv'
    <2>1. TableInv'
      BY <1>4, NetFreeStep
    <2>2. CASE s = Null
      BY <1>4, <2>1, <2>2 DEF NetFree, ConnInv
    <2>3. CASE s # Null
      <3>1. s \in Addrs /\ conn' = [conn EXCEPT ![s] = NewConnection]
        BY <1>1, <1>4, <2>3 DEF NetFree
      <3> HIDE DEF s
      <3> QED
        BY <2>1, <3>1, ResetStep
    <2> QED
      BY <2>2, <2>3
  <1>5. ASSUME UNCHANGED table, ConnInv' PROVE SocketIInv'
    BY <1>5, TableUnchanged
  <1>6. ASSUME NEW block \in BOOLEAN, NetSetBlock(c, block) PROVE SocketIInv'
    <2>1. CASE s = Null
      BY <1>5, <1>6, <2>1 DEF NetSetBlock, Returns, ReturnsOnly, ConnInv
    <2>2. CASE s # Null
      <3>1. s \in Addrs /\ UNCHANGED table /\ conn' = [conn EXCEPT ![s].block = block]
        BY <1>1, <1>6, <2>2 DEF NetSetBlock, Returns
      <3> DEFINE k2 == [conn[s] EXCEPT !.block = block]
      <3> HIDE DEF s
      <3>2. conn' = [conn EXCEPT ![s] = k2]
        BY <3>1 DEF ConnInv
      <3>3. conn[s] \in Connection /\ InOrder(conn[s])
        BY <3>1 DEF ConnInv
      <3>4. /\ k2 \in Connection
            /\ k2.sent = conn[s].sent /\ k2.closed = conn[s].closed /\ k2.eof = conn[s].eof
            /\ k2.got = conn[s].got /\ k2.rx = conn[s].rx /\ k2.queue = conn[s].queue
        BY <3>3 DEF Connection
      <3> HIDE DEF k2
      <3>5. Bytes(k2) = Bytes(conn[s])
        BY <3>4, Zenon DEF Bytes
      <3>6. InOrder(k2)
        BY <3>3, <3>4, <3>5 DEF InOrder
      <3>7. ConnInv'
        BY <3>1, <3>2, <3>4, <3>6 DEF ConnInv
      <3> QED
        BY <1>5, <3>1, <3>7
    <2> QED
      BY <2>1, <2>2
  <1>7. ASSUME NEW len \in 1..Frame, NEW nothing, s # Null, Receive(s, len, nothing)
        PROVE  SocketIInv'
    <2>1. ConnInv'
      BY <1>1, <1>7, ReceiveStep
    <2>2. UNCHANGED table
      BY <1>7 DEF Receive, Returns, ReturnsOnly
    <2> QED
      BY <1>5, <2>1, <2>2
  <1>8. ASSUME NEW r, ReturnsOnly(r) PROVE SocketIInv'
    BY <1>5, <1>8 DEF ReturnsOnly, Returns, ConnInv
  <1>9. ASSUME NEW len \in 1..Frame, NetRecv(c, len) PROVE SocketIInv'
    BY <1>7, <1>8, <1>9 DEF NetRecv
  <1>10. ASSUME NEW len \in 1..Frame, NEW timeout \in 0..1, NetRecvTimeout(c, len, timeout)
         PROVE  SocketIInv'
    BY <1>7, <1>8, <1>10 DEF NetRecvTimeout
  <1>11. ASSUME NetSend(c) PROVE SocketIInv'
    BY <1>8, <1>11 DEF NetSend
  <1> QED
    BY <1>2, <1>3, <1>4, <1>6, <1>9, <1>10, <1>11

\* SocketInvariant: every reachable state satisfies the invariant of the table
\* and of the connections.
THEOREM SocketInvariant == Spec => []SocketIInv
  <1>1. SocketIInv /\ [Next]_vars => SocketIInv'
    <2> SUFFICES ASSUME SocketIInv, [Next]_vars PROVE SocketIInv'
      OBVIOUS
    <2>1. CASE UNCHANGED vars
      <3>1. TableInv'
        BY <2>1, TableUnchanged DEF SocketIInv, vars, table
      <3> QED
        BY <2>1, <3>1 DEF SocketIInv, vars, ConnInv
    <2>2. ASSUME NEW a \in Addrs, PeerSends(a) \/ PeerCloses(a) PROVE SocketIInv'
      <3>1. TableInv'
        BY <2>2, TableUnchanged DEF SocketIInv, PeerSends, PeerCloses
      <3> QED
        BY <2>2, <3>1, PeerSendsStep, PeerClosesStep DEF SocketIInv
    <2> QED
      BY <2>1, <2>2, ContextStep DEF Next
  <1> QED
    BY <1>1, InitIInv, PTL DEF Spec

\* SocketsOwned: a context that has a file descriptor reaches an existing socket
\* with it that no other context reaches, for any number of contexts and slots.
THEOREM SocketsOwned == Spec => []ContextHasItsSocket
  <1>1. SocketIInv => ContextHasItsSocket
    BY DEF SocketIInv, TableInv
  <1> QED
    BY <1>1, SocketInvariant, PTL

\* StreamsInOrder: the program gets the bytes of a connection in order and
\* complete up to the end it is told, for segments and buffers of any size.
THEOREM StreamsInOrder == Spec => []StreamInOrder
  <1>1. SocketIInv => StreamInOrder
    <2> SUFFICES ASSUME SocketIInv, NEW a \in Live
                 PROVE  /\ IsPrefix(Bytes(conn[a]), [i \in 1..conn[a].sent |-> i])
                        /\ conn[a].eof => conn[a].rx = <<>> /\ conn[a].queue = <<>>
      BY Zenon DEF StreamInOrder, Bytes
    <2> DEFINE w == Bytes(conn[a])
               n == conn[a].sent
               t == [i \in 1..n |-> i]
    <2>1. a \in Addrs /\ conn[a] \in Connection /\ InOrder(conn[a])
      BY DEF Live, SocketIInv, ConnInv
    <2>2. w \in Seq(Nat) /\ n \in Nat
      <3>1. w \in Seq(Nat)
        BY <2>1, BytesType, Zenon
      <3>2. n \in Nat
        BY <2>1 DEF Connection
      <3> QED
        BY <3>1, <3>2
    <2>3. Len(w) <= n /\ \A i \in 1..Len(w) : w[i] = i
      BY <2>1 DEF InOrder
    <2> HIDE DEF w, n
    <2>4. t \in Seq(Nat) /\ Len(t) = n /\ \A i \in 1..n : t[i] = i
      BY <2>2
    <2> HIDE DEF t
    <2>5. /\ SubSeq(w, 1, Len(w)) \in Seq(Nat) /\ SubSeq(t, 1, Len(w)) \in Seq(Nat)
          /\ Len(SubSeq(w, 1, Len(w))) = Len(w) /\ Len(SubSeq(t, 1, Len(w))) = Len(w)
          /\ \A i \in 1..Len(w) : SubSeq(w, 1, Len(w))[i] = w[i] /\ SubSeq(t, 1, Len(w))[i] = t[i]
      BY <2>2, <2>3, <2>4, SubSeqProperties, LenProperties, ElementOfSeq
    <2>6. \A i \in 1..Len(w) : w[i] = t[i]
      BY <2>2, <2>3, <2>4
    <2>7. SubSeq(w, 1, Len(w)) = SubSeq(t, 1, Len(w))
      BY <2>5, <2>6, SeqEqual
    <2>8. IsPrefix(w, t)
      BY <2>3, <2>4, <2>7 DEF IsPrefix
    <2> QED
      BY <2>1, <2>8, Zenon DEF w, n, t, InOrder
  <1> QED
    BY <1>1, SocketInvariant, PTL
==============================================================================
