-------------------------- MODULE ThreadLocal_proofs --------------------------
(***************************************************************************)
(* Proofs about ThreadLocal for every number of tasks, keys, passes and    *)
(* objects: nothing is destroyed twice, thread_local objects go in reverse *)
(* order, and passes that end before the limit leave nothing behind.       *)
(***************************************************************************)
EXTENDS ThreadLocal, SequenceTheorems, TLAPS

\* A list of objects in which an object comes before all that are older.
Decreasing(s) == \A i, j \in 1..Len(s) : i < j => s[i] > s[j]

\* The range of the lists that occur.
LEMMA RangeFacts ==
    ASSUME NEW s \in Seq(Objs)
    PROVE  /\ Range(s) = {s[i] : i \in 1..Len(s)}
           /\ Range(s) \subseteq Objs
           /\ s = <<>> <=> Range(s) = {}
  <1>1. Len(s) \in Nat /\ DOMAIN s = 1..Len(s) /\ s \in [1..Len(s) -> Objs]
    BY LenProperties
  <1>2. Range(s) = {s[i] : i \in 1..Len(s)}
    BY <1>1 DEF Range
  <1>3. s = <<>> => Range(s) = {}
    BY <1>1, <1>2
  <1>4. s # <<>> => s[1] \in Range(s)
    BY <1>2, EmptySeq
  <1> QED
    BY <1>1, <1>2, <1>3, <1>4

\* The null pointer in a slot: the empty list.
LEMMA EmptyList ==
    <<>> \in Seq(Objs) /\ Range(<<>>) = {} /\ Decreasing(<<>>)
  <1>1. <<>> \in Seq(Objs) /\ Len(<<>>) = 0
    OBVIOUS
  <1>2. Range(<<>>) = {}
    BY <1>1, RangeFacts, Zenon
  <1>3. Decreasing(<<>>)
    BY <1>1 DEF Decreasing
  <1> QED
    BY <1>1, <1>2, <1>3

\* A list of one object.
LEMMA ShortLists ==
    ASSUME NEW o \in Objs
    PROVE  /\ <<>> \in Seq(Objs) /\ Range(<<>>) = {} /\ Decreasing(<<>>)
           /\ <<o>> \in Seq(Objs) /\ Range(<<o>>) = {o} /\ Decreasing(<<o>>)
  <1>1. <<>> \in Seq(Objs) /\ <<o>> \in Seq(Objs) /\ Len(<<>>) = 0 /\ Len(<<o>>) = 1 /\ <<o>>[1] = o
    OBVIOUS
  <1>2. Range(<<>>) = {}
    BY <1>1, RangeFacts, Zenon
  <1>3. Range(<<o>>) = {o}
    <2> DEFINE u == <<o>>
    <2>1. u \in Seq(Objs) /\ Len(u) = 1 /\ u[1] = o
      BY <1>1
    <2> HIDE DEF u
    <2>2. Range(u) = {u[i] : i \in 1..Len(u)}
      BY <2>1, RangeFacts
    <2>3. Range(u) = {o}
      BY <2>1, <2>2
    <2> QED
      BY <2>3 DEF u
  <1>4. Decreasing(<<>>) /\ Decreasing(<<o>>)
    BY <1>1 DEF Decreasing
  <1> QED
    BY <1>1, <1>2, <1>3, <1>4

\* What __cxa_thread_atexit does to its list: the new object, which is younger
\* than all others, is put first.
LEMMA Prepend ==
    ASSUME NEW o \in Objs, NEW s \in Seq(Objs), Decreasing(s), \A p \in Range(s) : p < o
    PROVE  /\ <<o>> \o s \in Seq(Objs)
           /\ Range(<<o>> \o s) = {o} \cup Range(s)
           /\ Decreasing(<<o>> \o s)
  <1> DEFINE t == <<o>> \o s
  <1>1. <<o>> \in Seq(Objs) /\ Len(<<o>>) = 1 /\ <<o>>[1] = o /\ Range(<<o>>) = {o}
    BY ShortLists
  <1>2. /\ t \in Seq(Objs) /\ Len(t) = 1 + Len(s)
        /\ \A i \in 1..(1 + Len(s)) : t[i] = IF i <= 1 THEN <<o>>[i] ELSE s[i - 1]
    BY <1>1, ConcatProperties
  <1>3. Range(t) = {o} \cup Range(s)
    <2>1. <<o>> \in Seq(Objs)
      BY <1>1
    <2>2. Range(t) = Range(<<o>>) \cup Range(s)
      BY <2>1, RangeConcatenation, ZenonT(60)
    <2> QED
      BY <1>1, <2>2, Zenon
  <1> HIDE DEF t
  <1>4. t[1] = o /\ \A i \in 2..(1 + Len(s)) : t[i] = s[i - 1]
    BY <1>1, <1>2
  <1>5. \A i \in 1..Len(s) : s[i] < o
    BY RangeFacts
  <1>6. Decreasing(t)
    <2> SUFFICES ASSUME NEW i \in 1..Len(t), NEW j \in 1..Len(t), i < j PROVE t[i] > t[j]
      BY DEF Decreasing
    <2>1. j \in 2..(1 + Len(s)) /\ j - 1 \in 1..Len(s) /\ t[j] = s[j - 1] /\ s[j - 1] \in Objs
      BY <1>2, <1>4, ElementOfSeq
    <2>2. CASE i = 1
      BY <1>4, <1>5, <2>1, <2>2 DEF Objs
    <2>3. CASE i # 1
      <3>1. i \in 2..(1 + Len(s)) /\ i - 1 \in 1..Len(s) /\ t[i] = s[i - 1] /\ i - 1 < j - 1
        BY <1>2, <1>4, <2>3
      <3> QED
        BY <2>1, <3>1 DEF Decreasing
    <2> QED
      BY <2>2, <2>3
  <1> QED
    BY <1>2, <1>3, <1>6 DEF t

\* What the destructor of a list does: the first object, which is the youngest,
\* is taken away.
LEMMA HeadAndTail ==
    ASSUME NEW s \in Seq(Objs), s # <<>>, Decreasing(s)
    PROVE  /\ Head(s) \in Range(s) /\ Head(s) \in Objs
           /\ Tail(s) \in Seq(Objs) /\ Decreasing(Tail(s))
           /\ Range(Tail(s)) = Range(s) \ {Head(s)}
           /\ \A p \in Range(s) : p <= Head(s)
  <1>1. /\ Tail(s) \in Seq(Objs) /\ Len(Tail(s)) = Len(s) - 1
        /\ \A i \in 1..Len(Tail(s)) : Tail(s)[i] = s[i + 1]
    BY HeadTailProperties
  <1>2. Len(s) \in Nat \ {0} /\ Head(s) = s[1]
    BY EmptySeq
  <1>3. \A i \in 1..Len(s) : s[i] \in Objs /\ s[i] \in Nat
    <2>1. \A i \in 1..Len(s) : s[i] \in Objs
      BY ElementOfSeq
    <2>2. \A p \in Objs : p \in Nat
      BY DEF Objs
    <2> QED
      BY <2>1, <2>2
  <1>4. Decreasing(Tail(s))
    BY <1>1, <1>2 DEF Decreasing
  <1>5. \A i \in 2..Len(s) : s[i] < s[1]
    BY <1>2, <1>3 DEF Decreasing
  <1>6. Range(s) = {s[i] : i \in 1..Len(s)} /\ Range(Tail(s)) = {Tail(s)[i] : i \in 1..Len(Tail(s))}
    BY <1>1, RangeFacts
  <1>7. Range(Tail(s)) \subseteq Range(s) \ {s[1]}
    BY <1>1, <1>2, <1>3, <1>5, <1>6
  <1>8. Range(s) \ {s[1]} \subseteq Range(Tail(s))
    <2> SUFFICES ASSUME NEW i \in 1..Len(s), s[i] # s[1] PROVE s[i] \in Range(Tail(s))
      BY <1>6
    <2>1. i - 1 \in 1..Len(Tail(s)) /\ Tail(s)[i - 1] = s[i]
      BY <1>1, <1>2
    <2> QED
      BY <1>6, <2>1
  <1>9. \A p \in Range(s) : p <= s[1]
    BY <1>2, <1>3, <1>5, <1>6
  <1> QED
    BY <1>1, <1>2, <1>3, <1>4, <1>6, <1>7, <1>8, <1>9
------------------------------------------------------------------------------
(* The inductive invariant.                                                *)

TypeInv ==
    /\ s_initialized \in BOOLEAN
    /\ s_next_key \in 0..MaxKeys
    /\ s_destructors \in [Keys -> BOOLEAN]
    /\ cxa_key \in Keys \cup {-1}
    /\ tls \in [Tasks -> BOOLEAN]
    /\ kv \in [Tasks -> [Keys -> Seq(Objs)]]
    /\ run \in [Tasks -> {"new", "run", "exit", "gone"}]
    /\ pass \in [Tasks -> [i : Nat, k : Nat, called : BOOLEAN, cur : Seq(Objs)]]
    /\ owner \in [Objs -> Tasks \cup {"none"}]
    /\ atexit \in SUBSET Objs /\ late \in SUBSET Objs
    /\ runs \in [Objs -> Nat]

\* Where the objects are: a list has objects of its task that are not destroyed,
\* and no object is in two lists or twice in one.
PlacesInv ==
    /\ \A u \in Tasks : \A k \in Keys : \A p \in Range(kv[u][k]) : owner[p] = u /\ runs[p] = 0
    /\ \A u \in Tasks : \A p \in Range(pass[u].cur) : owner[p] = u /\ runs[p] = 0
    /\ \A u \in Tasks : \A k, l \in Keys : k # l => Range(kv[u][k]) \cap Range(kv[u][l]) = {}
    /\ \A u \in Tasks : \A k \in Keys : Range(kv[u][k]) \cap Range(pass[u].cur) = {}
    /\ \A u \in Tasks : \A k \in Keys : Decreasing(kv[u][k])
    /\ \A u \in Tasks : Decreasing(pass[u].cur)
    /\ \A p \in Objs : runs[p] <= 1 /\ (owner[p] = "none" => runs[p] = 0)

\* Objects are constructed in the order of their numbers.
BirthInv ==
    /\ \A o, p \in Objs : o < p /\ owner[p] # "none" => owner[o] # "none"
    /\ \A p \in atexit \cup late : owner[p] # "none"

\* Keys that do not exist have no destructor and no values, the key of
\* __cxa_thread_atexit has a destructor, and the objects given to it are in no
\* other slot.
KeysInv ==
    /\ \A k \in Keys : k >= s_next_key => ~s_destructors[k] /\ \A u \in Tasks : kv[u][k] = <<>>
    /\ cxa_key # -1 => cxa_key < s_next_key
    /\ atexit # {} => cxa_key # -1
    /\ \A u \in Tasks : \A k \in Keys : k # cxa_key => Range(kv[u][k]) \cap atexit = {}

\* What a thread has in each of its states.
ThreadInv ==
    /\ \A t \in Threads : run[t] \in {"run", "exit"} => tls[t]
    /\ ~s_initialized => \A t \in Threads : run[t] = "new"
    /\ \A t \in Tasks \ Threads : run[t] = "run"
    /\ \A t \in Tasks : run[t] # "exit" => pass[t].cur = <<>>
    /\ \A t \in Tasks : run[t] \in {"new", "run"} => pass[t].k = 0
    /\ \A t \in Tasks : pass[t].cur # <<>> => pass[t].called
    /\ \A t \in Threads : run[t] = "new" => \A o \in Objs : owner[o] # t

Early == atexit \ late

\* The objects of a running thread that must go in reverse order: they are
\* destroyed, or all those that are left are together, in the list of the slot
\* or in the one that is being destroyed.
EarlyInv ==
    \A t \in Threads : run[t] \in {"run", "exit"} =>
        /\ \A o \in Early : owner[o] = t =>
              runs[o] = 1 \/ o \in Range(pass[t].cur) \/ o \in Range(kv[t][cxa_key])
        /\ Range(pass[t].cur) \cap Early # {} => Range(kv[t][cxa_key]) \cap Early = {}

\* In a pass that has called no destructor yet, the slots behind are empty.
PassInv ==
    \A t \in Tasks : run[t] = "exit" /\ ~pass[t].called =>
        \A k \in Keys : k < pass[t].k /\ s_destructors[k] => kv[t][k] = <<>>

TlsIInv == TypeInv /\ PlacesInv /\ BirthInv /\ KeysInv /\ ThreadInv /\ EarlyInv /\ PassInv
------------------------------------------------------------------------------
(* What a task that uses the storage does.                                 *)

\* The task t has constructed o and put it into the slot k0, which loses its
\* old objects, or keeps them if it is the one of __cxa_thread_atexit.
Put(t, o, k0) ==
    /\ owner[o] = "none" /\ owner' = [owner EXCEPT ![o] = t]
    /\ \A p \in Objs : IF owner[p] = "none" THEN o <= p ELSE p < o
    /\ late' = IF run[t] = "exit" THEN late \cup {o} ELSE late
    /\ kv' \in [Tasks -> [Keys -> Seq(Objs)]]
    /\ \A u \in Tasks : \A k \in Keys : u # t \/ k # k0 => kv'[u][k] = kv[u][k]
    /\ Range(kv'[t][k0]) \subseteq Range(kv[t][k0]) \cup {o}
    /\ Decreasing(kv'[t][k0])
    /\ s_next_key' \in 0..MaxKeys /\ s_next_key <= s_next_key' /\ k0 < s_next_key'
    /\ s_destructors' \in [Keys -> BOOLEAN]
    /\ \A k \in Keys : k # s_next_key \/ s_next_key' = s_next_key =>
          s_destructors'[k] = s_destructors[k]
    /\ cxa_key' \in Keys \cup {-1}
    /\ cxa_key # -1 => cxa_key' = cxa_key
    /\ cxa_key = -1 /\ cxa_key' # -1 => cxa_key' = s_next_key
    /\ cxa_key' # -1 => cxa_key' < s_next_key'
    /\ \/ atexit' = atexit /\ cxa_key' = cxa_key /\ k0 # cxa_key
       \/ /\ atexit' = atexit \cup {o} /\ k0 = cxa_key'
          /\ tls[t] => Range(kv'[t][k0]) = Range(kv[t][k0]) \cup {o}

\* A new object is younger than all that exist.
LEMMA Youngest ==
    ASSUME TypeInv, BirthInv, NEW t \in Tasks, NEW o \in Objs, Construct(t, o)
    PROVE  \A p \in Objs : IF owner[p] = "none" THEN o <= p ELSE p < o
  <1> SUFFICES ASSUME NEW p \in Objs, owner[p] # "none" PROVE p < o
    BY DEF Construct
  <1>1. owner[o] = "none" /\ p # o /\ p \in Int /\ o \in Int
    BY DEF Construct, Objs
  <1>2. ~(o < p)
    BY <1>1 DEF BirthInv
  <1> QED
    BY <1>1, <1>2

\* __libcpp_tls_set with a list.
LEMMA SetFacts ==
    ASSUME TypeInv, NEW t \in Tasks, NEW k0 \in Keys, NEW s \in Seq(Objs), TlsSet(t, k0, s)
    PROVE  /\ kv' \in [Tasks -> [Keys -> Seq(Objs)]]
           /\ \A u \in Tasks : \A k \in Keys : u # t \/ k # k0 => kv'[u][k] = kv[u][k]
           /\ kv'[t][k0] = IF tls[t] THEN s ELSE kv[t][k0]
  <1>1. kv \in [Tasks -> [Keys -> Seq(Objs)]]
    BY DEF TypeInv
  <1>2. CASE tls[t]
    <2>1. kv' = [kv EXCEPT ![t] = [kv[t] EXCEPT ![k0] = s]]
      BY <1>1, <1>2 DEF TlsSet
    <2>2. [kv[t] EXCEPT ![k0] = s] \in [Keys -> Seq(Objs)]
      BY <1>1
    <2> QED
      BY <1>1, <1>2, <2>1, <2>2
  <1>3. CASE ~tls[t]
    BY <1>1, <1>3 DEF TlsSet
  <1> QED
    BY <1>2, <1>3

\* A client that sets a slot puts an object there.
LEMMA SetSlotPuts ==
    ASSUME TlsIInv, NEW t \in Tasks, SetSlot(t)
    PROVE  \E o \in Objs, k0 \in Keys : Put(t, o, k0)
  <1> USE DEF TlsIInv
  <1>1. PICK o \in Objs, k0 \in Keys :
           /\ k0 < s_next_key /\ k0 # cxa_key
           /\ Construct(t, o) /\ TlsSet(t, k0, <<o>>)
           /\ UNCHANGED <<keyVars, atexit>>
    BY DEF SetSlot
  <1>2. <<o>> \in Seq(Objs) /\ Range(<<o>>) = {o} /\ Decreasing(<<o>>)
    BY ShortLists
  <1>3. /\ kv' \in [Tasks -> [Keys -> Seq(Objs)]]
        /\ \A u \in Tasks : \A k \in Keys : u # t \/ k # k0 => kv'[u][k] = kv[u][k]
        /\ kv'[t][k0] = IF tls[t] THEN <<o>> ELSE kv[t][k0]
    BY <1>1, <1>2, SetFacts
  <1>4. Range(kv'[t][k0]) \subseteq Range(kv[t][k0]) \cup {o} /\ Decreasing(kv'[t][k0])
    <2>1. CASE tls[t]
      BY <1>2, <1>3, <2>1, Zenon
    <2>2. CASE ~tls[t]
      BY <1>3, <2>2, Zenon DEF PlacesInv
    <2> QED
      BY <2>1, <2>2
  <1>5. /\ s_next_key' = s_next_key /\ s_destructors' = s_destructors /\ cxa_key' = cxa_key
        /\ atexit' = atexit
    BY <1>1 DEF keyVars
  <1>6. \A p \in Objs : IF owner[p] = "none" THEN o <= p ELSE p < o
    BY <1>1, Youngest
  <1>7. /\ s_next_key' \in 0..MaxKeys /\ s_next_key <= s_next_key' /\ k0 < s_next_key'
        /\ s_destructors' \in [Keys -> BOOLEAN]
        /\ cxa_key' \in Keys \cup {-1}
        /\ cxa_key' # -1 => cxa_key' < s_next_key'
    BY <1>1, <1>5 DEF TypeInv, KeysInv
  <1>8. /\ owner[o] = "none" /\ owner' = [owner EXCEPT ![o] = t]
        /\ late' = IF run[t] = "exit" THEN late \cup {o} ELSE late
    BY <1>1 DEF Construct
  <1>9. Put(t, o, k0)
    BY <1>1, <1>3, <1>4, <1>5, <1>6, <1>7, <1>8, Zenon DEF Put
  <1> QED
    BY <1>9

\* __cxa_thread_atexit puts an object into the slot of its key.
LEMMA AtExitPuts ==
    ASSUME TlsIInv, NEW t \in Tasks, AtExit(t)
    PROVE  \E o \in Objs, k0 \in Keys : Put(t, o, k0)
  <1> USE DEF TlsIInv
  <1>1. PICK o \in Objs, k0 \in Keys :
           /\ IF cxa_key = -1 THEN NewKey(TRUE) /\ k0 = s_next_key
                              ELSE k0 = cxa_key /\ UNCHANGED <<s_next_key, s_destructors>>
           /\ cxa_key' = k0
           /\ Construct(t, o) /\ TlsSet(t, k0, <<o>> \o TlsGet(t, k0))
           /\ atexit' = atexit \cup {o}
    BY DEF AtExit
  <1> DEFINE old == TlsGet(t, k0)
  <1>2. \A p \in Objs : IF owner[p] = "none" THEN o <= p ELSE p < o
    BY <1>1, Youngest
  <1>3. /\ old \in Seq(Objs) /\ Decreasing(old)
        /\ \A p \in Range(old) : p < o
        /\ tls[t] => old = kv[t][k0]
    <2>1. CASE tls[t]
      <3>1. old = kv[t][k0] /\ kv[t][k0] \in Seq(Objs) /\ Decreasing(kv[t][k0])
        BY <2>1 DEF TlsGet, TypeInv, PlacesInv
      <3>2. ASSUME NEW p \in Range(kv[t][k0]) PROVE p < o
        <4>1. p \in Objs
          BY <3>1, RangeFacts
        <4>2. owner[p] = t /\ t # "none"
          BY TlsAssumption DEF PlacesInv, Tasks
        <4> QED
          BY <1>2, <4>1, <4>2
      <3> QED
        BY <3>1, <3>2, Zenon
    <2>2. CASE ~tls[t]
      <3>1. old = <<>>
        BY <2>2 DEF TlsGet
      <3> QED
        BY <2>2, <3>1, ShortLists, Zenon
    <2> QED
      BY <2>1, <2>2
  <1> HIDE DEF old
  <1> DEFINE s == <<o>> \o old
  <1>4. s \in Seq(Objs) /\ Range(s) = {o} \cup Range(old) /\ Decreasing(s)
    BY <1>3, Prepend
  <1>5. TlsSet(t, k0, s)
    BY <1>1 DEF old
  <1> HIDE DEF s
  <1>6. /\ kv' \in [Tasks -> [Keys -> Seq(Objs)]]
        /\ \A u \in Tasks : \A k \in Keys : u # t \/ k # k0 => kv'[u][k] = kv[u][k]
        /\ kv'[t][k0] = IF tls[t] THEN s ELSE kv[t][k0]
    BY <1>4, <1>5, SetFacts
  <1>7. /\ Range(kv'[t][k0]) \subseteq Range(kv[t][k0]) \cup {o} /\ Decreasing(kv'[t][k0])
        /\ tls[t] => Range(kv'[t][k0]) = Range(kv[t][k0]) \cup {o}
    <2>1. CASE tls[t]
      BY <1>3, <1>4, <1>6, <2>1, Zenon
    <2>2. CASE ~tls[t]
      BY <1>6, <2>2, Zenon DEF PlacesInv
    <2> QED
      BY <2>1, <2>2
  <1>8. /\ s_next_key' \in 0..MaxKeys /\ s_next_key <= s_next_key' /\ k0 < s_next_key'
        /\ s_destructors' \in [Keys -> BOOLEAN]
        /\ \A k \in Keys : k # s_next_key \/ s_next_key' = s_next_key =>
              s_destructors'[k] = s_destructors[k]
        /\ cxa_key # -1 => cxa_key' = cxa_key
        /\ cxa_key = -1 => cxa_key' = s_next_key
    <2>1. CASE cxa_key = -1
      <3>1. /\ k0 = s_next_key /\ cxa_key' = s_next_key /\ s_next_key < MaxKeys
            /\ s_next_key' = s_next_key + 1
            /\ s_destructors' = [s_destructors EXCEPT ![s_next_key] = TRUE]
        BY <1>1, <2>1 DEF NewKey
      <3>2. s_next_key' \in 0..MaxKeys /\ s_next_key <= s_next_key' /\ k0 < s_next_key'
        BY <3>1, TlsAssumption DEF TypeInv
      <3>3. /\ s_destructors' \in [Keys -> BOOLEAN]
            /\ \A k \in Keys : k # s_next_key => s_destructors'[k] = s_destructors[k]
        BY <3>1, Zenon DEF TypeInv
      <3>4. s_next_key' # s_next_key
        BY <3>1 DEF TypeInv
      <3> QED
        BY <2>1, <3>1, <3>2, <3>3, <3>4, Zenon
    <2>2. CASE cxa_key # -1
      <3>1. /\ k0 = cxa_key /\ cxa_key' = cxa_key /\ s_next_key' = s_next_key
            /\ s_destructors' = s_destructors
        BY <1>1, <2>2
      <3>2. s_next_key' \in 0..MaxKeys /\ s_next_key <= s_next_key' /\ k0 < s_next_key'
        BY <2>2, <3>1 DEF TypeInv, KeysInv
      <3> QED
        BY <2>2, <3>1, <3>2, Zenon DEF TypeInv
    <2> QED
      BY <2>1, <2>2
  <1>9. /\ owner[o] = "none" /\ owner' = [owner EXCEPT ![o] = t]
        /\ late' = IF run[t] = "exit" THEN late \cup {o} ELSE late
    BY <1>1 DEF Construct
  <1>10. cxa_key' = k0 /\ atexit' = atexit \cup {o}
    BY <1>1
  <1>11. Put(t, o, k0)
    BY <1>2, <1>6, <1>7, <1>8, <1>9, <1>10, Zenon DEF Put
  <1> QED
    BY <1>11

\* What Put does to the objects and the keys keeps their invariants.
LEMMA PutKeepsBirthAndKeys ==
    ASSUME TlsIInv, NEW t \in Tasks, NEW o \in Objs, NEW k0 \in Keys, Put(t, o, k0)
    PROVE  BirthInv' /\ KeysInv'
  <1> USE DEF TlsIInv
  <1>1. t # "none" /\ owner[o] = "none"
    BY TlsAssumption DEF Tasks, Put
  <1>2. \A p \in Objs : owner'[p] = IF p = o THEN t ELSE owner[p]
    BY DEF Put, TypeInv
  <1>3. \A p \in Objs : IF owner[p] = "none" THEN o <= p ELSE p < o
    BY DEF Put
  <1>4. \A p \in atexit' \cup late' : p = o \/ p \in atexit \cup late
    BY DEF Put
  <1>5. BirthInv'
    <2>1. ASSUME NEW q \in Objs, NEW p \in Objs, q < p, owner'[p] # "none"
          PROVE  owner'[q] # "none"
      <3>1. CASE p = o
        BY <2>1, <3>1, <1>2, <1>3 DEF Objs
      <3>2. CASE p # o
        BY <2>1, <3>2, <1>1, <1>2 DEF BirthInv
      <3> QED
        BY <3>1, <3>2
    <2>2. ASSUME NEW p \in atexit' \cup late' PROVE owner'[p] # "none"
      <3>1. p \in Objs
        BY <1>4 DEF TypeInv
      <3> QED
        BY <1>1, <1>2, <1>4, <3>1 DEF BirthInv
    <2> QED
      BY <2>1, <2>2 DEF BirthInv
  <1>6. KeysInv'
    <2>1. ASSUME NEW k \in Keys, k >= s_next_key'
          PROVE  ~s_destructors'[k] /\ \A u \in Tasks : kv'[u][k] = <<>>
      <3>1. k >= s_next_key /\ k # k0 /\ (k # s_next_key \/ s_next_key' = s_next_key)
        BY <2>1 DEF Put, Keys, TypeInv
      <3>2. s_destructors'[k] = s_destructors[k] /\ \A u \in Tasks : kv'[u][k] = kv[u][k]
        BY <3>1, Zenon DEF Put
      <3> QED
        BY <3>1, <3>2, Zenon DEF KeysInv
    <2>2. cxa_key' # -1 => cxa_key' < s_next_key'
      BY DEF Put
    <2>3. atexit' # {} => cxa_key' # -1
      BY DEF Put, KeysInv, Keys
    <2>4. ASSUME NEW u \in Tasks, NEW k \in Keys, k # cxa_key'
          PROVE  Range(kv'[u][k]) \cap atexit' = {}
      <3>1. k # cxa_key
        BY <2>4 DEF Put, Keys
      <3>2. Range(kv[u][k]) \cap atexit = {} /\ o \notin atexit
        BY <3>1, <1>1 DEF KeysInv, BirthInv
      <3>3. o \notin Range(kv[u][k])
        BY <1>1, TlsAssumption DEF PlacesInv, Tasks
      <3>4. CASE u = t /\ k = k0
        BY <2>4, <3>2, <3>4 DEF Put
      <3>5. CASE ~(u = t /\ k = k0)
        <4>1. kv'[u][k] = kv[u][k] /\ atexit' \subseteq atexit \cup {o}
          BY <3>5 DEF Put
        <4> QED
          BY <3>2, <3>3, <4>1
      <3> QED
        BY <3>4, <3>5
    <2> QED
      BY <2>1, <2>2, <2>3, <2>4 DEF KeysInv
  <1> QED
    BY <1>5, <1>6

\* A step that leaves the lists and the objects alone.
LEMMA PlacesUnchanged ==
    ASSUME PlacesInv, kv' = kv, pass' = pass, owner' = owner, runs' = runs PROVE PlacesInv'
  BY SMTT(30) DEF PlacesInv

\* A step in which the objects New come into existence in the slot k0 of t, the
\* objects Dead are destroyed and lists only lose objects otherwise.
Changed(t, k0, New, Dead) ==
    /\ \A p \in New : owner[p] = "none" /\ owner'[p] = t
    /\ \A p \in Objs \ New : owner'[p] = owner[p]
    /\ \A p \in Objs \ Dead : runs'[p] = runs[p]
    /\ \A p \in Dead : runs'[p] = 1 /\ owner[p] # "none"
    /\ \A u \in Tasks : \A k \in Keys :
          /\ kv'[u][k] \in Seq(Objs) /\ Decreasing(kv'[u][k])
          /\ Range(kv'[u][k]) \subseteq
                Range(kv[u][k]) \cup (IF u = t /\ k = k0 THEN New ELSE {})
          /\ Dead \cap Range(kv'[u][k]) = {}
    /\ \A u \in Tasks :
          /\ pass'[u].cur \in Seq(Objs) /\ Decreasing(pass'[u].cur)
          /\ Range(pass'[u].cur) \subseteq Range(pass[u].cur)
          /\ Dead \cap Range(pass'[u].cur) = {}

\* Such a step keeps the invariant of the places.
LEMMA PlacesStep ==
    ASSUME TypeInv, PlacesInv, NEW t \in Tasks, NEW k0 \in Keys,
           NEW New \in SUBSET Objs, NEW Dead \in SUBSET Objs, Changed(t, k0, New, Dead)
    PROVE  PlacesInv'
  <1> USE DEF Changed
  <1>1. "none" \notin Tasks
    BY TlsAssumption DEF Tasks
  <1>2. \A u \in Tasks : \A k \in Keys : Range(kv[u][k]) \cap New = {} /\ Range(kv'[u][k]) \subseteq Objs
    BY <1>1, RangeFacts DEF PlacesInv
  <1>3. \A u \in Tasks : Range(pass[u].cur) \cap New = {} /\ Range(pass'[u].cur) \subseteq Objs
    BY <1>1, RangeFacts DEF PlacesInv
  <1>4. \A p \in New : runs[p] = 0 /\ p \notin Dead
    BY DEF PlacesInv
  <1>5. ASSUME NEW u \in Tasks, NEW k \in Keys, NEW p \in Range(kv'[u][k])
        PROVE  owner'[p] = u /\ runs'[p] = 0
    <2>1. p \in Objs /\ p \notin Dead
      BY <1>2
    <2>2. CASE p \in New
      BY <1>2, <1>4, <2>1, <2>2
    <2>3. CASE p \notin New
      <3>1. p \in Range(kv[u][k])
        BY <2>3
      <3> QED
        BY <2>1, <2>3, <3>1 DEF PlacesInv
    <2> QED
      BY <2>2, <2>3
  <1>6. ASSUME NEW u \in Tasks, NEW p \in Range(pass'[u].cur)
        PROVE  owner'[p] = u /\ runs'[p] = 0
    <2>1. p \in Objs /\ p \notin Dead /\ p \in Range(pass[u].cur) /\ p \notin New
      BY <1>3
    <2> QED
      BY <2>1 DEF PlacesInv
  <1>7. ASSUME NEW u \in Tasks, NEW k \in Keys, NEW l \in Keys, k # l
        PROVE  Range(kv'[u][k]) \cap Range(kv'[u][l]) = {}
    <2>1. Range(kv[u][k]) \cap Range(kv[u][l]) = {}
      BY <1>7 DEF PlacesInv
    <2> SUFFICES ASSUME NEW p \in Range(kv'[u][k]), p \in Range(kv'[u][l]) PROVE FALSE
      OBVIOUS
    <2>2. CASE p \in New
      <3>1. p \notin Range(kv[u][k]) /\ p \notin Range(kv[u][l])
        BY <1>2, <2>2
      <3>2. k = k0 /\ l = k0
        BY <3>1
      <3> QED
        BY <1>7, <3>2
    <2>3. CASE p \notin New
      BY <2>1, <2>3
    <2> QED
      BY <2>2, <2>3
  <1>8. ASSUME NEW u \in Tasks, NEW k \in Keys
        PROVE  Range(kv'[u][k]) \cap Range(pass'[u].cur) = {}
    <2>1. Range(kv[u][k]) \cap Range(pass[u].cur) = {}
      BY DEF PlacesInv
    <2>2. /\ Range(kv'[u][k]) \subseteq Range(kv[u][k]) \cup New
          /\ Range(pass'[u].cur) \subseteq Range(pass[u].cur)
      OBVIOUS
    <2>3. Range(pass[u].cur) \cap New = {}
      BY <1>3
    <2> QED
      BY <2>1, <2>2, <2>3, Zenon
  <1>9. ASSUME NEW p \in Objs PROVE runs'[p] <= 1 /\ (owner'[p] = "none" => runs'[p] = 0)
    BY <1>1, <1>4 DEF PlacesInv
  <1> QED
    BY <1>5, <1>6, <1>7, <1>8, <1>9 DEF PlacesInv

\* The objects that must go in reverse order, when an object is put and the
\* objects Dead are taken from the lists that are being destroyed.
LEMMA PutKeepsEarly ==
    ASSUME TlsIInv, NEW t \in Tasks, NEW o \in Objs, NEW k0 \in Keys, Put(t, o, k0),
           run[t] \in {"run", "exit"}, run' = run, NEW Dead \in SUBSET Objs,
           \A u \in Tasks : Range(pass'[u].cur) = Range(pass[u].cur) \ Dead,
           \A p \in Dead : runs'[p] = 1,
           \A p \in Objs \ Dead : runs'[p] = runs[p]
    PROVE  EarlyInv'
  <1> USE DEF TlsIInv
  <1>1. /\ \A p \in Objs : owner'[p] = IF p = o THEN t ELSE owner[p]
        /\ owner[o] = "none" /\ "none" \notin Tasks
    BY TlsAssumption DEF Put, TypeInv, Tasks
  <1>2. o \notin atexit
    BY <1>1 DEF BirthInv
  <1>3. Early' \subseteq Early \cup {o} /\ Early' \subseteq Objs
    BY <1>2 DEF Early, Put, TypeInv
  <1>4. o \in Early' => run[t] = "run" /\ k0 = cxa_key' /\ atexit' = atexit \cup {o}
    BY <1>2 DEF Early, Put, TypeInv
  <1>5. \A q \in Early : cxa_key # -1 /\ cxa_key' = cxa_key
    BY DEF Early, KeysInv, Put
  <1>6. ASSUME NEW u \in Threads, run[u] \in {"run", "exit"}, NEW q \in Early,
               q \in Range(kv[u][cxa_key])
        PROVE  q \in Range(kv'[u][cxa_key'])
    <2>0. u \in Tasks /\ tls[u] /\ cxa_key' = cxa_key /\ cxa_key \in Keys
      BY <1>5, <1>6 DEF Tasks, ThreadInv, TypeInv
    <2>1. CASE u = t /\ k0 = cxa_key
      BY <1>6, <2>0, <2>1 DEF Put
    <2>2. CASE ~(u = t /\ k0 = cxa_key)
      BY <1>6, <2>0, <2>2 DEF Put
    <2> QED
      BY <2>1, <2>2
  <1> SUFFICES ASSUME NEW u \in Threads, run[u] \in {"run", "exit"}
               PROVE  /\ \A q \in Early' : owner'[q] = u =>
                            \/ runs'[q] = 1 \/ q \in Range(pass'[u].cur)
                            \/ q \in Range(kv'[u][cxa_key'])
                      /\ Range(pass'[u].cur) \cap Early' # {} =>
                            Range(kv'[u][cxa_key']) \cap Early' = {}
    BY DEF EarlyInv
  <1>7. u \in Tasks
    BY DEF Tasks
  <1>8. ASSUME NEW q \in Early', owner'[q] = u
        PROVE  runs'[q] = 1 \/ q \in Range(pass'[u].cur) \/ q \in Range(kv'[u][cxa_key'])
    <2>1. CASE q = o
      <3>1. u = t /\ tls[t]
        BY <1>1, <1>8, <2>1 DEF ThreadInv
      <3> QED
        BY <1>2, <1>4, <2>1, <3>1 DEF Put
    <2>2. CASE q # o
      <3>1. q \in Early /\ q \in Objs /\ owner[q] = u
        BY <1>1, <1>3, <1>8, <2>2
      <3>2. runs[q] = 1 \/ q \in Range(pass[u].cur) \/ q \in Range(kv[u][cxa_key])
        BY <3>1 DEF EarlyInv
      <3> QED
        BY <1>6, <1>7, <3>1, <3>2
    <2> QED
      BY <2>1, <2>2
  <1>9. ASSUME NEW q \in Range(pass'[u].cur), q \in Early'
        PROVE  Range(kv'[u][cxa_key']) \cap Early' = {}
    <2>1. q \in Range(pass[u].cur) /\ owner[q] = u
      BY <1>7 DEF PlacesInv
    <2>2. q \in Early
      BY <1>1, <1>3, <1>7, <1>9, <2>1
    <2>3. cxa_key # -1 /\ cxa_key' = cxa_key /\ cxa_key \in Keys
      BY <1>5, <2>2 DEF TypeInv
    <2>4. Range(kv[u][cxa_key]) \cap Early = {}
      BY <2>1, <2>2 DEF EarlyInv
    <2>5. pass[u].cur # <<>>
      BY <1>7, <2>1, ShortLists
    <2>6. u = t => o \notin Early'
      BY <1>4, <1>7, <2>5 DEF ThreadInv
    <2>7. u # t => kv'[u][cxa_key] = kv[u][cxa_key] /\ o \notin Range(kv[u][cxa_key])
      BY <1>1, <1>7, <2>3 DEF Put, PlacesInv
    <2>8. Range(kv'[u][cxa_key]) \subseteq Range(kv[u][cxa_key]) \cup {o}
      BY <1>7, <2>3 DEF Put
    <2> QED
      BY <1>3, <2>3, <2>4, <2>6, <2>7, <2>8
  <1> QED
    BY <1>8, <1>9

\* What a destructor may do to its thread's pass.
LEMMA PutKeepsPass ==
    ASSUME TlsIInv, NEW t \in Tasks, NEW o \in Objs, NEW k0 \in Keys, Put(t, o, k0),
           run' = run, \A u \in Tasks \ {t} : pass'[u] = pass[u],
           run[t] = "exit" => pass'[t].called
    PROVE  PassInv'
  <1> USE DEF TlsIInv
  <1> SUFFICES ASSUME NEW u \in Tasks, run[u] = "exit", ~pass'[u].called,
                      NEW k \in Keys, k < pass'[u].k, s_destructors'[k]
               PROVE  kv'[u][k] = <<>>
    BY DEF PassInv
  <1>1. u # t /\ pass'[u] = pass[u]
    OBVIOUS
  <1>2. kv'[u][k] = kv[u][k]
    BY <1>1 DEF Put
  <1>3. CASE k = s_next_key
    <2>1. k >= s_next_key
      BY <1>3 DEF TypeInv
    <2> QED
      BY <1>2, <2>1, Zenon DEF KeysInv
  <1>4. CASE k # s_next_key
    <2>1. s_destructors[k]
      BY <1>4, Zenon DEF Put
    <2> QED
      BY <1>1, <1>2, <2>1, Zenon DEF PassInv
  <1> QED
    BY <1>3, <1>4

\* The types, when an object is put.
LEMMA PutKeepsTypes ==
    ASSUME TypeInv, NEW t \in Tasks, NEW o \in Objs, NEW k0 \in Keys, Put(t, o, k0),
           UNCHANGED <<s_initialized, tls, run>>,
           pass' \in [Tasks -> [i : Nat, k : Nat, called : BOOLEAN, cur : Seq(Objs)]],
           runs' \in [Objs -> Nat]
    PROVE  TypeInv'
  <1>1. owner' \in [Objs -> Tasks \cup {"none"}]
    BY DEF Put, TypeInv
  <1>2. atexit' \in SUBSET Objs /\ late' \in SUBSET Objs
    BY DEF Put, TypeInv
  <1> QED
    BY <1>1, <1>2 DEF Put, TypeInv

\* Use(t), a task that is not in its passes, keeps the invariant.
LEMMA UseStep ==
    ASSUME TlsIInv, NEW t \in Tasks, Use(t) PROVE TlsIInv'
  <1> USE DEF TlsIInv
  <1>1. PICK o \in Objs, k0 \in Keys : Put(t, o, k0)
    BY SetSlotPuts, AtExitPuts DEF Use
  <1>2. run[t] = "run" /\ UNCHANGED <<s_initialized, tls, run, pass, runs>>
    BY DEF Use
  <1>3. TypeInv'
    BY <1>1, <1>2, PutKeepsTypes DEF TypeInv
  <1>4. BirthInv' /\ KeysInv'
    BY <1>1, PutKeepsBirthAndKeys
  <1>5. PlacesInv'
    <2> DEFINE New == {o}
               Dead == {}
    <2>1. New \in SUBSET Objs /\ Dead \in SUBSET Objs
      OBVIOUS
    <2>2. /\ \A p \in New : owner[p] = "none" /\ owner'[p] = t
          /\ \A p \in Objs \ New : owner'[p] = owner[p]
          /\ \A p \in Objs \ Dead : runs'[p] = runs[p]
          /\ \A p \in Dead : runs'[p] = 1 /\ owner[p] # "none"
      BY <1>1, <1>2 DEF Put, TypeInv
    <2>3. ASSUME NEW u \in Tasks, NEW k \in Keys
          PROVE  /\ kv'[u][k] \in Seq(Objs) /\ Decreasing(kv'[u][k])
                 /\ Range(kv'[u][k]) \subseteq
                       Range(kv[u][k]) \cup (IF u = t /\ k = k0 THEN New ELSE {})
                 /\ Dead \cap Range(kv'[u][k]) = {}
      <3>1. kv'[u][k] \in Seq(Objs)
        BY <1>1 DEF Put
      <3>2. CASE u = t /\ k = k0
        BY <1>1, <3>1, <3>2 DEF Put
      <3>3. CASE ~(u = t /\ k = k0)
        BY <1>1, <3>1, <3>3 DEF Put, PlacesInv
      <3> QED
        BY <3>2, <3>3
    <2>4. ASSUME NEW u \in Tasks
          PROVE  /\ pass'[u].cur \in Seq(Objs) /\ Decreasing(pass'[u].cur)
                 /\ Range(pass'[u].cur) \subseteq Range(pass[u].cur)
                 /\ Dead \cap Range(pass'[u].cur) = {}
      BY <1>2 DEF TypeInv, PlacesInv
    <2> HIDE DEF New, Dead
    <2>5. Changed(t, k0, New, Dead)
      BY <2>2, <2>3, <2>4, Zenon DEF Changed
    <2> QED
      BY <2>1, <2>5, PlacesStep
  <1>6. ThreadInv'
    BY <1>1, <1>2 DEF Put, ThreadInv, TypeInv
  <1>7. EarlyInv'
    <2> DEFINE Dead == {}
    <2>1. /\ Dead \in SUBSET Objs
          /\ \A u \in Tasks : Range(pass'[u].cur) = Range(pass[u].cur) \ Dead
          /\ \A p \in Dead : runs'[p] = 1
          /\ \A p \in Objs \ Dead : runs'[p] = runs[p]
      BY <1>2
    <2> HIDE DEF Dead
    <2> QED
      BY <1>1, <1>2, <2>1, PutKeepsEarly
  <1>8. PassInv'
    BY <1>1, <1>2, PutKeepsPass
  <1> QED
    BY <1>3, <1>4, <1>5, <1>6, <1>7, <1>8
------------------------------------------------------------------------------
(* The passes.                                                             *)

\* DestroyObject destroys the first object of the list, which has an owner and
\* is in no slot.
Killed(t, h) ==
    /\ t \in Threads /\ pass[t].called
    /\ h \in Range(pass[t].cur) /\ owner[h] = t /\ runs[h] = 0
    /\ \A p \in Range(pass[t].cur) : p <= h
    /\ runs' \in [Objs -> Nat] /\ runs'[h] = 1 /\ \A p \in Objs \ {h} : runs'[p] = runs[p]
    /\ pass' \in [Tasks -> [i : Nat, k : Nat, called : BOOLEAN, cur : Seq(Objs)]]
    /\ \A u \in Tasks \ {t} : pass'[u] = pass[u]
    /\ pass'[t].called
    /\ Decreasing(pass'[t].cur) /\ Range(pass'[t].cur) = Range(pass[t].cur) \ {h}

\* That is what the step does.
LEMMA KillFacts ==
    ASSUME TlsIInv, NEW t \in Tasks, DestroyObject(t)
    PROVE  Head(pass[t].cur) \in Objs /\ Killed(t, Head(pass[t].cur))
  <1> USE DEF TlsIInv
  <1> DEFINE c == pass[t].cur
             h == Head(c)
             n == IF Len(c) = 1 THEN pass[t].k + 1 ELSE pass[t].k
             q == [pass[t] EXCEPT !.cur = Tail(c), !.k = n]
  <1>1. run[t] = "exit" /\ c # <<>> /\ c \in Seq(Objs) /\ Decreasing(c)
    BY DEF DestroyObject, TypeInv, PlacesInv
  <1>2. /\ h \in Range(c) /\ h \in Objs /\ Tail(c) \in Seq(Objs) /\ Decreasing(Tail(c))
        /\ Range(Tail(c)) = Range(c) \ {h} /\ \A p \in Range(c) : p <= h
    BY <1>1, HeadAndTail
  <1>3. owner[h] = t /\ runs[h] = 0
    BY <1>2 DEF PlacesInv
  <1>4. t \in Threads /\ pass[t].called
    BY <1>1 DEF ThreadInv
  <1>5. runs' \in [Objs -> Nat] /\ runs'[h] = 1 /\ \A p \in Objs \ {h} : runs'[p] = runs[p]
    BY <1>2, <1>3 DEF DestroyObject, TypeInv
  <1>6. pass' = [pass EXCEPT ![t] = q]
    BY DEF DestroyObject, TypeInv
  <1>7. q \in [i : Nat, k : Nat, called : BOOLEAN, cur : Seq(Objs)]
    <2>1. n \in Nat /\ pass[t] \in [i : Nat, k : Nat, called : BOOLEAN, cur : Seq(Objs)]
      BY DEF TypeInv
    <2> HIDE DEF n
    <2> QED
      BY <1>2, <2>1
  <1>8. q.cur = Tail(c) /\ q.called = pass[t].called
    BY DEF TypeInv
  <1> HIDE DEF q
  <1>9. pass'[t] = q /\ \A u \in Tasks \ {t} : pass'[u] = pass[u]
    BY <1>6 DEF TypeInv
  <1>10. pass' \in [Tasks -> [i : Nat, k : Nat, called : BOOLEAN, cur : Seq(Objs)]]
    BY <1>6, <1>7 DEF TypeInv
  <1> QED
    BY <1>2, <1>3, <1>4, <1>5, <1>8, <1>9, <1>10, Zenon DEF Killed

\* The part of Changed that a destructor does: New appears in the slot k0.
SlotChanged(t, k0, New) ==
    /\ \A p \in New : owner[p] = "none" /\ owner'[p] = t
    /\ \A p \in Objs \ New : owner'[p] = owner[p]
    /\ \A u \in Tasks : \A k \in Keys :
          /\ kv'[u][k] \in Seq(Objs) /\ Decreasing(kv'[u][k])
          /\ Range(kv'[u][k]) \subseteq
                Range(kv[u][k]) \cup (IF u = t /\ k = k0 THEN New ELSE {})

\* The places, when an object h is destroyed and the slot k0 changes by New.
LEMMA KillPlaces ==
    ASSUME TlsIInv, NEW t \in Tasks, NEW h \in Objs, Killed(t, h),
           NEW k0 \in Keys, NEW New \in SUBSET Objs, SlotChanged(t, k0, New)
    PROVE  PlacesInv'
  <1> USE DEF TlsIInv, SlotChanged
  <1> DEFINE Dead == {h}
  <1>1. owner[h] = t /\ t # "none" /\ h \notin New
    BY TlsAssumption DEF Killed, Tasks
  <1>2. /\ \A p \in Objs \ Dead : runs'[p] = runs[p]
        /\ \A p \in Dead : runs'[p] = 1 /\ owner[p] # "none"
    BY <1>1 DEF Killed
  <1>3. ASSUME NEW u \in Tasks, NEW k \in Keys PROVE Dead \cap Range(kv'[u][k]) = {}
    <2>1. h \notin Range(kv[u][k])
      <3>1. CASE u = t
        <4>1. h \in Range(pass[t].cur)
          BY DEF Killed
        <4>2. Range(kv[t][k]) \cap Range(pass[t].cur) = {}
          BY DEF PlacesInv
        <4> QED
          BY <3>1, <4>1, <4>2
      <3>2. CASE u # t
        BY <1>1, <3>2 DEF PlacesInv
      <3> QED
        BY <3>1, <3>2
    <2>2. Range(kv'[u][k]) \subseteq Range(kv[u][k]) \cup New
      OBVIOUS
    <2> QED
      BY <1>1, <2>1, <2>2
  <1>4. ASSUME NEW u \in Tasks
        PROVE  /\ pass'[u].cur \in Seq(Objs) /\ Decreasing(pass'[u].cur)
               /\ Range(pass'[u].cur) \subseteq Range(pass[u].cur)
               /\ Dead \cap Range(pass'[u].cur) = {}
    <2>1. pass'[u].cur \in Seq(Objs)
      BY DEF Killed
    <2>2. CASE u = t
      BY <2>1, <2>2 DEF Killed
    <2>3. CASE u # t
      <3>1. pass'[u] = pass[u] /\ Decreasing(pass[u].cur)
        BY <2>3 DEF Killed, PlacesInv
      <3>2. h \notin Range(pass[u].cur)
        BY <1>1, <2>3 DEF PlacesInv
      <3> QED
        BY <2>1, <3>1, <3>2
    <2> QED
      BY <2>2, <2>3
  <1>5. Dead \in SUBSET Objs
    OBVIOUS
  <1> HIDE DEF Dead
  <1>6. Changed(t, k0, New, Dead)
    BY <1>2, <1>3, <1>4, Zenon DEF Changed
  <1> QED
    BY <1>5, <1>6, PlacesStep

\* DestroyObject keeps the invariant, whatever the destructor does.
LEMMA DestroyStep ==
    ASSUME TlsIInv, NEW t \in Tasks, DestroyObject(t) PROVE TlsIInv'
  <1> USE DEF TlsIInv
  <1>1. PICK h \in Objs : Killed(t, h)
    BY KillFacts
  <1>2. run[t] = "exit" /\ UNCHANGED <<s_initialized, tls, run>>
    BY DEF DestroyObject
  <1>3. \A u \in Tasks : Range(pass'[u].cur) = Range(pass[u].cur) \ {h}
    <2>1. ASSUME NEW u \in Tasks, u # t PROVE h \notin Range(pass[u].cur) /\ pass'[u] = pass[u]
      BY <1>1, <2>1 DEF Killed, PlacesInv
    <2>2. Range(pass'[t].cur) = Range(pass[t].cur) \ {h}
      BY <1>1 DEF Killed
    <2> QED
      BY <2>1, <2>2
  <1>4. ASSUME \A p \in Objs : owner'[p] = owner[p] \/ owner'[p] = t PROVE ThreadInv'
    <2>1. /\ \A u \in Tasks \ {t} : pass'[u] = pass[u]
          /\ pass'[t].called /\ run[t] = "exit" /\ t \in Threads
      BY <1>1, <1>2 DEF Killed
    <2>2. ASSUME NEW u \in Tasks
          PROVE  /\ run[u] # "exit" => pass'[u].cur = <<>>
                 /\ run[u] \in {"new", "run"} => pass'[u].k = 0
                 /\ pass'[u].cur # <<>> => pass'[u].called
      <3>1. CASE u = t
        BY <2>1, <3>1
      <3>2. CASE u # t
        BY <2>1, <3>2 DEF ThreadInv
      <3> QED
        BY <3>1, <3>2
    <2>3. ASSUME NEW u \in Threads, run[u] = "new", NEW o \in Objs PROVE owner'[o] # u
      BY <1>4, <2>1, <2>3 DEF ThreadInv
    <2> QED
      BY <1>2, <2>2, <2>3 DEF ThreadInv
  <1>5. ASSUME NEW o \in Objs, NEW k0 \in Keys, Put(t, o, k0) PROVE TlsIInv'
    <2>1. TypeInv'
      BY <1>1, <1>2, <1>5, PutKeepsTypes DEF Killed
    <2>2. BirthInv' /\ KeysInv'
      BY <1>5, PutKeepsBirthAndKeys
    <2>3. PlacesInv'
      <3> DEFINE New == {o}
      <3>1. /\ New \in SUBSET Objs
            /\ \A p \in New : owner[p] = "none" /\ owner'[p] = t
            /\ \A p \in Objs \ New : owner'[p] = owner[p]
        BY <1>5 DEF Put, TypeInv
      <3>2. ASSUME NEW u \in Tasks, NEW k \in Keys
            PROVE  /\ kv'[u][k] \in Seq(Objs) /\ Decreasing(kv'[u][k])
                   /\ Range(kv'[u][k]) \subseteq
                         Range(kv[u][k]) \cup (IF u = t /\ k = k0 THEN New ELSE {})
        <4>1. kv'[u][k] \in Seq(Objs)
          BY <1>5 DEF Put
        <4>2. CASE u = t /\ k = k0
          BY <1>5, <4>1, <4>2 DEF Put
        <4>3. CASE ~(u = t /\ k = k0)
          BY <1>5, <4>1, <4>3 DEF Put, PlacesInv
        <4> QED
          BY <4>2, <4>3
      <3> HIDE DEF New
      <3>3. SlotChanged(t, k0, New)
        BY <3>1, <3>2, Zenon DEF SlotChanged
      <3> QED
        BY <1>1, <3>1, <3>3, KillPlaces
    <2>4. ThreadInv'
      <3>1. \A p \in Objs : owner'[p] = owner[p] \/ owner'[p] = t
        BY <1>5 DEF Put, TypeInv
      <3> QED
        BY <1>4, <3>1
    <2>5. EarlyInv'
      <3> DEFINE Dead == {h}
      <3>1. /\ Dead \in SUBSET Objs
            /\ \A u \in Tasks : Range(pass'[u].cur) = Range(pass[u].cur) \ Dead
            /\ \A p \in Dead : runs'[p] = 1
            /\ \A p \in Objs \ Dead : runs'[p] = runs[p]
        BY <1>1, <1>3 DEF Killed
      <3> HIDE DEF Dead
      <3> QED
        BY <1>2, <1>5, <3>1, PutKeepsEarly
    <2>6. PassInv'
      BY <1>1, <1>2, <1>5, PutKeepsPass DEF Killed
    <2> QED
      BY <2>1, <2>2, <2>3, <2>4, <2>5, <2>6
  <1>6. ASSUME UNCHANGED <<kv, keyVars, objVars>> PROVE TlsIInv'
    <2> USE <1>2, <1>6 DEF keyVars, objVars
    <2>1. TypeInv'
      BY <1>1 DEF Killed, TypeInv
    <2>2. BirthInv' /\ KeysInv'
      BY DEF BirthInv, KeysInv
    <2>3. PlacesInv'
      <3> DEFINE New == {}
                 k0 == 0
      <3>1. /\ New \in SUBSET Objs /\ k0 \in Keys
            /\ \A p \in New : owner[p] = "none" /\ owner'[p] = t
            /\ \A p \in Objs \ New : owner'[p] = owner[p]
        BY TlsAssumption DEF Keys
      <3>2. ASSUME NEW u \in Tasks, NEW k \in Keys
            PROVE  /\ kv'[u][k] \in Seq(Objs) /\ Decreasing(kv'[u][k])
                   /\ Range(kv'[u][k]) \subseteq
                         Range(kv[u][k]) \cup (IF u = t /\ k = k0 THEN New ELSE {})
        BY DEF TypeInv, PlacesInv
      <3> HIDE DEF New, k0
      <3>3. SlotChanged(t, k0, New)
        BY <3>1, <3>2, Zenon DEF SlotChanged
      <3> QED
        BY <1>1, <3>1, <3>3, KillPlaces
    <2>4. ThreadInv'
      BY <1>4
    <2>5. EarlyInv'
      BY <1>1, <1>3, ZenonT(60) DEF Killed, EarlyInv, Early, TypeInv, Tasks
    <2>6. PassInv'
      BY <1>1 DEF Killed, PassInv
    <2> QED
      BY <2>1, <2>2, <2>3, <2>4, <2>5, <2>6
  <1> QED
    BY <1>5, <1>6, SetSlotPuts, AtExitPuts DEF DestroyObject

\* Slots that are emptied: the invariants of the places and of the keys.
LEMMA EmptiedStep ==
    ASSUME TlsIInv, NEW t \in Tasks, UNCHANGED <<keyVars, objVars, runs>>,
           \A u \in Tasks : \A k \in Keys : kv'[u][k] = kv[u][k] \/ kv'[u][k] = <<>>,
           \A u \in Tasks : pass'[u].cur = pass[u].cur
    PROVE  PlacesInv' /\ BirthInv' /\ KeysInv'
  <1> USE DEF TlsIInv, keyVars, objVars
  <1> DEFINE None == {}
             k0 == 0
  <1>1. None \in SUBSET Objs /\ k0 \in Keys
    BY TlsAssumption DEF Keys
  <1>2. <<>> \in Seq(Objs) /\ Range(<<>>) = {} /\ Decreasing(<<>>)
    BY EmptyList
  <1>3. ASSUME NEW u \in Tasks, NEW k \in Keys
        PROVE  /\ kv'[u][k] \in Seq(Objs) /\ Decreasing(kv'[u][k])
               /\ Range(kv'[u][k]) \subseteq
                     Range(kv[u][k]) \cup (IF u = t /\ k = k0 THEN None ELSE {})
               /\ None \cap Range(kv'[u][k]) = {}
    <2>1. CASE kv'[u][k] = kv[u][k]
      BY <2>1 DEF TypeInv, PlacesInv
    <2>2. CASE kv'[u][k] = <<>>
      BY <1>2, <2>2
    <2> QED
      BY <2>1, <2>2
  <1>4. ASSUME NEW u \in Tasks
        PROVE  /\ pass'[u].cur \in Seq(Objs) /\ Decreasing(pass'[u].cur)
               /\ Range(pass'[u].cur) \subseteq Range(pass[u].cur)
               /\ None \cap Range(pass'[u].cur) = {}
    BY DEF TypeInv, PlacesInv
  <1>5. Changed(t, k0, None, None)
    BY <1>3, <1>4 DEF Changed
  <1>6. KeysInv'
    <2>1. ASSUME NEW u \in Tasks, NEW k \in Keys, k # cxa_key
          PROVE  Range(kv'[u][k]) \cap atexit = {}
      BY <1>2, <2>1 DEF KeysInv
    <2>2. ASSUME NEW u \in Tasks, NEW k \in Keys, k >= s_next_key PROVE kv'[u][k] = <<>>
      BY <2>2, Zenon DEF KeysInv
    <2> QED
      BY <2>1, <2>2 DEF KeysInv
  <1> HIDE DEF None, k0
  <1>7. PlacesInv'
    BY <1>1, <1>5, PlacesStep
  <1> QED
    BY <1>6, <1>7 DEF BirthInv

\* __libcpp_thread_create keeps the invariant.
LEMMA CreateStep ==
    ASSUME TlsIInv, NEW c \in Tasks, NEW t \in Threads, Create(c, t) PROVE TlsIInv'
  <1> USE DEF TlsIInv
  <1>1. /\ run[c] = "run" /\ run[t] = "new" /\ s_initialized' = TRUE
        /\ tls' = [u \in Tasks |-> tls[u] \/ u = t \/ (u = c /\ ~s_initialized)]
        /\ kv' = IF s_initialized THEN kv ELSE [kv EXCEPT ![c] = EmptyKv]
        /\ run' = [run EXCEPT ![t] = "run"]
        /\ UNCHANGED <<keyVars, pass, objVars, runs>>
    BY DEF Create
  <1>2. t \in Tasks
    BY DEF Tasks
  <1>3. EmptyKv \in [Keys -> Seq(Objs)] /\ \A k \in Keys : EmptyKv[k] = <<>>
    BY EmptySeq DEF EmptyKv
  <1>4. /\ kv' \in [Tasks -> [Keys -> Seq(Objs)]]
        /\ \A u \in Tasks : kv'[u] = kv[u] \/ (u = c /\ ~s_initialized /\ kv'[u] = EmptyKv)
    BY <1>1, <1>3 DEF TypeInv
  <1>5. \A u \in Tasks : \A k \in Keys : kv'[u][k] = kv[u][k] \/ kv'[u][k] = <<>>
    BY <1>3, <1>4
  <1>6. /\ run' \in [Tasks -> {"new", "run", "exit", "gone"}] /\ run'[t] = "run"
        /\ \A u \in Tasks \ {t} : run'[u] = run[u]
    BY <1>1, <1>2 DEF TypeInv
  <1>7. tls' \in [Tasks -> BOOLEAN] /\ \A u \in Tasks : tls[u] \/ u = t => tls'[u]
    BY <1>1, <1>2, Zenon DEF TypeInv
  <1>8. TypeInv'
    BY <1>1, <1>4, <1>6, <1>7 DEF TypeInv, keyVars, objVars
  <1>9. PlacesInv' /\ BirthInv' /\ KeysInv'
    BY <1>1, <1>5, EmptiedStep
  <1>10. \A u \in Threads : run[u] # "new" => kv'[u] = kv[u]
    BY <1>1, <1>4 DEF ThreadInv, Tasks
  <1>11. ThreadInv'
    <2>1. pass' = pass /\ owner' = owner
      BY <1>1 DEF objVars
    <2>2. ASSUME NEW u \in Threads, run'[u] \in {"run", "exit"} PROVE tls'[u]
      <3>1. u \in Tasks
        BY DEF Tasks
      <3>2. CASE u = t
        BY <1>7, <3>1, <3>2, Zenon
      <3>3. CASE u # t
        <4>1. tls[u]
          BY <1>6, <2>2, <3>1, <3>3 DEF ThreadInv
        <4> QED
          BY <1>7, <3>1, <4>1, Zenon
      <3> QED
        BY <3>2, <3>3
    <2>3. \A u \in Tasks \ Threads : run'[u] = "run"
      BY <1>6 DEF ThreadInv
    <2>4. ASSUME NEW u \in Tasks
          PROVE  /\ run'[u] # "exit" => pass[u].cur = <<>>
                 /\ run'[u] \in {"new", "run"} => pass[u].k = 0
                 /\ pass[u].cur # <<>> => pass[u].called
      <3>1. CASE u = t
        BY <1>1, <1>2, <3>1 DEF ThreadInv
      <3>2. CASE u # t
        BY <1>6, <3>2 DEF ThreadInv
      <3> QED
        BY <3>1, <3>2
    <2>5. \A u \in Threads : run'[u] = "new" => \A o \in Objs : owner[o] # u
      BY <1>2, <1>6 DEF ThreadInv, Tasks
    <2> QED
      BY <1>1, <2>1, <2>2, <2>3, <2>4, <2>5, Zenon DEF ThreadInv
  <1>12. EarlyInv'
    <2> SUFFICES ASSUME NEW u \in Threads, run'[u] \in {"run", "exit"}
                 PROVE  /\ \A o \in Early : owner[o] = u =>
                              \/ runs[o] = 1 \/ o \in Range(pass[u].cur)
                              \/ o \in Range(kv'[u][cxa_key])
                        /\ Range(pass[u].cur) \cap Early # {} =>
                              Range(kv'[u][cxa_key]) \cap Early = {}
      BY <1>1, Zenon DEF EarlyInv, Early, keyVars, objVars
    <2>1. CASE u = t
      <3>1. pass[t].cur = <<>> /\ \A o \in Objs : owner[o] # t
        BY <1>1, <1>2 DEF ThreadInv
      <3>2. Range(pass[t].cur) = {}
        BY <1>2, <3>1, RangeFacts DEF TypeInv
      <3> QED
        BY <2>1, <3>1, <3>2 DEF Early, TypeInv
    <2>2. CASE u # t
      <3>1. run[u] = run'[u] /\ kv'[u] = kv[u]
        BY <1>6, <1>10, <2>2 DEF Tasks
      <3> QED
        BY <3>1 DEF EarlyInv
    <2> QED
      BY <2>1, <2>2
  <1>13. PassInv'
    <2> SUFFICES ASSUME NEW u \in Tasks, run'[u] = "exit", ~pass[u].called,
                        NEW k \in Keys, k < pass[u].k, s_destructors[k]
                 PROVE  kv'[u][k] = <<>>
      BY <1>1, Zenon DEF PassInv, keyVars
    <2>1. run[u] = "exit"
      BY <1>6
    <2>2. kv[u][k] = <<>>
      BY <2>1, Zenon DEF PassInv
    <2> QED
      BY <1>5, <2>2
  <1> QED
    BY <1>8, <1>9, <1>11, <1>12, <1>13

\* __libcpp_tls_create keeps the invariant.
LEMMA TlsCreateStep ==
    ASSUME TlsIInv, NEW t \in Tasks, TlsCreate(t) PROVE TlsIInv'
  <1> USE DEF TlsIInv
  <1>1. PICK dtor \in BOOLEAN : NewKey(dtor)
    BY DEF TlsCreate
  <1>2. /\ s_next_key < MaxKeys /\ s_next_key' = s_next_key + 1
        /\ s_destructors' = [s_destructors EXCEPT ![s_next_key] = dtor]
    BY <1>1 DEF NewKey
  <1>3. UNCHANGED <<s_initialized, cxa_key, tls, kv, run, pass, owner, atexit, late, runs>>
    BY DEF TlsCreate, objVars
  <1>4. s_next_key' \in 0..MaxKeys /\ s_next_key <= s_next_key'
    BY <1>2, TlsAssumption DEF TypeInv
  <1>5. /\ s_destructors' \in [Keys -> BOOLEAN]
        /\ \A k \in Keys : k # s_next_key => s_destructors'[k] = s_destructors[k]
    BY <1>2, Zenon DEF TypeInv
  <1>6. TypeInv'
    BY <1>3, <1>4, <1>5 DEF TypeInv
  <1>7. PlacesInv' /\ BirthInv' /\ ThreadInv' /\ EarlyInv'
    <2>1. PlacesInv'
      <3>1. kv' = kv /\ pass' = pass /\ owner' = owner /\ runs' = runs
        BY <1>3
      <3> QED
        BY <3>1, PlacesUnchanged
    <2>2. BirthInv'
      BY <1>3, Zenon DEF BirthInv
    <2>3. ThreadInv'
      BY <1>3, Zenon DEF ThreadInv
    <2>4. EarlyInv'
      BY <1>3, Zenon DEF EarlyInv, Early
    <2> QED
      BY <2>1, <2>2, <2>3, <2>4
  <1>8. KeysInv'
    <2>1. ASSUME NEW k \in Keys, k >= s_next_key'
          PROVE  ~s_destructors'[k] /\ \A u \in Tasks : kv[u][k] = <<>>
      <3>1. k >= s_next_key /\ k # s_next_key
        BY <1>2, <2>1 DEF TypeInv, Keys
      <3> QED
        BY <1>5, <3>1, Zenon DEF KeysInv
    <2>2. cxa_key # -1 => cxa_key < s_next_key'
      BY <1>2 DEF KeysInv, TypeInv, Keys
    <2> QED
      BY <1>3, <2>1, <2>2 DEF KeysInv
  <1>9. PassInv'
    <2> SUFFICES ASSUME NEW u \in Tasks, run[u] = "exit", ~pass[u].called,
                        NEW k \in Keys, k < pass[u].k, s_destructors'[k]
                 PROVE  kv[u][k] = <<>>
      BY <1>3, Zenon DEF PassInv
    <2>1. CASE k = s_next_key
      <3>1. k >= s_next_key
        BY <2>1 DEF TypeInv
      <3> QED
        BY <3>1, Zenon DEF KeysInv
    <2>2. CASE k # s_next_key
      BY <1>5, <2>2, Zenon DEF PassInv
    <2> QED
      BY <2>1, <2>2
  <1> QED
    BY <1>6, <1>7, <1>8, <1>9

\* A thread whose function has returned is in its passes, and is a thread.
LEMMA ExitFacts ==
    ASSUME TlsIInv, NEW t \in Tasks, run[t] = "exit"
    PROVE  /\ t \in Threads /\ tls[t] /\ s_initialized
           /\ pass[t] \in [i : Nat, k : Nat, called : BOOLEAN, cur : Seq(Objs)]
  <1>1. t \in Threads
    BY DEF TlsIInv, ThreadInv
  <1> QED
    BY <1>1 DEF TlsIInv, ThreadInv, TypeInv

\* FunctionReturns keeps the invariant.
LEMMA ReturnStep ==
    ASSUME TlsIInv, NEW t \in Tasks, FunctionReturns(t) PROVE TlsIInv'
  <1> USE DEF TlsIInv
  <1>1. t \in Threads /\ run[t] = "run" /\ run' = [run EXCEPT ![t] = "exit"]
    BY DEF FunctionReturns
  <1>2. /\ UNCHANGED <<s_initialized, s_next_key, s_destructors, cxa_key, tls, kv, pass>>
        /\ UNCHANGED <<owner, atexit, late, runs>>
    BY DEF FunctionReturns, keyVars, objVars
  <1>3. /\ run' \in [Tasks -> {"new", "run", "exit", "gone"}] /\ run'[t] = "exit"
        /\ \A u \in Tasks \ {t} : run'[u] = run[u]
    BY <1>1 DEF TypeInv
  <1>4. TypeInv'
    BY <1>2, <1>3 DEF TypeInv
  <1>5. PlacesInv'
    <2> HIDE DEF TlsIInv
    <2>1. PlacesInv
      BY DEF TlsIInv
    <2>2. kv' = kv /\ pass' = pass /\ owner' = owner /\ runs' = runs
      BY <1>2
    <2> QED
      BY <2>1, <2>2, PlacesUnchanged, Zenon
  <1>6. BirthInv' /\ KeysInv'
    BY <1>2 DEF BirthInv, KeysInv
  <1>7. ThreadInv'
    <2>1. ASSUME NEW u \in Tasks
          PROVE  /\ u \in Threads /\ run'[u] \in {"run", "exit"} => tls[u]
                 /\ u \notin Threads => run'[u] = "run"
                 /\ run'[u] # "exit" => pass[u].cur = <<>>
                 /\ run'[u] \in {"new", "run"} => pass[u].k = 0
                 /\ pass[u].cur # <<>> => pass[u].called
                 /\ u \in Threads /\ run'[u] = "new" => \A o \in Objs : owner[o] # u
      <3>1. CASE u = t
        BY <1>1, <1>3, <3>1 DEF ThreadInv
      <3>2. CASE u # t
        BY <1>3, <3>2 DEF ThreadInv
      <3> QED
        BY <3>1, <3>2
    <2>2. s_initialized
      BY <1>1 DEF ThreadInv
    <2> QED
      BY <1>2, <2>1, <2>2 DEF ThreadInv, Tasks
  <1>8. EarlyInv'
    <2>1. ASSUME NEW u \in Threads, run'[u] \in {"run", "exit"} PROVE run[u] \in {"run", "exit"}
      BY <1>1, <1>3, <2>1 DEF Tasks
    <2> QED
      BY <1>2, <2>1 DEF EarlyInv, Early
  <1>9. PassInv'
    <2> SUFFICES ASSUME NEW u \in Tasks, run'[u] = "exit", ~pass[u].called,
                        NEW k \in Keys, k < pass[u].k, s_destructors[k]
                 PROVE  kv[u][k] = <<>>
      BY <1>2, Zenon DEF PassInv
    <2>1. CASE u = t
      BY <1>1, <2>1 DEF ThreadInv, Keys
    <2>2. CASE u # t
      <3>1. run[u] = "exit"
        BY <1>3, <2>2
      <3> QED
        BY <3>1, Zenon DEF PassInv
    <2> QED
      BY <2>1, <2>2
  <1> QED
    BY <1>4, <1>5, <1>6, <1>7, <1>8, <1>9

\* The loop of Run goes on, in this pass or the next, and touches no object.
LEMMA LoopStep ==
    ASSUME TlsIInv, NEW t \in Tasks, run[t] = "exit",
           NEW q \in [i : Nat, k : Nat, called : BOOLEAN, cur : Seq(Objs)],
           q.cur = <<>>, pass[t].cur = <<>>, pass' = [pass EXCEPT ![t] = q],
           UNCHANGED <<s_initialized, keyVars, tls, kv, run, objVars, runs>>,
           ~q.called => \A k \in Keys : k < q.k /\ s_destructors[k] => kv[t][k] = <<>>
    PROVE  TlsIInv'
  <1> USE DEF TlsIInv, keyVars, objVars
  <1>1. /\ pass' \in [Tasks -> [i : Nat, k : Nat, called : BOOLEAN, cur : Seq(Objs)]]
        /\ pass'[t] = q /\ \A u \in Tasks \ {t} : pass'[u] = pass[u]
    BY DEF TypeInv
  <1>2. \A u \in Tasks : pass'[u].cur = pass[u].cur
    BY <1>1
  <1>3. TypeInv'
    BY <1>1 DEF TypeInv
  <1>4. PlacesInv' /\ BirthInv' /\ KeysInv'
    BY <1>2, EmptiedStep
  <1>5. ThreadInv'
    <2>1. ASSUME NEW u \in Tasks
          PROVE  /\ run[u] # "exit" => pass'[u].cur = <<>>
                 /\ run[u] \in {"new", "run"} => pass'[u].k = 0
                 /\ pass'[u].cur # <<>> => pass'[u].called
      <3>1. CASE u = t
        BY <1>1, <3>1
      <3>2. CASE u # t
        BY <1>1, <3>2 DEF ThreadInv
      <3> QED
        BY <3>1, <3>2
    <2> QED
      BY <2>1 DEF ThreadInv
  <1>6. EarlyInv'
    BY <1>2 DEF EarlyInv, Early, Tasks
  <1>7. PassInv'
    <2> SUFFICES ASSUME NEW u \in Tasks, run[u] = "exit", ~pass'[u].called,
                        NEW k \in Keys, k < pass'[u].k, s_destructors[k]
                 PROVE  kv[u][k] = <<>>
      BY DEF PassInv
    <2>1. CASE u = t
      BY <1>1, <2>1, Zenon
    <2>2. CASE u # t
      BY <1>1, <2>2 DEF PassInv
    <2> QED
      BY <2>1, <2>2
  <1> QED
    BY <1>3, <1>4, <1>5, <1>6, <1>7

\* SkipSlot and NextPass keep the invariant.
LEMMA SkipStep ==
    ASSUME TlsIInv, NEW t \in Tasks, SkipSlot(t) \/ NextPass(t) PROVE TlsIInv'
  <1>1. /\ pass \in [Tasks -> [i : Nat, k : Nat, called : BOOLEAN, cur : Seq(Objs)]]
        /\ s_next_key \in Nat
    BY DEF TlsIInv, TypeInv
  <1>2. CASE SkipSlot(t)
    <2> DEFINE q == [pass[t] EXCEPT !.k = pass[t].k + 1]
    <2>1. /\ run[t] = "exit" /\ pass[t].cur = <<>>
          /\ kv[t][pass[t].k] = <<>> \/ ~s_destructors[pass[t].k]
          /\ UNCHANGED <<s_initialized, keyVars, tls, kv, run, objVars, runs>>
      BY <1>2 DEF SkipSlot
    <2>2. pass' = [pass EXCEPT ![t] = q]
      BY <1>1, <1>2 DEF SkipSlot
    <2>3. /\ q \in [i : Nat, k : Nat, called : BOOLEAN, cur : Seq(Objs)]
          /\ q.cur = <<>> /\ q.called = pass[t].called /\ q.k = pass[t].k + 1
      BY <1>1, <2>1, SMTT(30)
    <2> HIDE DEF q
    <2>4. ASSUME ~q.called, NEW k \in Keys, k < q.k, s_destructors[k] PROVE kv[t][k] = <<>>
      <3>1. k < pass[t].k \/ k = pass[t].k
        BY <1>1, <2>3, <2>4 DEF Keys
      <3>2. CASE k < pass[t].k
        BY <2>1, <2>3, <2>4, <3>2, Zenon DEF TlsIInv, PassInv
      <3>3. CASE k = pass[t].k
        BY <2>1, <2>4, <3>3
      <3> QED
        BY <3>1, <3>2, <3>3
    <2> QED
      BY <2>1, <2>2, <2>3, <2>4, LoopStep
  <1>3. CASE NextPass(t)
    <2> DEFINE q == [NoPass EXCEPT !.i = pass[t].i + 1]
    <2>1. /\ run[t] = "exit" /\ pass[t].cur = <<>>
          /\ UNCHANGED <<s_initialized, keyVars, tls, kv, run, objVars, runs>>
          /\ pass' = [pass EXCEPT ![t] = q]
      BY <1>3 DEF NextPass, PassEnds
    <2>2. /\ NoPass \in [i : Nat, k : Nat, called : BOOLEAN, cur : Seq(Objs)]
          /\ NoPass.cur = <<>> /\ NoPass.k = 0 /\ pass[t].i + 1 \in Nat
      BY <1>1 DEF NoPass
    <2>3. q \in [i : Nat, k : Nat, called : BOOLEAN, cur : Seq(Objs)] /\ q.cur = <<>> /\ q.k = 0
      BY <2>2
    <2> HIDE DEF q
    <2>4. \A k \in Keys : ~(k < q.k)
      BY <2>3 DEF Keys
    <2> QED
      BY <2>1, <2>3, <2>4, LoopStep
  <1> QED
    BY <1>2, <1>3

\* EnterSlot moves the objects of a slot to the list that is destroyed.
LEMMA EnterStep ==
    ASSUME TlsIInv, NEW t \in Tasks, EnterSlot(t) PROVE TlsIInv'
  <1> USE DEF TlsIInv
  <1> DEFINE k0 == pass[t].k
             c == kv[t][k0]
             q == [pass[t] EXCEPT !.cur = c, !.called = TRUE]
  <1>1. /\ run[t] = "exit" /\ pass[t].cur = <<>> /\ k0 < s_next_key
        /\ c # <<>> /\ s_destructors[k0]
        /\ UNCHANGED <<s_initialized, s_next_key, s_destructors, cxa_key, tls, run>>
        /\ UNCHANGED <<owner, atexit, late, runs>>
    BY DEF EnterSlot, keyVars, objVars
  <1>2. k0 \in Keys /\ c \in Seq(Objs) /\ pass[t] \in [i : Nat, k : Nat, called : BOOLEAN, cur : Seq(Objs)]
    BY <1>1, TlsAssumption DEF TypeInv, Keys
  <1>3. pass' = [pass EXCEPT ![t] = q]
    BY DEF EnterSlot, TypeInv
  <1>4. /\ q \in [i : Nat, k : Nat, called : BOOLEAN, cur : Seq(Objs)]
        /\ q.cur = c /\ q.called = TRUE /\ q.k = k0
    BY <1>2
  <1> HIDE DEF q
  <1>5. /\ pass' \in [Tasks -> [i : Nat, k : Nat, called : BOOLEAN, cur : Seq(Objs)]]
        /\ pass'[t] = q /\ \A u \in Tasks \ {t} : pass'[u] = pass[u]
    BY <1>3, <1>4 DEF TypeInv
  <1>6. /\ kv' \in [Tasks -> [Keys -> Seq(Objs)]]
        /\ \A u \in Tasks : \A k \in Keys : u # t \/ k # k0 => kv'[u][k] = kv[u][k]
        /\ kv'[t][k0] = <<>>
    <2>1. kv \in [Tasks -> [Keys -> Seq(Objs)]]
      BY DEF TypeInv
    <2>2. kv' = [kv EXCEPT ![t] = [kv[t] EXCEPT ![k0] = <<>>]]
      BY <2>1 DEF EnterSlot
    <2>3. [kv[t] EXCEPT ![k0] = <<>>] \in [Keys -> Seq(Objs)]
      BY <1>2, <2>1
    <2> QED
      BY <1>2, <2>1, <2>2, <2>3
  <1>7. /\ Range(kv'[t][k0]) = {} /\ Decreasing(kv'[t][k0]) /\ Range(pass[t].cur) = {}
        /\ pass'[t].cur = c /\ pass'[t].called /\ pass'[t].k = k0
    BY <1>1, <1>4, <1>5, <1>6, EmptyList
  <1> HIDE DEF c, k0
  <1>8. c = kv[t][k0]
    BY DEF c
  <1>9. TypeInv'
    BY <1>1, <1>5, <1>6 DEF TypeInv
  <1>10. PlacesInv'
    <2>1. ASSUME NEW u \in Tasks, NEW k \in Keys
          PROVE  /\ Range(kv'[u][k]) \subseteq Range(kv[u][k]) /\ Decreasing(kv'[u][k])
                 /\ u # t => Range(kv'[u][k]) \cap Range(pass'[u].cur) = {}
                 /\ u = t => Range(kv'[u][k]) \cap Range(c) = {}
      <3>1. CASE u = t /\ k = k0
        BY <1>7, <3>1
      <3>2. CASE u = t /\ k # k0
        <4>1. kv'[u][k] = kv[u][k] /\ Decreasing(kv[u][k])
          BY <1>6, <3>2 DEF PlacesInv
        <4>2. Range(kv[t][k]) \cap Range(kv[t][k0]) = {}
          BY <1>2, <3>2, Zenon DEF PlacesInv
        <4> QED
          BY <1>8, <3>2, <4>1, <4>2
      <3>3. CASE u # t
        <4>1. kv'[u][k] = kv[u][k] /\ Decreasing(kv[u][k]) /\ pass'[u] = pass[u]
          BY <1>5, <1>6, <3>3 DEF PlacesInv
        <4>2. Range(kv[u][k]) \cap Range(pass[u].cur) = {}
          BY DEF PlacesInv
        <4> QED
          BY <3>3, <4>1, <4>2
      <3> QED
        BY <3>1, <3>2, <3>3
    <2>2. ASSUME NEW u \in Tasks
          PROVE  /\ \A p \in Range(pass'[u].cur) : owner[p] = u /\ runs[p] = 0
                 /\ Decreasing(pass'[u].cur)
      <3>1. CASE u = t
        BY <1>2, <1>7, <1>8, <3>1 DEF PlacesInv
      <3>2. CASE u # t
        BY <1>5, <3>2 DEF PlacesInv
      <3> QED
        BY <3>1, <3>2
    <2>3. ASSUME NEW u \in Tasks, NEW k \in Keys, NEW l \in Keys, k # l
          PROVE  Range(kv'[u][k]) \cap Range(kv'[u][l]) = {}
      <3>1. Range(kv[u][k]) \cap Range(kv[u][l]) = {}
        BY <2>3 DEF PlacesInv
      <3>2. Range(kv'[u][k]) \subseteq Range(kv[u][k]) /\ Range(kv'[u][l]) \subseteq Range(kv[u][l])
        BY <2>1
      <3> QED
        BY <3>1, <3>2
    <2>4. ASSUME NEW u \in Tasks, NEW k \in Keys
          PROVE  Range(kv'[u][k]) \cap Range(pass'[u].cur) = {}
      BY <1>7, <2>1
    <2>5. ASSUME NEW u \in Tasks, NEW k \in Keys, NEW p \in Range(kv'[u][k])
          PROVE  owner'[p] = u /\ runs'[p] = 0
      BY <1>1, <2>1 DEF PlacesInv
    <2>6. \A p \in Objs : runs'[p] <= 1 /\ (owner'[p] = "none" => runs'[p] = 0)
      BY <1>1 DEF PlacesInv
    <2>7. \A u \in Tasks : \A p \in Range(pass'[u].cur) : owner'[p] = u /\ runs'[p] = 0
      BY <1>1, <2>2
    <2>8. \A u \in Tasks : Decreasing(pass'[u].cur)
      BY <2>2
    <2>9. \A u \in Tasks : \A k \in Keys : Decreasing(kv'[u][k])
      BY <2>1
    <2> QED
      BY <2>3, <2>4, <2>5, <2>6, <2>7, <2>8, <2>9, Zenon DEF PlacesInv
  <1>11. BirthInv'
    BY <1>1 DEF BirthInv
  <1>12. KeysInv'
    <2>1. ASSUME NEW u \in Tasks, NEW k \in Keys
          PROVE  /\ k >= s_next_key => kv'[u][k] = <<>>
                 /\ k # cxa_key => Range(kv'[u][k]) \cap atexit = {}
      <3>1. CASE u = t /\ k = k0
        BY <1>6, <1>7, <3>1
      <3>2. CASE ~(u = t /\ k = k0)
        <4>1. kv'[u][k] = kv[u][k]
          BY <1>6, <3>2
        <4> QED
          BY <4>1, Zenon DEF KeysInv
      <3> QED
        BY <3>1, <3>2
    <2> QED
      BY <1>1, <2>1 DEF KeysInv
  <1>13. ThreadInv'
    <2>1. ASSUME NEW u \in Tasks
          PROVE  /\ run[u] # "exit" => pass'[u].cur = <<>>
                 /\ run[u] \in {"new", "run"} => pass'[u].k = 0
                 /\ pass'[u].cur # <<>> => pass'[u].called
      <3>1. CASE u = t
        BY <1>1, <1>7, <3>1
      <3>2. CASE u # t
        BY <1>5, <3>2 DEF ThreadInv
      <3> QED
        BY <3>1, <3>2
    <2> QED
      BY <1>1, <2>1 DEF ThreadInv
  <1>14. EarlyInv'
    <2>1. \A q1 \in Early : cxa_key \in Keys
      BY DEF Early, KeysInv, TypeInv
    <2> SUFFICES ASSUME NEW u \in Threads, run[u] \in {"run", "exit"}
                 PROVE  /\ \A o \in Early : owner[o] = u =>
                              \/ runs[o] = 1 \/ o \in Range(pass'[u].cur)
                              \/ o \in Range(kv'[u][cxa_key])
                        /\ Range(pass'[u].cur) \cap Early # {} =>
                              Range(kv'[u][cxa_key]) \cap Early = {}
      BY <1>1 DEF EarlyInv, Early
    <2>2. u \in Tasks
      BY DEF Tasks
    <2>3. CASE u # t
      <3>1. pass'[u] = pass[u] /\ (cxa_key \in Keys => kv'[u][cxa_key] = kv[u][cxa_key])
        BY <1>5, <1>6, <2>2, <2>3
      <3> QED
        BY <2>1, <3>1 DEF EarlyInv
    <2>4. CASE u = t /\ cxa_key = k0
      BY <1>7, <1>8, <2>4 DEF EarlyInv
    <2>5. CASE u = t /\ cxa_key # k0
      <3>1. Range(c) \cap Early = {}
        BY <1>2, <1>8, <2>5 DEF KeysInv, Early
      <3>2. cxa_key \in Keys => kv'[t][cxa_key] = kv[t][cxa_key]
        BY <1>6, <2>5
      <3> QED
        BY <1>7, <2>1, <2>5, <3>1, <3>2 DEF EarlyInv
    <2> QED
      BY <2>3, <2>4, <2>5
  <1>15. PassInv'
    <2> SUFFICES ASSUME NEW u \in Tasks, run[u] = "exit", ~pass'[u].called,
                        NEW k \in Keys, k < pass'[u].k, s_destructors[k]
                 PROVE  kv'[u][k] = <<>>
      BY <1>1, Zenon DEF PassInv
    <2>1. u # t
      BY <1>7
    <2> QED
      BY <1>5, <1>6, <2>1 DEF PassInv
  <1> QED
    BY <1>9, <1>10, <1>11, <1>12, <1>13, <1>14, <1>15

\* FreeTls keeps the invariant.
LEMMA FreeStep ==
    ASSUME TlsIInv, NEW t \in Tasks, FreeTls(t) PROVE TlsIInv'
  <1> USE DEF TlsIInv
  <1>1. /\ run[t] = "exit" /\ pass[t].cur = <<>>
        /\ tls' = [tls EXCEPT ![t] = FALSE] /\ kv' = [kv EXCEPT ![t] = EmptyKv]
        /\ run' = [run EXCEPT ![t] = "gone"]
        /\ UNCHANGED <<s_initialized, keyVars, pass, objVars, runs>>
    BY DEF FreeTls, PassEnds
  <1>2. t \in Threads /\ s_initialized
    BY <1>1, ExitFacts
  <1>3. EmptyKv \in [Keys -> Seq(Objs)] /\ \A k \in Keys : EmptyKv[k] = <<>>
    BY EmptyList DEF EmptyKv
  <1>4. /\ kv' \in [Tasks -> [Keys -> Seq(Objs)]] /\ kv'[t] = EmptyKv
        /\ \A u \in Tasks \ {t} : kv'[u] = kv[u]
    BY <1>1, <1>3 DEF TypeInv
  <1>5. /\ run' \in [Tasks -> {"new", "run", "exit", "gone"}] /\ run'[t] = "gone"
        /\ \A u \in Tasks \ {t} : run'[u] = run[u]
    BY <1>1 DEF TypeInv
  <1>6. tls' \in [Tasks -> BOOLEAN] /\ \A u \in Tasks \ {t} : tls'[u] = tls[u]
    BY <1>1, Zenon DEF TypeInv
  <1>7. UNCHANGED <<s_initialized, s_next_key, s_destructors, cxa_key, pass, owner, atexit, late, runs>>
    BY <1>1 DEF keyVars, objVars
  <1>8. TypeInv'
    BY <1>4, <1>5, <1>6, <1>7 DEF TypeInv
  <1>9. PlacesInv' /\ BirthInv' /\ KeysInv'
    <2>1. \A u \in Tasks : \A k \in Keys : kv'[u][k] = kv[u][k] \/ kv'[u][k] = <<>>
      BY <1>3, <1>4
    <2> QED
      BY <1>1, <2>1, EmptiedStep
  <1>10. ThreadInv'
    <2>1. ASSUME NEW u \in Tasks
          PROVE  /\ u \in Threads /\ run'[u] \in {"run", "exit"} => tls[u] /\ u # t
                 /\ u \notin Threads => run'[u] = "run"
                 /\ run'[u] # "exit" => pass[u].cur = <<>>
                 /\ run'[u] \in {"new", "run"} => pass[u].k = 0
                 /\ pass[u].cur # <<>> => pass[u].called
                 /\ u \in Threads /\ run'[u] = "new" => \A o \in Objs : owner[o] # u
      <3>1. CASE u = t
        BY <1>1, <1>2, <1>5, <3>1
      <3>2. CASE u # t
        BY <1>5, <3>2 DEF ThreadInv
      <3> QED
        BY <3>1, <3>2
    <2>2. ASSUME NEW u \in Threads, run'[u] \in {"run", "exit"} PROVE tls'[u]
      <3>1. u \in Tasks /\ u # t /\ tls[u]
        BY <2>1, <2>2 DEF Tasks
      <3> QED
        BY <1>6, <3>1, Zenon
    <2> QED
      BY <1>2, <1>7, <2>1, <2>2 DEF ThreadInv, Tasks
  <1>11. EarlyInv'
    <2>1. ASSUME NEW u \in Threads, run'[u] \in {"run", "exit"}
          PROVE  run[u] \in {"run", "exit"} /\ kv'[u] = kv[u]
      BY <1>4, <1>5, <2>1 DEF Tasks
    <2> QED
      BY <1>7, <2>1 DEF EarlyInv, Early
  <1>12. PassInv'
    <2> SUFFICES ASSUME NEW u \in Tasks, run'[u] = "exit", ~pass[u].called,
                        NEW k \in Keys, k < pass[u].k, s_destructors[k]
                 PROVE  kv'[u][k] = <<>>
      BY <1>7, Zenon DEF PassInv
    <2>1. u # t /\ run[u] = "exit" /\ kv'[u] = kv[u]
      BY <1>4, <1>5
    <2> QED
      BY <2>1, Zenon DEF PassInv
  <1> QED
    BY <1>8, <1>9, <1>10, <1>11, <1>12
------------------------------------------------------------------------------
(* The theorems.                                                           *)

\* The initial state satisfies the invariant.
LEMMA InitIInv == Init => TlsIInv
  <1> SUFFICES ASSUME Init PROVE TlsIInv
    OBVIOUS
  <1> USE DEF Init
  <1>1. <<>> \in Seq(Objs) /\ Range(<<>>) = {} /\ Decreasing(<<>>)
    BY EmptyList
  <1>2. /\ NoPass \in [i : Nat, k : Nat, called : BOOLEAN, cur : Seq(Objs)]
        /\ NoPass.cur = <<>> /\ NoPass.k = 0
    BY <1>1 DEF NoPass
  <1>3. EmptyKv \in [Keys -> Seq(Objs)] /\ \A k \in Keys : EmptyKv[k] = <<>>
    BY <1>1 DEF EmptyKv
  <1>4. /\ \A u \in Tasks : \A k \in Keys : kv[u][k] = <<>>
        /\ \A u \in Tasks : pass[u].cur = <<>> /\ pass[u].k = 0
        /\ \A p \in Objs : owner[p] = "none" /\ runs[p] = 0
        /\ \A u \in Tasks : run[u] = IF u \in Threads THEN "new" ELSE "run"
        /\ "none" \notin Tasks
    BY <1>2, <1>3, TlsAssumption DEF Tasks
  <1>5. TypeInv
    <2>1. s_next_key \in 0..MaxKeys /\ cxa_key \in Keys \cup {-1}
      BY TlsAssumption
    <2>2. /\ kv \in [Tasks -> [Keys -> Seq(Objs)]]
          /\ pass \in [Tasks -> [i : Nat, k : Nat, called : BOOLEAN, cur : Seq(Objs)]]
      BY <1>2, <1>3
    <2>3. /\ s_destructors \in [Keys -> BOOLEAN] /\ tls \in [Tasks -> BOOLEAN]
          /\ run \in [Tasks -> {"new", "run", "exit", "gone"}]
          /\ owner \in [Objs -> Tasks \cup {"none"}] /\ runs \in [Objs -> Nat]
      OBVIOUS
    <2> QED
      BY <2>1, <2>2, <2>3 DEF TypeInv
  <1>6. PlacesInv
    BY <1>1, <1>4 DEF PlacesInv
  <1>7. BirthInv /\ KeysInv
    BY <1>1, <1>4 DEF BirthInv, KeysInv
  <1>8. ThreadInv
    BY <1>4 DEF ThreadInv, Tasks
  <1>9. EarlyInv /\ PassInv
    BY <1>4 DEF EarlyInv, PassInv, Tasks
  <1> QED
    BY <1>5, <1>6, <1>7, <1>8, <1>9 DEF TlsIInv

\* The invariant says that no object is destroyed twice.
LEMMA IInvDestroyedOnce == TlsIInv => DestroyedOnce
  BY DEF TlsIInv, PlacesInv, DestroyedOnce

\* A stuttering step changes nothing.
LEMMA StutterStep ==
    ASSUME TlsIInv, UNCHANGED vars PROVE TlsIInv'
  <1> USE DEF TlsIInv, vars
  <1>1. TypeInv'
    BY DEF TypeInv
  <1>2. PlacesInv'
    <2>1. kv' = kv /\ pass' = pass /\ owner' = owner /\ runs' = runs
      OBVIOUS
    <2> QED
      BY <2>1, PlacesUnchanged
  <1>3. BirthInv' /\ KeysInv'
    BY DEF BirthInv, KeysInv
  <1>4. ThreadInv'
    BY DEF ThreadInv
  <1>5. EarlyInv' /\ PassInv'
    BY DEF EarlyInv, Early, PassInv
  <1> QED
    BY <1>1, <1>2, <1>3, <1>4, <1>5

\* The invariant of thread-local storage: who holds which object, which keys
\* exist and what a pass has left behind it, in every reachable state.
THEOREM TlsInvariant == Spec => []TlsIInv
  <1>1. TlsIInv /\ [Next]_vars => TlsIInv'
    <2> SUFFICES ASSUME TlsIInv, [Next]_vars PROVE TlsIInv'
      OBVIOUS
    <2>1. ASSUME NEW t \in Tasks, NEW u \in Threads, Create(t, u) PROVE TlsIInv'
      BY <2>1, CreateStep
    <2>2. ASSUME NEW t \in Tasks, TlsCreate(t) PROVE TlsIInv'
      BY <2>2, TlsCreateStep
    <2>3. ASSUME NEW t \in Tasks, Use(t) PROVE TlsIInv'
      BY <2>3, UseStep
    <2>4. ASSUME NEW t \in Tasks, FunctionReturns(t) PROVE TlsIInv'
      BY <2>4, ReturnStep
    <2>5. ASSUME NEW t \in Tasks, Exit(t) PROVE TlsIInv'
      BY <2>5, EnterStep, DestroyStep, SkipStep, FreeStep DEF Exit
    <2>6. CASE UNCHANGED vars
      BY <2>6, StutterStep
    <2> QED
      BY <2>1, <2>2, <2>3, <2>4, <2>5, <2>6 DEF Next
  <1> QED
    BY <1>1, InitIInv, PTL DEF Spec

\* No thread-local object is destroyed twice: CLibCXXTask::Run empties a slot
\* before it calls the destructor (thread.cpp, the loop over the keys), so what
\* later passes find there was put there later.
THEOREM NeverDestroyedTwice == Spec => []DestroyedOnce
  BY TlsInvariant, IInvDestroyedOnce, PTL

\* Only DestroyObject destroys objects, and only the first one of its list.
LEMMA WhoDestroys ==
    ASSUME TlsIInv, [Next]_vars, NEW o \in Objs, runs'[o] > runs[o]
    PROVE  \E t \in Tasks : DestroyObject(t) /\ o = Head(pass[t].cur)
  <1>1. runs[o] \in Nat
    BY DEF TlsIInv, TypeInv
  <1>2. runs' # runs
    BY <1>1
  <1>3. PICK t \in Tasks : DestroyObject(t)
    BY <1>2 DEF Next, vars, Create, TlsCreate, Use, FunctionReturns, Exit, EnterSlot,
                SkipSlot, NextPass, FreeTls
  <1>4. Killed(t, Head(pass[t].cur))
    BY <1>3, KillFacts
  <1>5. o = Head(pass[t].cur)
    BY <1>1, <1>4 DEF Killed
  <1> QED
    BY <1>3, <1>5

\* The objects that a thread constructed before its function returned are
\* destroyed youngest first (thread.cpp, __cxa_thread_atexit and its list),
\* whatever the destructors put into the slots and in every number of passes.
THEOREM DestroyedInReverse == Spec => ReverseOrder
  <1> DEFINE Rev == \A o \in atexit \ late : runs'[o] > runs[o] =>
                        \A p \in atexit \ late : p > o /\ owner[p] = owner[o] => runs[p] = 1
  <1>1. ASSUME TlsIInv, [Next]_vars PROVE Rev
    <2> USE DEF TlsIInv
    <2> SUFFICES ASSUME NEW o \in Early, runs'[o] > runs[o],
                        NEW p \in Early, p > o, owner[p] = owner[o]
                 PROVE  runs[p] = 1
      BY DEF Early
    <2>1. o \in Objs /\ p \in Objs
      BY <1>1 DEF Early, TypeInv
    <2>2. PICK t \in Tasks : DestroyObject(t) /\ o = Head(pass[t].cur)
      BY <1>1, <2>1, WhoDestroys
    <2>3. Killed(t, o)
      BY <1>1, <2>2, KillFacts
    <2>4. t \in Threads /\ run[t] = "exit" /\ o \in Range(pass[t].cur) /\ owner[p] = t
      BY <2>2, <2>3 DEF Killed, DestroyObject
    <2>5. p \notin Range(pass[t].cur)
      BY <2>1, <2>3 DEF Killed, Objs
    <2>6. p \notin Range(kv[t][cxa_key])
      BY <1>1, <2>4 DEF EarlyInv
    <2> QED
      BY <1>1, <2>4, <2>5, <2>6 DEF EarlyInv
  <1> HIDE DEF Rev
  <1>2. Spec => [][Rev]_vars
    BY <1>1, TlsInvariant, PTL DEF Spec
  <1> QED
    BY <1>2 DEF Rev, ReverseOrder

\* When the last pass of a thread called no destructor, no slot that has one
\* is filled when FreeTls deletes the storage (CLibCXXTask::Run).
THEOREM NoObjectForgotten == Spec => NothingLeftBehind
  <1> DEFINE Empty == \A t \in Threads : run[t] = "exit" /\ run'[t] = "gone" /\ ~pass[t].called =>
                          \A k \in Keys : s_destructors[k] => kv[t][k] = <<>>
  <1>1. ASSUME TlsIInv, [Next]_vars PROVE Empty
    <2> USE DEF TlsIInv
    <2> SUFFICES ASSUME NEW t \in Threads, run[t] = "exit", run'[t] = "gone", ~pass[t].called,
                        NEW k \in Keys, s_destructors[k]
                 PROVE  kv[t][k] = <<>>
      OBVIOUS
    <2>1. t \in Tasks /\ pass[t].k \in Nat
      BY <1>1 DEF Tasks, TypeInv
    <2>2. PICK u \in Tasks : FreeTls(u) /\ u = t
      <3>1. ASSUME NEW u \in Tasks, Next, run' = [run EXCEPT ![u] = "gone"] PROVE u = t
        BY <1>1, <2>1, <3>1 DEF TypeInv
      <3>2. ASSUME NEW u \in Tasks, NEW v \in Threads, Create(u, v) PROVE FALSE
        <4>1. run' = [run EXCEPT ![v] = "run"]
          BY <3>2 DEF Create
        <4> QED
          BY <1>1, <2>1, <4>1 DEF TypeInv
      <3>3. ASSUME NEW u \in Tasks, FunctionReturns(u) PROVE FALSE
        <4>1. run' = [run EXCEPT ![u] = "exit"]
          BY <3>3 DEF FunctionReturns
        <4> QED
          BY <1>1, <2>1, <4>1 DEF TypeInv
      <3>4. run' # run
        BY <1>1
      <3>5. Next
        BY <1>1, <3>4 DEF vars
      <3>6. PICK u \in Tasks : FreeTls(u)
        BY <3>2, <3>3, <3>4, <3>5 DEF Next, TlsCreate, Use, Exit, EnterSlot, DestroyObject,
                                      SkipSlot, NextPass
      <3> QED
        BY <3>1, <3>5, <3>6 DEF FreeTls
    <2>3. pass[t].k >= s_next_key
      BY <2>2 DEF FreeTls, PassEnds
    <2>4. k < s_next_key
      <3>1. ~(k >= s_next_key)
        BY <1>1, Zenon DEF KeysInv
      <3> QED
        BY <1>1, <3>1 DEF TypeInv, Keys
    <2>5. k < pass[t].k
      BY <1>1, <2>1, <2>3, <2>4 DEF TypeInv, Keys
    <2> QED
      BY <1>1, <2>1, <2>5, Zenon DEF PassInv
  <1> HIDE DEF Empty
  <1>2. Spec => [][Empty]_vars
    BY <1>1, TlsInvariant, PTL DEF Spec
  <1> QED
    BY <1>2 DEF Empty, NothingLeftBehind
==============================================================================
