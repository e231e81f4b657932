---------------------------- MODULE Condvar_proofs ----------------------------
(***************************************************************************)
(* Proofs about NonRecursiveMutex and Condvar for every finite set of      *)
(* tasks: that std::mutex is a mutex; the counting of waiters and tokens   *)
(* under racing signals, broadcasts, timeouts and late waiters, and that   *)
(* waiting keeps the mutex correct; and about the use of the two by any    *)
(* number of producers and consumers (CondvarClient).                      *)
(*                                                                         *)
(* MutexIInv is inductive.  Mutual exclusion alone is not: that a Release  *)
(* which posts a token makes no second holder rests on TokenOrHolder, and  *)
(* that a Release which unlocks strands nobody rests on WaiterAccounting.  *)
(***************************************************************************)
EXTENDS CondvarClient, FiniteSetTheorems, TLAPS

\* The blocked tasks are finitely many, so they can be counted.
LEMMA BlockedFinite ==
    /\ IsFiniteSet(Blocked)
    /\ Cardinality(Blocked) \in Nat
    /\ Cardinality(Blocked) = 0 <=> Blocked = {}
  <1>1. Blocked \in SUBSET Tasks
    BY DEF Blocked
  <1>2. IsFiniteSet(Blocked)
    BY <1>1, TasksAssumption, FS_Subset
  <1> QED
    BY <1>2, FS_CardinalityType, FS_EmptySet

\* The initial state.
LEMMA MutexInitIInv == MutexInit => MutexIInv
  <1> SUFFICES ASSUME MutexInit PROVE MutexIInv
    OBVIOUS
  <1>1. MutexTypeOK /\ NoUseAfterDestroy
    BY DEF MutexInit, MutexTypeOK, NoUseAfterDestroy
  <1>2. Blocked = {} /\ Holders = {}
    BY DEF MutexInit, Blocked, Holders
  <1>3. WaiterAccounting /\ TokenOrHolder
    BY <1>2, FS_EmptySet DEF MutexInit, WaiterAccounting, TokenOrHolder
  <1> QED
    BY <1>1, <1>3 DEF MutexIInv

\* A step that leaves the mutex alone keeps the invariant.
LEMMA MutexUnchanged == ASSUME MutexIInv, UNCHANGED mutexVars PROVE MutexIInv'
  BY DEF MutexIInv, mutexVars, MutexTypeOK, WaiterAccounting, TokenOrHolder,
         NoUseAfterDestroy, Blocked, Holders

\* __libcpp_mutex_lock keeps the invariant.
LEMMA AcquireStep ==
    ASSUME MutexIInv, NEW t \in Tasks, Acquire(t) PROVE MutexIInv'
  <1> USE DEF MutexIInv
  <1>0. pc[t] = "out" /\ m_live /\ m_live' /\ pc \in [Tasks -> {"out", "blocked", "holds"}]
    BY DEF Acquire, MutexTypeOK
  <1>1. CASE AcquireFast(t)
    <2>1. MutexTypeOK' /\ NoUseAfterDestroy'
      BY <1>0, <1>1 DEF AcquireFast, MutexTypeOK, NoUseAfterDestroy
    <2>2. Blocked' = Blocked /\ Holders' = Holders \cup {t}
      BY <1>0, <1>1 DEF AcquireFast, Blocked, Holders
    <2>3. Holders = {} /\ m_sem = 0
      BY <1>1 DEF AcquireFast, TokenOrHolder
    <2>4. WaiterAccounting'
      BY <1>1, <2>2 DEF AcquireFast, WaiterAccounting
    <2>5. TokenOrHolder'
      BY <1>1, <2>2, <2>3 DEF AcquireFast, TokenOrHolder
    <2> QED
      BY <2>1, <2>4, <2>5
  <1>2. CASE AcquireSlow(t) /\ m_sem > 0
    <2>1. /\ m_sem' = m_sem - 1 /\ m_waiters' = m_waiters + 1 /\ m_locked' = m_locked
          /\ pc' = [pc EXCEPT ![t] = "holds"] /\ m_locked
      BY <1>2 DEF AcquireSlow, SemDown
    <2>2. MutexTypeOK' /\ NoUseAfterDestroy'
      BY <1>0, <1>2, <2>1 DEF MutexTypeOK, NoUseAfterDestroy
    <2>3. Blocked' = Blocked /\ Holders' = Holders \cup {t}
      BY <1>0, <2>1 DEF Blocked, Holders
    <2>4. Holders = {} /\ m_sem = 1
      BY <1>2, <2>1 DEF TokenOrHolder
    <2>5. WaiterAccounting'
      BY <2>1, <2>3 DEF WaiterAccounting, MutexTypeOK
    <2>6. TokenOrHolder'
      BY <2>1, <2>3, <2>4 DEF TokenOrHolder
    <2> QED
      BY <2>2, <2>5, <2>6
  <1>3. CASE AcquireSlow(t) /\ ~(m_sem > 0)
    <2>1. /\ m_sem' = m_sem /\ m_waiters' = m_waiters + 1 /\ m_locked' = m_locked
          /\ pc' = [pc EXCEPT ![t] = "blocked"] /\ m_locked
      BY <1>3 DEF AcquireSlow, SemDown
    <2>2. MutexTypeOK' /\ NoUseAfterDestroy'
      BY <1>0, <2>1 DEF MutexTypeOK, NoUseAfterDestroy
    <2>3. Blocked' = Blocked \cup {t} /\ t \notin Blocked /\ Holders' = Holders
      BY <1>0, <2>1 DEF Blocked, Holders
    <2>4. Cardinality(Blocked') = Cardinality(Blocked) + 1
      BY <2>3, BlockedFinite, FS_AddElement
    <2>5. WaiterAccounting'
      BY <2>1, <2>4 DEF WaiterAccounting, MutexTypeOK
    <2>6. TokenOrHolder'
      BY <2>1, <2>3 DEF TokenOrHolder
    <2> QED
      BY <2>2, <2>5, <2>6
  <1> QED
    BY <1>1, <1>2, <1>3 DEF Acquire

\* The return from a blocked lock keeps the invariant.
LEMMA AcquireResumeStep ==
    ASSUME MutexIInv, NEW t \in Tasks, AcquireResume(t) PROVE MutexIInv'
  <1> USE DEF MutexIInv
  <1>1. /\ pc[t] = "blocked" /\ m_sem > 0 /\ m_sem' = m_sem - 1
        /\ pc' = [pc EXCEPT ![t] = "holds"]
        /\ m_locked' = m_locked /\ m_waiters' = m_waiters /\ m_live' = m_live
    BY DEF AcquireResume
  <1>2. MutexTypeOK'
    BY <1>1 DEF MutexTypeOK
  <1>3. m_live
    BY <1>1 DEF NoUseAfterDestroy, MutexTypeOK
  <1>4. NoUseAfterDestroy'
    BY <1>1, <1>3 DEF NoUseAfterDestroy
  <1>5. Blocked' = Blocked \ {t} /\ t \in Blocked /\ Holders' = Holders \cup {t}
    BY <1>1 DEF Blocked, Holders, MutexTypeOK
  <1>6. Cardinality(Blocked') = Cardinality(Blocked) - 1
    BY <1>5, BlockedFinite, FS_RemoveElement
  <1>7. WaiterAccounting'
    BY <1>1, <1>6 DEF WaiterAccounting, MutexTypeOK
  <1>8. m_locked /\ m_sem = 1 /\ Holders = {}
    BY <1>1 DEF TokenOrHolder
  <1>9. TokenOrHolder'
    BY <1>1, <1>5, <1>8 DEF TokenOrHolder
  <1> QED
    BY <1>2, <1>4, <1>7, <1>9

\* __libcpp_mutex_trylock keeps the invariant: it is a fast Acquire or nothing.
LEMMA TryAcquireStep ==
    ASSUME MutexIInv, NEW t \in Tasks, TryAcquire(t) PROVE MutexIInv'
  <1>1. CASE AcquireFast(t)
    BY <1>1, AcquireStep DEF TryAcquire, Acquire
  <1>2. CASE ~AcquireFast(t)
    BY <1>2, MutexUnchanged DEF TryAcquire, mutexVars
  <1> QED
    BY <1>1, <1>2

\* __libcpp_mutex_unlock keeps the invariant.
LEMMA ReleaseStep ==
    ASSUME MutexIInv, NEW t \in Tasks, Release(t) PROVE MutexIInv'
  <1> USE DEF MutexIInv
  <1>1. /\ pc[t] = "holds" /\ pc' = [pc EXCEPT ![t] = "out"] /\ m_live' = m_live
        /\ pc \in [Tasks -> {"out", "blocked", "holds"}]
    BY DEF Release, MutexTypeOK
  <1>2. MutexTypeOK' /\ NoUseAfterDestroy'
    <2>1. pc' \in [Tasks -> {"out", "blocked", "holds"}]
      BY <1>1
    <2>2. m_locked' \in BOOLEAN /\ m_waiters' \in Nat /\ m_sem' \in Nat
      <3>1. CASE ReleaseToWaiter
        BY <3>1 DEF ReleaseToWaiter, MutexTypeOK
      <3>2. CASE ReleaseUnlock
        BY <3>2 DEF ReleaseUnlock, MutexTypeOK
      <3> QED
        BY <3>1, <3>2 DEF Release
    <2>3. m_live' \in BOOLEAN
      BY <1>1 DEF MutexTypeOK
    <2>4. NoUseAfterDestroy'
      BY <1>1 DEF NoUseAfterDestroy
    <2> QED
      BY <2>1, <2>2, <2>3, <2>4 DEF MutexTypeOK
  <1>3. Blocked' = Blocked /\ Holders' = Holders \ {t} /\ t \in Holders
    BY <1>1 DEF Blocked, Holders
  <1>4. m_locked /\ m_sem = 0 /\ Holders = {t}
    BY <1>3 DEF TokenOrHolder
  <1>5. Holders' = {}
    BY <1>3, <1>4
  <1>6. CASE ReleaseToWaiter
    BY <1>2, <1>3, <1>4, <1>5, <1>6
    DEF ReleaseToWaiter, WaiterAccounting, TokenOrHolder, MutexTypeOK
  <1>7. CASE ReleaseUnlock
    BY <1>2, <1>3, <1>4, <1>5, <1>7
    DEF ReleaseUnlock, WaiterAccounting, TokenOrHolder, MutexTypeOK
  <1> QED
    BY <1>6, <1>7 DEF Release

\* Destroying an unlocked mutex keeps the invariant: nobody is inside.
LEMMA DestroyStep == ASSUME MutexIInv, Destroy PROVE MutexIInv'
  <1> USE DEF MutexIInv, Destroy
  <1>1. Holders = {} /\ m_waiters = 0 /\ m_sem = 0
    BY DEF TokenOrHolder
  <1>2. Blocked = {}
    BY <1>1, BlockedFinite DEF WaiterAccounting
  <1>3. \A t \in Tasks : pc[t] = "out"
    BY <1>1, <1>2 DEF Holders, Blocked, MutexTypeOK
  <1> QED
    BY <1>3 DEF MutexTypeOK, WaiterAccounting, TokenOrHolder, NoUseAfterDestroy,
                Blocked, Holders

\* Constructing a mutex in storage nobody uses keeps the invariant.
LEMMA ConstructStep == ASSUME MutexIInv, Construct PROVE MutexIInv'
  <1> USE DEF MutexIInv, Construct
  <1>1. Blocked' = {} /\ Holders' = {}
    BY DEF NoUseAfterDestroy, Blocked, Holders
  <1>2. MutexTypeOK' /\ NoUseAfterDestroy'
    BY DEF MutexTypeOK, NoUseAfterDestroy
  <1>3. WaiterAccounting' /\ TokenOrHolder'
    BY <1>1, FS_EmptySet DEF WaiterAccounting, TokenOrHolder
  <1> QED
    BY <1>2, <1>3

\* Every step of the mutex keeps the invariant.
LEMMA MutexNextIInv == MutexIInv /\ [MutexNext]_mutexVars => MutexIInv'
  BY AcquireStep, AcquireResumeStep, TryAcquireStep, ReleaseStep, DestroyStep,
     ConstructStep, MutexUnchanged DEF MutexNext

\* The inductive invariant holds in every reachable state of std::mutex.
THEOREM MutexInvariant == MutexSpec => []MutexIInv
  BY MutexInitIInv, MutexNextIInv, PTL DEF MutexSpec

\* The fields of std::mutex keep their types; m_waiters, an int, never goes
\* below zero.
THEOREM MutexTypeCorrect == MutexSpec => []MutexTypeOK
  BY MutexInvariant, PTL DEF MutexIInv

\* The invariant implies the properties that clients rely on.
LEMMA MutexIInvImplies ==
    MutexIInv => MutualExclusion /\ NoStrandedWaiter
  <1> SUFFICES ASSUME MutexIInv PROVE MutualExclusion /\ NoStrandedWaiter
    OBVIOUS
  <1>1. MutualExclusion
    BY DEF MutexIInv, TokenOrHolder, MutualExclusion
  <1>2. NoStrandedWaiter
    BY BlockedFinite
    DEF MutexIInv, TokenOrHolder, WaiterAccounting, NoStrandedWaiter, MutexTypeOK
  <1> QED
    BY <1>1, <1>2

\* Two tasks never hold a std::mutex at the same time (Acquire, TryAcquire and
\* Release of mutex_impl.h, newcomers that take a posted token included).
THEOREM MutexMutualExclusion == MutexSpec => []MutualExclusion
  BY MutexInvariant, MutexIInvImplies, PTL

\* No task stays blocked on a std::mutex that nobody holds without a token
\* that it can take.
THEOREM MutexNoStrandedWaiter == MutexSpec => []NoStrandedWaiter
  BY MutexInvariant, MutexIInvImplies, PTL

\* A std::mutex that is seen unlocked can be destroyed: no task is inside.
THEOREM MutexDestroySafe == MutexSpec => []NoUseAfterDestroy
  BY MutexInvariant, PTL DEF MutexIInv
------------------------------------------------------------------------------
\* A lock is the grant of the free mutex or a new waiting task.
LEMMA AcquireRefines ==
    ASSUME MutexIInv, MutexIInv', NEW t \in Tasks, Acquire(t)
    PROVE  Abs!Grant(t) \/ Abs!Ask(t)
  <1>0. /\ pc[t] = "out" /\ pc \in [Tasks -> {"out", "blocked", "holds"}]
        /\ t \notin Blocked /\ t \notin Holders
    BY DEF Acquire, MutexIInv, MutexTypeOK, Blocked, Holders
  <1>1. CASE pc' = [pc EXCEPT ![t] = "holds"]
    <2>1. Blocked' = Blocked /\ Holders' = Holders \cup {t}
      BY <1>0, <1>1 DEF Blocked, Holders
    <2>2. Holders = {}
      <3>1. Holders' = {t}
        BY <2>1 DEF MutexIInv, TokenOrHolder
      <3> QED
        BY <3>1, <2>1, <1>0
    <2>3. Owner = NoTask /\ Owner' = t
      <3>1. Holders' = {t}
        BY <2>1, <2>2
      <3>2. (CHOOSE u \in Tasks : u \in {t}) = t
        OBVIOUS
      <3> QED
        BY <2>2, <3>1, <3>2 DEF Owner
    <2> QED
      BY <1>0, <2>1, <2>3 DEF Abs!Grant
  <1>2. CASE pc' = [pc EXCEPT ![t] = "blocked"]
    <2>1. Blocked' = Blocked \cup {t} /\ Holders' = Holders
      BY <1>0, <1>2 DEF Blocked, Holders
    <2>2. Owner' = Owner
      BY <2>1 DEF Owner
    <2>3. t # Owner
      <3>1. CASE Holders = {}
        BY <3>1, TasksAssumption DEF Owner
      <3>2. CASE Holders # {}
        <4>1. Owner \in Holders
          BY <3>2 DEF Owner, Holders
        <4> QED
          BY <4>1, <1>0
      <3> QED
        BY <3>1, <3>2
    <2> QED
      BY <1>0, <2>1, <2>2, <2>3 DEF Abs!Ask
  <1> QED
    BY <1>1, <1>2 DEF Acquire, AcquireFast, AcquireSlow, SemDown

\* The return from a blocked lock is the grant of the free mutex.
LEMMA AcquireResumeRefines ==
    ASSUME MutexIInv, MutexIInv', NEW t \in Tasks, AcquireResume(t)
    PROVE  Abs!Grant(t)
  <1>1. Blocked' = Blocked \ {t} /\ Holders' = Holders \cup {t}
    BY DEF AcquireResume, MutexIInv, MutexTypeOK, Blocked, Holders
  <1>2. Holders = {}
    BY DEF AcquireResume, MutexIInv, TokenOrHolder
  <1>3. Owner = NoTask /\ Owner' = t
    <2>1. Holders' = {t}
      BY <1>1, <1>2
    <2>2. (CHOOSE u \in Tasks : u \in {t}) = t
      OBVIOUS
    <2> QED
      BY <1>2, <2>1, <2>2 DEF Owner
  <1> QED
    BY <1>1, <1>3 DEF Abs!Grant

\* An unlock frees the mutex, also when it posts a token for a waiter.
LEMMA ReleaseRefines ==
    ASSUME MutexIInv, MutexIInv', NEW t \in Tasks, Release(t)
    PROVE  Abs!Free
  <1>1. Blocked' = Blocked /\ Holders' = Holders \ {t} /\ t \in Holders
    BY DEF Release, MutexIInv, MutexTypeOK, Blocked, Holders
  <1>2. Holders = {t}
    BY <1>1 DEF MutexIInv, TokenOrHolder
  <1>3. Owner = t /\ Owner' = NoTask
    <2>1. Holders' = {}
      BY <1>1, <1>2
    <2>2. (CHOOSE u \in Tasks : u \in {t}) = t
      OBVIOUS
    <2> QED
      BY <1>2, <2>1, <2>2 DEF Owner
  <1> QED
    BY <1>1, <1>3, TasksAssumption DEF Abs!Free

\* std::mutex implements the abstract mutex, for every finite set of tasks.
THEOREM MutexRefinement == MutexSpec => ImplementsMutexSafety
  <1>1. MutexInit => Abs!Init
    BY DEF MutexInit, Abs!Init, Owner, Holders, Blocked
  <1>2. ASSUME MutexIInv, MutexIInv', [MutexNext]_mutexVars
        PROVE  [Abs!Next]_(Abs!vars)
    <2>1. CASE UNCHANGED pc
      BY <2>1 DEF Abs!vars, Owner, Holders, Blocked
    <2>2. ASSUME NEW t \in Tasks, TryAcquire(t), ~UNCHANGED pc
          PROVE  Acquire(t)
      BY <2>2 DEF TryAcquire, Acquire, AcquireFast
    <2>3. ASSUME NEW t \in Tasks, Acquire(t)
          PROVE  Abs!Next
      BY <1>2, <2>3, AcquireRefines DEF Abs!Next
    <2>4. ASSUME NEW t \in Tasks, AcquireResume(t)
          PROVE  Abs!Next
      BY <1>2, <2>4, AcquireResumeRefines DEF Abs!Next
    <2>5. ASSUME NEW t \in Tasks, Release(t)
          PROVE  Abs!Next
      BY <1>2, <2>5, ReleaseRefines DEF Abs!Next
    <2> QED
      BY <1>2, <2>1, <2>2, <2>3, <2>4, <2>5
      DEF MutexNext, mutexVars, Destroy, Construct
  <1> QED
    BY <1>1, <1>2, MutexInvariant, PTL DEF MutexSpec, ImplementsMutexSafety, Abs!Safety

------------------------------------------------------------------------------
(* The condition variable.                                                 *)

\* The inductive invariant: that of the mutex, and the counting of waits.
CvIInv == CvTypeOK /\ MutexIInv /\ CvAccounting

\* The tasks in a wait are finitely many.
LEMMA InWaitFinite ==
    IsFiniteSet(InWait) /\ Cardinality(InWait) \in Nat
  <1>1. InWait \in SUBSET Tasks
    BY DEF InWait
  <1> QED
    BY <1>1, TasksAssumption, FS_Subset, FS_CardinalityType

\* The initial state.
LEMMA CvInitIInv == Init => CvIInv
  <1> SUFFICES ASSUME Init PROVE CvIInv
    OBVIOUS
  <1>1. MutexIInv
    BY MutexInitIInv DEF Init
  <1>2. InWait = {}
    BY DEF Init, CvInit, InWait
  <1> QED
    BY <1>1, <1>2, FS_EmptySet DEF CvIInv, CvTypeOK, MutexIInv, CvAccounting, Init, CvInit

\* The waiting tasks when t enters a wait.
LEMMA EnterWait ==
    ASSUME CvIInv, NEW t \in Tasks, NEW kind \in {"wait", "timed"},
           wpc[t] = "run", wpc' = [wpc EXCEPT ![t] = kind]
    PROVE  Cardinality(InWait') = Cardinality(InWait) + 1
  <1>1. InWait' = InWait \cup {t} /\ t \notin InWait
    BY DEF CvIInv, CvTypeOK, InWait
  <1> QED
    BY <1>1, InWaitFinite, FS_AddElement

\* The same when t leaves the wait.
LEMMA LeaveWait ==
    ASSUME CvIInv, NEW t \in Tasks, wpc[t] # "run", wpc' = [wpc EXCEPT ![t] = "run"]
    PROVE  Cardinality(InWait') = Cardinality(InWait) - 1
  <1>1. InWait' = InWait \ {t} /\ t \in InWait
    BY DEF CvIInv, CvTypeOK, InWait
  <1> QED
    BY <1>1, InWaitFinite, FS_RemoveElement

\* Nobody enters or leaves a wait.
LEMMA SameWait == ASSUME UNCHANGED wpc PROVE InWait' = InWait
  BY DEF InWait

\* Steps that only use the mutex.
LEMMA MutexOnlyStep ==
    ASSUME CvIInv, MutexIInv', UNCHANGED cvVars PROVE CvIInv'
  BY SameWait DEF CvIInv, CvTypeOK, CvAccounting, MutexIInv, cvVars

\* wait and timedwait up to the point where they block or pass.
LEMMA WaitStep ==
    ASSUME CvIInv, NEW t \in Tasks, NEW kind \in {"wait", "timed"}, wpc[t] = "run",
           WaitBlock(t, kind) \/ WaitPass
    PROVE  CvIInv'
  <1>1. CASE WaitBlock(t, kind)
    <2>1. MutexIInv'
      BY <1>1, ReleaseStep DEF CvIInv, WaitBlock
    <2>2. Cardinality(InWait') = Cardinality(InWait) + 1
      BY <1>1, EnterWait DEF WaitBlock
    <2>3. CvAccounting'
      BY <1>1, <2>2, InWaitFinite DEF CvIInv, CvTypeOK, CvAccounting, WaitBlock
    <2>4. cv_sem' \in Nat /\ cv_waiters' \in Nat
          /\ wpc' \in [Tasks -> {"run", "wait", "timed", "expired"}]
      BY <1>1 DEF CvIInv, CvTypeOK, WaitBlock
    <2> QED
      BY <2>1, <2>3, <2>4 DEF CvIInv, CvTypeOK, MutexIInv
  <1>2. CASE WaitPass
    <2>1. MutexIInv'
      BY <1>2, MutexUnchanged DEF CvIInv, WaitPass
    <2>2. CvAccounting'
      BY <1>2, SameWait, InWaitFinite DEF CvIInv, CvTypeOK, CvAccounting, WaitPass
    <2>3. cv_sem' \in Nat /\ cv_waiters' \in Nat
          /\ wpc' \in [Tasks -> {"run", "wait", "timed", "expired"}]
      BY <1>2 DEF CvIInv, CvTypeOK, WaitPass
    <2> QED
      BY <2>1, <2>2, <2>3 DEF CvIInv, CvTypeOK, MutexIInv
  <1> QED
    BY <1>1, <1>2

\* A wait that takes a token.
LEMMA WaitResumeStep ==
    ASSUME CvIInv, NEW t \in Tasks, WaitResume(t) PROVE CvIInv'
  <1>1. MutexIInv'
    BY AcquireStep DEF CvIInv, WaitResume
  <1>2. Cardinality(InWait') = Cardinality(InWait) - 1
    BY LeaveWait DEF WaitResume
  <1>3. CvAccounting'
    BY <1>2, InWaitFinite DEF CvIInv, CvTypeOK, CvAccounting, WaitResume
  <1>4. cv_sem' \in Nat /\ cv_waiters' \in Nat
        /\ wpc' \in [Tasks -> {"run", "wait", "timed", "expired"}]
    BY DEF CvIInv, CvTypeOK, WaitResume
  <1> QED
    BY <1>1, <1>3, <1>4 DEF CvIInv, CvTypeOK, MutexIInv

\* A deadline that passes.
LEMMA TimeoutStep ==
    ASSUME CvIInv, NEW t \in Tasks, Timeout(t) PROVE CvIInv'
  <1>1. MutexIInv'
    BY MutexUnchanged DEF CvIInv, Timeout
  <1>2. InWait' = InWait
    BY DEF CvIInv, CvTypeOK, Timeout, InWait
  <1>3. CvAccounting'
    BY <1>2 DEF CvIInv, CvAccounting, Timeout
  <1>4. cv_sem' \in Nat /\ cv_waiters' \in Nat
        /\ wpc' \in [Tasks -> {"run", "wait", "timed", "expired"}]
    BY DEF CvIInv, CvTypeOK, Timeout
  <1> QED
    BY <1>1, <1>3, <1>4 DEF CvIInv, CvTypeOK, MutexIInv

\* A wait that ends after its deadline: the count of waiters does not go below
\* zero because the task itself is still counted when there is no token.
LEMMA TimeoutResumeStep ==
    ASSUME CvIInv, NEW t \in Tasks, TimeoutResume(t) PROVE CvIInv'
  <1>1. MutexIInv'
    BY AcquireStep DEF CvIInv, TimeoutResume
  <1>2. Cardinality(InWait') = Cardinality(InWait) - 1
    BY LeaveWait DEF TimeoutResume
  <1>3. t \in InWait /\ Cardinality(InWait) # 0
    <2>1. t \in InWait
      BY DEF TimeoutResume, InWait
    <2> QED
      BY <2>1, InWaitFinite, FS_EmptySet
  <1>4. CvAccounting' /\ cv_sem' \in Nat /\ cv_waiters' \in Nat
    BY <1>2, <1>3, InWaitFinite
    DEF CvIInv, CvTypeOK, CvAccounting, TimeoutResume, TakeLateToken
  <1>5. wpc' \in [Tasks -> {"run", "wait", "timed", "expired"}]
    BY DEF CvIInv, CvTypeOK, TimeoutResume
  <1> QED
    BY <1>1, <1>4, <1>5 DEF CvIInv, CvTypeOK, MutexIInv

\* signal and broadcast move counted waiters to tokens.
LEMMA NotifyStep ==
    ASSUME CvIInv, Notify \/ NotifyAll, UNCHANGED <<wpc, mutexVars>> PROVE CvIInv'
  <1>1. MutexIInv'
    BY MutexUnchanged DEF CvIInv
  <1>2. InWait' = InWait
    BY SameWait
  <1>3. CvAccounting' /\ cv_sem' \in Nat /\ cv_waiters' \in Nat
    BY <1>2, InWaitFinite DEF CvIInv, CvTypeOK, CvAccounting, Notify, NotifyAll
  <1> QED
    BY <1>1, <1>3 DEF CvIInv, CvTypeOK, MutexIInv

\* Every step of the condition variable and its mutex keeps the invariant.
LEMMA CvNextIInv == CvIInv /\ [Next]_vars => CvIInv'
  <1> SUFFICES ASSUME CvIInv, [Next]_vars PROVE CvIInv'
    OBVIOUS
  <1>1. CASE UNCHANGED vars
    BY <1>1, MutexUnchanged, MutexOnlyStep DEF vars, CvIInv
  <1>2. ASSUME NEW t \in Tasks, Lock(t) \/ TryLock(t) \/ Unlock(t) \/ LockResume(t)
        PROVE  CvIInv'
    <2>1. MutexIInv'
      BY <1>2, AcquireStep, TryAcquireStep, ReleaseStep, AcquireResumeStep
      DEF CvIInv, Lock, TryLock, Unlock, LockResume
    <2> QED
      BY <1>2, <2>1, MutexOnlyStep DEF Lock, TryLock, Unlock, LockResume
  <1>3. ASSUME NEW t \in Tasks, Wait(t) \/ TimedWait(t)
        PROVE  CvIInv'
    BY <1>3, WaitStep DEF Wait, TimedWait
  <1>4. ASSUME NEW t \in Tasks, WaitResume(t) \/ Timeout(t) \/ TimeoutResume(t)
        PROVE  CvIInv'
    BY <1>4, WaitResumeStep, TimeoutStep, TimeoutResumeStep
  <1>5. ASSUME NEW t \in Tasks, Signal(t) \/ Broadcast(t)
        PROVE  CvIInv'
    BY <1>5, NotifyStep DEF Signal, Broadcast
  <1> QED
    BY <1>1, <1>2, <1>3, <1>4, <1>5 DEF Next

\* The inductive invariant holds in every reachable state of the condition
\* variable and its mutex.
THEOREM CvInvariant == Spec => []CvIInv
  BY CvInitIInv, CvNextIInv, PTL DEF Spec

\* However signals, broadcasts, timeouts and late waiters race, every task in
\* a wait is counted or has a token, and no token is left over
\* (condvar.cpp, the reason for the TryDown() after a timeout).
THEOREM CvCounting == Spec => []CvAccounting
  BY CvInvariant, PTL DEF CvIInv

\* Mutual exclusion holds for tasks that also wait on a condition variable.
THEOREM CvMutualExclusion == Spec => []MutualExclusion
  BY CvInvariant, MutexIInvImplies, PTL DEF CvIInv
------------------------------------------------------------------------------
\* Producers and consumers: only consumers wait, and no wakeup is lost.
ClientIInv ==
    /\ CvIInv
    /\ items \in Nat
    /\ InWait \subseteq Consumers
    /\ NoLostWakeup

\* The client calls the library as Next allows.
LEMMA ClientStepIsCvStep == [ClientNext]_clientVars => [Next]_vars
  <1> SUFFICES ASSUME ClientNext PROVE Next \/ UNCHANGED vars
    BY DEF clientVars, vars
  <1>1. ASSUME NEW p \in Producers, Producer(p) PROVE Next \/ UNCHANGED vars
    <2>1. p \in Tasks
      BY ClientAssumption
    <2> QED
      BY <1>1, <2>1 DEF Producer, PutLock, Put, PutUnlock, PutNotify, Next
  <1>2. ASSUME NEW c \in Consumers, Consumer(c) PROVE Next
    <2>1. c \in Tasks
      BY ClientAssumption
    <2> QED
      BY <1>2, <2>1 DEF Consumer, TakeLock, TakeWait, Take, Next
  <1>3. ASSUME NEW t \in Tasks, Library(t) PROVE Next
    BY <1>3 DEF Library, Next
  <1> QED
    BY <1>1, <1>2, <1>3 DEF ClientNext

\* A notify while every consumer waits leaves a token: with no task counted in
\* waiters, every one of them already has one.
LEMMA NotifyLeavesToken ==
    ASSUME CvIInv, Consumers \subseteq InWait, Notify \/ NotifyAll
    PROVE  cv_sem' > 0
  <1>1. Cardinality(InWait) # 0
    BY ClientAssumption, InWaitFinite, FS_EmptySet
  <1> QED
    BY <1>1, InWaitFinite DEF CvIInv, CvTypeOK, CvAccounting, Notify, NotifyAll

\* The producer's steps.
LEMMA ProducerStep ==
    ASSUME ClientIInv, NEW p \in Producers, Producer(p)
    PROVE  items' \in Nat /\ InWait' \subseteq Consumers /\ NoLostWakeup'
  <1>1. CASE PutLock(p)
    BY <1>1 DEF PutLock, Lock, cvVars, itemVars, ClientIInv, NoLostWakeup, InWait
  <1>2. CASE Put(p)
    BY <1>2 DEF Put, vars, cvVars, ClientIInv, NoLostWakeup, InWait
  <1>3. CASE PutUnlock(p)
    BY <1>3 DEF PutUnlock, Unlock, cvVars, ClientIInv, NoLostWakeup, InWait
  <1>4. CASE PutNotify(p)
    <2>1. (Notify \/ NotifyAll) /\ InWait' = InWait /\ items' = items
      BY <1>4 DEF PutNotify, Signal, Broadcast, InWait
    <2> QED
      BY <2>1, NotifyLeavesToken DEF ClientIInv, NoLostWakeup
  <1> QED
    BY <1>1, <1>2, <1>3, <1>4 DEF Producer

\* The consumer's steps: it begins to wait only without an item.
LEMMA ConsumerStep ==
    ASSUME ClientIInv, NEW c \in Consumers, Consumer(c)
    PROVE  items' \in Nat /\ InWait' \subseteq Consumers /\ NoLostWakeup'
  <1>1. CASE TakeLock(c)
    BY <1>1 DEF TakeLock, Lock, TryLock, cvVars, itemVars, ClientIInv, NoLostWakeup, InWait
  <1>2. CASE TakeWait(c)
    <2>1. items = 0 /\ items' = 0
      BY <1>2 DEF TakeWait, itemVars
    <2>2. InWait' \subseteq InWait \cup {c}
      BY <1>2 DEF TakeWait, Wait, TimedWait, WaitBlock, WaitPass, InWait,
                 ClientIInv, CvIInv, CvTypeOK
    <2> QED
      BY <2>1, <2>2 DEF ClientIInv, NoLostWakeup
  <1>3. CASE Take(c)
    <2>1. InWait' = InWait /\ c \notin InWait
      BY <1>3 DEF Take, Unlock, cvVars, InWait
    <2> QED
      BY <1>3, <2>1 DEF Take, ClientIInv, NoLostWakeup
  <1> QED
    BY <1>1, <1>2, <1>3 DEF Consumer

\* The steps inside the library: a token is taken only by a task that leaves
\* the wait, and that is a consumer.
LEMMA LibraryStep ==
    ASSUME ClientIInv, NEW t \in Tasks, Library(t)
    PROVE  items' \in Nat /\ InWait' \subseteq Consumers /\ NoLostWakeup'
  <1>0. items' = items /\ owes' = owes
    BY DEF Library, itemVars
  <1>1. CASE LockResume(t)
    BY <1>0, <1>1 DEF LockResume, cvVars, ClientIInv, NoLostWakeup, InWait
  <1>2. CASE Timeout(t)
    <2>1. InWait' = InWait /\ cv_sem' = cv_sem
      BY <1>2 DEF Timeout, InWait, ClientIInv, CvIInv, CvTypeOK
    <2> QED
      BY <1>0, <2>1 DEF ClientIInv, NoLostWakeup
  <1>3. CASE WaitResume(t) \/ TimeoutResume(t)
    <2>1. t \in InWait /\ InWait' = InWait \ {t}
      BY <1>3 DEF WaitResume, TimeoutResume, InWait, ClientIInv, CvIInv, CvTypeOK
    <2> QED
      BY <1>0, <2>1 DEF ClientIInv, NoLostWakeup
  <1> QED
    BY <1>1, <1>2, <1>3 DEF Library

\* The inductive invariant of producers and consumers.
LEMMA ClientNextIInv == ClientIInv /\ [ClientNext]_clientVars => ClientIInv'
  <1> SUFFICES ASSUME ClientIInv, [ClientNext]_clientVars PROVE ClientIInv'
    OBVIOUS
  <1>1. CvIInv'
    BY CvNextIInv, ClientStepIsCvStep DEF ClientIInv
  <1>2. CASE UNCHANGED clientVars
    BY <1>1, <1>2 DEF clientVars, vars, cvVars, itemVars, ClientIInv, NoLostWakeup, InWait
  <1>3. CASE ClientNext
    BY <1>1, <1>3, ProducerStep, ConsumerStep, LibraryStep DEF ClientNext, ClientIInv
  <1> QED
    BY <1>2, <1>3

\* It holds in every reachable state.
THEOREM ClientInvariant == ClientSpec => []ClientIInv
  <1>1. ClientInit => ClientIInv
    <2> SUFFICES ASSUME ClientInit PROVE ClientIInv
      OBVIOUS
    <2>1. CvIInv
      BY CvInitIInv DEF ClientInit
    <2> QED
      BY <2>1 DEF ClientInit, ClientIInv, NoLostWakeup, Init, CvInit, InWait
  <1> QED
    BY <1>1, ClientNextIInv, PTL DEF ClientSpec

\* With any number of producers and consumers that wait in a loop for an item,
\* no wakeup is lost: when all consumers wait although there is an item, a
\* token is pending or a notify is still to come (condvar.cpp, signal and
\* broadcast; a late waiter may take the token of an earlier one).
THEOREM ClientNoLostWakeup == ClientSpec => []NoLostWakeup
  BY ClientInvariant, PTL DEF ClientIInv

\* The producers and consumers use the condition variable as Condvar allows
\* it, so that what is proved there holds for them.
THEOREM ClientUsesCondvar == ClientSpec => Spec
  BY ClientStepIsCvStep, PTL DEF ClientSpec, ClientInit, Spec
==============================================================================
