-------------------------- MODULE NonRecursiveMutex --------------------------
(***************************************************************************)
(* NonRecursiveMutexImpl (libs/libcxx-threading/src/mutex_impl.h), the     *)
(* implementation of std::mutex, used through __libcpp_mutex_lock,         *)
(* _trylock, _unlock and _destroy (mutex.cpp).                             *)
(*                                                                         *)
(* Circle schedules its tasks cooperatively: a task runs alone from one    *)
(* call that may block to the next.  A call is one action up to the point  *)
(* where it blocks, and what follows is an action that the blocked task    *)
(* takes later.  Any task may run next.                                    *)
(*                                                                         *)
(* CSemaphore is Circle's: Down() returns at once when the count is        *)
(* positive, whoever calls it, and blocks otherwise; Up() adds one and     *)
(* makes blocked tasks ready, without choosing which of them goes on.      *)
(***************************************************************************)
EXTENDS Integers, FiniteSets

CONSTANTS Tasks,    \* the tasks that share the mutex
          NoTask    \* not a task

ASSUME TasksAssumption == IsFiniteSet(Tasks) /\ NoTask \notin Tasks

VARIABLES
    m_locked,   \* the field m_locked
    m_waiters,  \* the field m_waiters
    m_sem,      \* the count of the semaphore m_sem
    m_live,     \* the storage holds a constructed mutex
    pc          \* where each task is with respect to this mutex:
                \*   "out"     not in a call, does not have the mutex
                \*   "blocked" in m_sem.Down() of Acquire
                \*   "holds"   Acquire or TryAcquire gave it the mutex

mutexVars == <<m_locked, m_waiters, m_sem, m_live, pc>>

Blocked == {t \in Tasks : pc[t] = "blocked"}
Holders == {t \in Tasks : pc[t] = "holds"}

\* Zero-initialised storage.
MutexInit ==
    /\ m_locked = FALSE
    /\ m_waiters = 0
    /\ m_sem = 0
    /\ m_live = TRUE
    /\ pc = [t \in Tasks |-> "out"]

\* m_sem.Down() called when t is already counted as a waiter.
SemDown(t) ==
    IF m_sem > 0
    THEN m_sem' = m_sem - 1 /\ pc' = [pc EXCEPT ![t] = "holds"]
    ELSE m_sem' = m_sem /\ pc' = [pc EXCEPT ![t] = "blocked"]

\* Acquire: the fast path takes an unlocked mutex, the slow path counts the
\* caller as a waiter and goes down on the semaphore, which blocks unless a
\* Release has already posted a token that nobody has taken yet.
AcquireFast(t) ==
    /\ ~m_locked
    /\ m_locked' = TRUE
    /\ pc' = [pc EXCEPT ![t] = "holds"]
    /\ UNCHANGED <<m_waiters, m_sem>>

\* Variant with a mistake: the waiter is not counted.
AcquireSlowUncounted(t) ==
    /\ m_locked
    /\ SemDown(t)
    /\ UNCHANGED <<m_locked, m_waiters>>

AcquireSlow(t) ==
    /\ m_locked
    /\ m_waiters' = m_waiters + 1
    /\ SemDown(t)
    /\ UNCHANGED m_locked

Acquire(t) ==
    /\ m_live
    /\ pc[t] = "out"
    /\ AcquireFast(t) \/ AcquireSlow(t)
    /\ UNCHANGED m_live

\* A task blocked in Down() runs again and finds the count positive.
AcquireResume(t) ==
    /\ pc[t] = "blocked"
    /\ m_sem > 0
    /\ m_sem' = m_sem - 1
    /\ pc' = [pc EXCEPT ![t] = "holds"]
    /\ UNCHANGED <<m_locked, m_waiters, m_live>>

\* TryAcquire never blocks; when it fails it changes nothing.
TryAcquire(t) ==
    /\ m_live
    /\ pc[t] = "out"
    /\ AcquireFast(t) \/ (m_locked /\ UNCHANGED <<m_locked, m_waiters, m_sem, pc>>)
    /\ UNCHANGED m_live

\* Variant with a mistake: the token is not posted.
ReleaseToWaiterNoUp ==
    /\ m_waiters > 0
    /\ m_waiters' = m_waiters - 1
    /\ UNCHANGED <<m_locked, m_sem>>

\* Variant with a mistake: the mutex is unlocked although a waiter gets it.
ReleaseToWaiterUnlocks ==
    /\ m_waiters > 0
    /\ m_waiters' = m_waiters - 1
    /\ m_sem' = m_sem + 1
    /\ m_locked' = FALSE

\* Release: with waiters, m_locked stays set and a token is posted.
ReleaseToWaiter ==
    /\ m_waiters > 0
    /\ m_waiters' = m_waiters - 1
    /\ m_sem' = m_sem + 1
    /\ UNCHANGED m_locked

ReleaseUnlock ==
    /\ m_waiters <= 0
    /\ m_locked' = FALSE
    /\ UNCHANGED <<m_waiters, m_sem>>

Release(t) ==
    /\ pc[t] = "holds"
    /\ ReleaseToWaiter \/ ReleaseUnlock
    /\ pc' = [pc EXCEPT ![t] = "out"]
    /\ UNCHANGED m_live

\* std::mutex may be destroyed once no task holds it; the storage may then be
\* constructed anew.  The client sees only what trylock would tell it.
Destroy ==
    /\ m_live
    /\ ~m_locked
    /\ m_live' = FALSE
    /\ UNCHANGED <<m_locked, m_waiters, m_sem, pc>>

Construct ==
    /\ ~m_live
    /\ m_live' = TRUE
    /\ m_locked' = FALSE
    /\ m_waiters' = 0
    /\ m_sem' = 0
    /\ UNCHANGED pc

MutexNext ==
    \/ \E t \in Tasks : \/ Acquire(t)
                        \/ AcquireResume(t)
                        \/ TryAcquire(t)
                        \/ Release(t)
    \/ Destroy
    \/ Construct

MutexSpec == MutexInit /\ [][MutexNext]_mutexVars

\* Circle's scheduler goes round its ready tasks, so a task that is ready to
\* return from Down() is run; nothing obliges a client to unlock.
MutexFairSpec == MutexSpec /\ \A t \in Tasks : WF_mutexVars(AcquireResume(t))
------------------------------------------------------------------------------
MutexTypeOK ==
    /\ m_locked \in BOOLEAN
    /\ m_waiters \in Nat
    /\ m_sem \in Nat
    /\ m_live \in BOOLEAN
    /\ pc \in [Tasks -> {"out", "blocked", "holds"}]

\* std::mutex: two tasks never hold the mutex at the same time, although a
\* task that calls Acquire while a posted token is pending may take it
\* (mutex_impl.h, Acquire and Release).
MutualExclusion == \A t, u \in Holders : t = u

\* Every task inside the slow path of Acquire is either still counted in
\* m_waiters or has a token on the semaphore to take: a Release neither loses
\* a waiter nor posts a token for nobody, whoever takes the tokens.
WaiterAccounting == Cardinality(Blocked) = m_waiters + m_sem

\* The mutex is marked locked exactly while it has a holder or a token under
\* way, never both and never two tokens; unlocked, nothing is left over.
TokenOrHolder ==
    IF m_locked
    THEN \/ m_sem = 0 /\ \E t \in Tasks : Holders = {t}
         \/ m_sem = 1 /\ Holders = {}
    ELSE m_sem = 0 /\ m_waiters = 0 /\ Holders = {}

\* No blocked task is stranded: when nobody holds the mutex, a task blocked in
\* Acquire has a token to take.
NoStrandedWaiter == (Blocked # {} /\ Holders = {}) => m_sem > 0

\* A mutex seen unlocked may be destroyed: no task is left inside a call on
\* it, so no task touches the storage afterwards.
NoUseAfterDestroy == ~m_live => \A t \in Tasks : pc[t] = "out"

\* The inductive invariant behind these properties.
MutexIInv ==
    /\ MutexTypeOK
    /\ WaiterAccounting
    /\ TokenOrHolder
    /\ NoUseAfterDestroy

\* mutex_impl.h:68 says that Release leaves the "ownership transferred to the
\* first waiter": with a token posted, the next holder was blocked before.
OwnershipGoesToWaiter ==
    [][\A t \in Tasks : m_sem > 0 /\ pc[t] # "holds" /\ pc'[t] = "holds"
                           => pc[t] = "blocked"]_mutexVars

\* The abstract mutex: its owner is the holder, and the blocked tasks ask.
Owner == IF Holders = {} THEN NoTask ELSE CHOOSE t \in Tasks : t \in Holders

Abs == INSTANCE AbstractMutex WITH
    NoOwner <- NoTask, owner <- Owner, asking <- Blocked

\* std::mutex does nothing a mutex may not do: every step is one of the
\* abstract mutex or changes neither its owner nor its waiting tasks.
ImplementsMutexSafety == Abs!Safety

\* std::mutex is a mutex: every behaviour of the code is one of the abstract
\* mutex, including that a free mutex with waiters is granted to one of them.
ImplementsMutex == Abs!Spec
==============================================================================
