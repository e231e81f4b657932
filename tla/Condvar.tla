------------------------------- MODULE Condvar -------------------------------
(***************************************************************************)
(* CondvarImpl (libs/libcxx-threading/src/condvar.cpp), the implementation *)
(* of std::condition_variable, together with the mutex its waiters use.    *)
(*                                                                         *)
(* A wait counts the caller, releases the mutex, goes down on the          *)
(* semaphore and acquires the mutex again.  It blocks at most twice, in    *)
(* sem.Down() and in Acquire(); what it does between two blocking points   *)
(* is one step.  The deadline of a timed wait may pass at any time: the    *)
(* scheduler then makes the task ready, and it runs some time later.       *)
(***************************************************************************)
EXTENDS NonRecursiveMutex

VARIABLES
    cv_sem,      \* the count of CondvarImpl::sem
    cv_waiters,  \* CondvarImpl::waiters
    wpc          \* where each task is with respect to the condition variable:
                 \*   "run"      not in a wait, or past it in Acquire()
                 \*   "wait"     blocked in sem.Down()
                 \*   "timed"    blocked in sem.DownWithTimeout()
                 \*   "expired"  made ready by the timeout, has not run yet

cvVars == <<cv_sem, cv_waiters, wpc>>
vars == <<mutexVars, cvVars>>

InWait == {t \in Tasks : wpc[t] # "run"}

\* A task that can call into the library.
Running(t) == wpc[t] = "run" /\ pc[t] # "blocked"

CvInit ==
    /\ cv_sem = 0
    /\ cv_waiters = 0
    /\ wpc = [t \in Tasks |-> "run"]

Init == MutexInit /\ CvInit
------------------------------------------------------------------------------
\* Variant with a mistake: the waiter is not counted.
WaitBlockUncounted(t, kind) ==
    /\ cv_sem = 0
    /\ Release(t)
    /\ wpc' = [wpc EXCEPT ![t] = kind]
    /\ UNCHANGED <<cv_sem, cv_waiters>>

\* __libcpp_condvar_wait and _timedwait when the semaphore has no token.
WaitBlock(t, kind) ==
    /\ cv_sem = 0
    /\ cv_waiters' = cv_waiters + 1
    /\ Release(t)
    /\ wpc' = [wpc EXCEPT ![t] = kind]
    /\ UNCHANGED cv_sem

\* The same when a token is pending: Down() returns at once and the caller
\* goes on to Acquire() without another task having run.  Whether or not the
\* Release posted a token of the mutex, the Acquire takes the mutex back and
\* leaves its fields as they were.
WaitPass ==
    /\ cv_sem > 0
    /\ cv_waiters' = cv_waiters + 1
    /\ cv_sem' = cv_sem - 1
    /\ UNCHANGED <<wpc, mutexVars>>

Wait(t) ==
    /\ wpc[t] = "run" /\ pc[t] = "holds"
    /\ WaitBlock(t, "wait") \/ WaitPass

TimedWait(t) ==
    /\ wpc[t] = "run" /\ pc[t] = "holds"
    /\ WaitBlock(t, "timed") \/ WaitPass

\* A task blocked in Down() or DownWithTimeout() runs again, takes a token and
\* goes on to Acquire().
WaitResume(t) ==
    /\ wpc[t] \in {"wait", "timed"}
    /\ cv_sem > 0
    /\ cv_sem' = cv_sem - 1
    /\ wpc' = [wpc EXCEPT ![t] = "run"]
    /\ Acquire(t)
    /\ UNCHANGED cv_waiters

\* The deadline passes: the scheduler makes the task ready.
Timeout(t) ==
    /\ wpc[t] = "timed"
    /\ wpc' = [wpc EXCEPT ![t] = "expired"]
    /\ UNCHANGED <<cv_sem, cv_waiters, mutexVars>>

\* DownWithTimeout() returned TRUE: TryDown() takes the token of a signal that
\* came after the timeout; without one the task uncounts itself.
TakeLateToken ==
    IF cv_sem > 0
    THEN cv_sem' = cv_sem - 1 /\ UNCHANGED cv_waiters
    ELSE cv_waiters' = cv_waiters - 1 /\ UNCHANGED cv_sem

\* Variant with a mistake: Down() instead of TryDown() after the timeout.
TimeoutResumeWaits(t) ==
    /\ wpc[t] = "expired"
    /\ cv_sem > 0
    /\ TakeLateToken
    /\ wpc' = [wpc EXCEPT ![t] = "run"]
    /\ Acquire(t)

TimeoutResume(t) ==
    /\ wpc[t] = "expired"
    /\ TakeLateToken
    /\ wpc' = [wpc EXCEPT ![t] = "run"]
    /\ Acquire(t)

\* Variants with a mistake: a token also for nobody, no token at all.
NotifyAlways ==
    /\ cv_waiters' = IF cv_waiters > 0 THEN cv_waiters - 1 ELSE 0
    /\ cv_sem' = cv_sem + 1

NotifyNoUp ==
    /\ cv_waiters' = IF cv_waiters > 0 THEN cv_waiters - 1 ELSE 0
    /\ UNCHANGED cv_sem

\* __libcpp_condvar_signal, with or without the mutex held.
Notify ==
    IF cv_waiters > 0
    THEN cv_waiters' = cv_waiters - 1 /\ cv_sem' = cv_sem + 1
    ELSE UNCHANGED <<cv_waiters, cv_sem>>

Signal(t) == Running(t) /\ Notify /\ UNCHANGED <<wpc, mutexVars>>

\* __libcpp_condvar_broadcast: one Up() for each task counted at the call.
NotifyAll ==
    /\ cv_waiters' = 0
    /\ cv_sem' = cv_sem + cv_waiters

Broadcast(t) == Running(t) /\ NotifyAll /\ UNCHANGED <<wpc, mutexVars>>

\* lock, trylock and unlock by a task that is not in a wait, and the return
\* from a blocked Acquire (of a lock or at the end of a wait).
Lock(t) == wpc[t] = "run" /\ Acquire(t) /\ UNCHANGED cvVars
TryLock(t) == wpc[t] = "run" /\ TryAcquire(t) /\ UNCHANGED cvVars
Unlock(t) == wpc[t] = "run" /\ Release(t) /\ UNCHANGED cvVars
LockResume(t) == AcquireResume(t) /\ UNCHANGED cvVars

Next == \E t \in Tasks :
    \/ Lock(t) \/ TryLock(t) \/ Unlock(t) \/ LockResume(t)
    \/ Wait(t) \/ TimedWait(t) \/ WaitResume(t)
    \/ Timeout(t) \/ TimeoutResume(t)
    \/ Signal(t) \/ Broadcast(t)

Spec == Init /\ [][Next]_vars

\* What the round-robin scheduler runs by itself: tasks that are ready to
\* return from a semaphore.  Deadlines pass.
Resumption(t) == WaitResume(t) \/ TimeoutResume(t) \/ LockResume(t)

FairSpec == /\ Spec
            /\ \A t \in Tasks : WF_vars(Resumption(t)) /\ WF_vars(Timeout(t))
------------------------------------------------------------------------------
CvTypeOK ==
    /\ MutexTypeOK
    /\ cv_sem \in Nat
    /\ cv_waiters \in Nat
    /\ wpc \in [Tasks -> {"run", "wait", "timed", "expired"}]

\* Every task inside the semaphore part of a wait is either still counted in
\* waiters or has a token to take.  No signal leaves an orphaned token behind
\* and no timeout uncounts a waiter twice (condvar.cpp:38-41), although a
\* signal, a broadcast, a late waiter and a timeout may race.
CvAccounting == Cardinality(InWait) = cv_waiters + cv_sem

\* A timed wait whose deadline has passed ends even if no signal ever comes or
\* one comes too late: it gets past the semaphore (it may still wait for the
\* mutex), and never goes down a second time for a late token.
TimedWaitEnds == \A t \in Tasks : wpc[t] = "expired" ~> wpc[t] = "run"

\* condvar.cpp:14 says a wait "blocks until signal/broadcast calls Up()".
\* While t waits and no task is counted in waiters, Up() has been called for
\* every waiting task, t among them: t then leaves the wait.
NotifiedWaiterReturns ==
    \A t \in Tasks : (t \in InWait /\ cv_waiters = 0) ~> wpc[t] = "run"
==============================================================================
