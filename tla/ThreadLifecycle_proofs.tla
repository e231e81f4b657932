------------------------ MODULE ThreadLifecycle_proofs ------------------------
(***************************************************************************)
(* Proofs about ThreadLifecycle for every set of threads and addresses:    *)
(* the JoinHandle is deleted exactly once and never used afterwards.       *)
(* Proofs about ExecuteOnce for every set of tasks and any number of calls *)
(* and failures.                                                           *)
(***************************************************************************)
EXTENDS ThreadLifecycle, ExecuteOnce, TLAPS

\* The inductive invariant.  NoDoubleFree is not inductive: that a second
\* delete cannot happen depends on who owns the handle.
IInv == TypeOK /\ HandlePointsToTask /\ HandleOwnership /\ JoinedThreadEnded

\* The initial state.
LEMMA InitIInv == Init => IInv
  BY DEF Init, IInv, TypeOK, HandlePointsToTask, HandleOwnership, JoinedThreadEnded,
         NoHandle, Exists

\* __libcpp_thread_create keeps the invariant.
LEMMA CreateStep ==
    ASSUME IInv, NEW t \in Threads, NEW a \in Addrs, Create(t, a) PROVE IInv'
  BY AddrsAssumption, ZenonT(60)
  DEF Create, IInv, TypeOK, HandlePointsToTask, HandleOwnership, JoinedThreadEnded,
      NoHandle, Exists

\* The end of a task keeps the invariant.
LEMMA FinishStep ==
    ASSUME IInv, NEW t \in Threads, Finish(t) PROVE IInv'
  BY DEF Finish, IInv, TypeOK, HandlePointsToTask, HandleOwnership, JoinedThreadEnded,
         Exists

\* ~CLibCXXTask keeps the invariant.
LEMMA ReapStep ==
    ASSUME IInv, NEW t \in Threads, Reap(t) PROVE IInv'
  <1> USE DEF IInv
  <1>1. TypeOK'
    <2>1. handle' \in [Threads -> [task : Addrs \cup {Null}, id : Addrs \cup {Null},
                                   detached : BOOLEAN, joined : BOOLEAN]]
      BY DEF Reap, TypeOK
    <2> QED
      BY <2>1, SMTT(30) DEF Reap, DeleteHandle, TypeOK
  <1>2. HandlePointsToTask'
    BY DEF Reap, TypeOK, HandlePointsToTask, Exists
  <1>3. HandleOwnership'
    BY DEF Reap, DeleteHandle, TypeOK, HandleOwnership, HandlePointsToTask, Exists
  <1>4. JoinedThreadEnded'
    BY DEF Reap, TypeOK, JoinedThreadEnded
  <1> QED
    BY <1>1, <1>2, <1>3, <1>4

\* A join of a deleted task keeps the invariant.
LEMMA JoinGoneStep ==
    ASSUME IInv, NEW t \in Threads, JoinGone(t) PROVE IInv'
  BY DEF JoinGone, DeleteHandle, IInv, TypeOK, HandlePointsToTask, HandleOwnership,
         JoinedThreadEnded, Exists

\* A join of an existing task keeps the invariant.
LEMMA JoinWaitStep ==
    ASSUME IInv, NEW t \in Threads, JoinWait(t) PROVE IInv'
  <1> USE DEF IInv
  <1>1. TypeOK'
    <2>1. handle' \in [Threads -> [task : Addrs \cup {Null}, id : Addrs \cup {Null},
                                   detached : BOOLEAN, joined : BOOLEAN]]
      BY ZenonT(60) DEF JoinWait, TypeOK
    <2> QED
      BY <2>1 DEF JoinWait, TypeOK
  <1>2. HandlePointsToTask'
    BY DEF JoinWait, TypeOK, HandlePointsToTask, Exists
  <1>3. HandleOwnership'
    BY DEF JoinWait, TypeOK, HandleOwnership, HandlePointsToTask, Exists
  <1>4. JoinedThreadEnded'
    BY DEF JoinWait, TypeOK, JoinedThreadEnded
  <1> QED
    BY <1>1, <1>2, <1>3, <1>4

\* The return of a waiting join keeps the invariant.
LEMMA JoinReturnStep ==
    ASSUME IInv, NEW t \in Threads, JoinReturn(t) PROVE IInv'
  BY DEF JoinReturn, IInv, TypeOK, HandlePointsToTask, HandleOwnership,
         JoinedThreadEnded, Exists

\* __libcpp_thread_detach keeps the invariant.
LEMMA DetachStep ==
    ASSUME IInv, NEW t \in Threads, Detach(t) PROVE IInv'
  <1> USE DEF IInv
  <1>1. TypeOK'
    <2>1. handle' \in [Threads -> [task : Addrs \cup {Null}, id : Addrs \cup {Null},
                                   detached : BOOLEAN, joined : BOOLEAN]]
      BY ZenonT(60) DEF Detach, TypeOK
    <2> QED
      BY <2>1 DEF Detach, DeleteHandle, TypeOK
  <1>2. HandlePointsToTask'
    BY DEF Detach, TypeOK, HandlePointsToTask, Exists
  <1>3. HandleOwnership'
    BY DEF Detach, DeleteHandle, TypeOK, HandleOwnership, HandlePointsToTask, Exists
  <1>4. JoinedThreadEnded'
    BY DEF Detach, TypeOK, JoinedThreadEnded
  <1> QED
    BY <1>1, <1>2, <1>3, <1>4

\* The inductive invariant holds in every reachable state.
THEOREM ThreadInvariant == Spec => []IInv
  <1>1. IInv /\ UNCHANGED vars => IInv'
    BY DEF vars, IInv, TypeOK, HandlePointsToTask, HandleOwnership, JoinedThreadEnded,
           Exists
  <1>2. IInv /\ [Next]_vars => IInv'
    BY <1>1, CreateStep, FinishStep, ReapStep, JoinGoneStep, JoinWaitStep,
       JoinReturnStep, DetachStep DEF Next
  <1> QED
    BY InitIInv, <1>2, PTL DEF Spec

\* The JoinHandle of a thread is deleted at most once, whichever of join,
\* detach and the deletion of the task by the scheduler comes first.
THEOREM ThreadNoDoubleFree == Spec => []NoDoubleFree
  <1>1. IInv => NoDoubleFree
    BY DEF IInv, TypeOK, HandleOwnership, NoDoubleFree
  <1> QED
    BY <1>1, ThreadInvariant, PTL

\* Whoever may still touch the JoinHandle finds it allocated.
THEOREM ThreadNoUseAfterFree == Spec => []NoUseAfterFree
  <1>1. IInv => NoUseAfterFree
    BY DEF IInv, TypeOK, HandleOwnership, NoUseAfterFree, Exists
  <1> QED
    BY <1>1, ThreadInvariant, PTL

\* The JoinHandle of a thread that was joined or detached does not outlive
\* the task.
THEOREM ThreadNoLeak == Spec => []NoLeak
  <1>1. IInv => NoLeak
    BY DEF IInv, TypeOK, HandleOwnership, NoLeak
  <1> QED
    BY <1>1, ThreadInvariant, PTL

\* join, on a task that still runs or on one that is gone, returns only after
\* the function of the thread has returned.
THEOREM ThreadJoinedEnded == Spec => []JoinedThreadEnded
  BY ThreadInvariant, PTL DEF IInv
------------------------------------------------------------------------------
(* std::call_once                                                          *)

\* The inductive invariant.  That the routine completes only once needs to
\* know that the flag cannot leave 1 while another task is in the routine.
OnceIInv == OnceTypeOK /\ OneInitialiser /\ CompletesOnce /\ ReturnedMeansDone

\* The initial state.
LEMMA OnceInitIInv == OnceInit => OnceIInv
  BY DEF OnceInit, OnceIInv, OnceTypeOK, OneInitialiser, CompletesOnce, ReturnedMeansDone

\* A turn of the outer loop, of a new call or of a caller that has spun: no
\* task that may take one is in the init routine.
LEMMA LoopTopStep ==
    ASSUME OnceIInv, NEW t \in Tasks, pc[t] # "init", LoopTop(t), UNCHANGED completed
    PROVE  OnceIInv'
  <1> USE DEF OnceIInv
  <1>1. OnceTypeOK'
    BY DEF LoopTop, OnceTypeOK
  <1>2. OneInitialiser'
    BY DEF LoopTop, OnceTypeOK, OneInitialiser
  <1>3. CompletesOnce'
    BY DEF LoopTop, OnceTypeOK, CompletesOnce
  <1>4. ReturnedMeansDone'
    BY DEF LoopTop, OnceTypeOK, ReturnedMeansDone
  <1> QED
    BY <1>1, <1>2, <1>3, <1>4

\* The init routine returns.
LEMMA InitReturnsStep ==
    ASSUME OnceIInv, NEW t \in Tasks, InitReturns(t) PROVE OnceIInv'
  <1> USE DEF OnceIInv
  <1>1. flag = 1
    BY DEF InitReturns, OneInitialiser
  <1>2. OnceTypeOK' /\ CompletesOnce'
    BY <1>1 DEF InitReturns, OnceTypeOK, CompletesOnce
  <1>3. OneInitialiser' /\ ReturnedMeansDone'
    BY DEF InitReturns, OnceTypeOK, OneInitialiser, ReturnedMeansDone
  <1> QED
    BY <1>2, <1>3

\* The init routine throws.
LEMMA InitThrowsStep ==
    ASSUME OnceIInv, NEW t \in Tasks, InitThrows(t) PROVE OnceIInv'
  <1> USE DEF OnceIInv
  <1>1. flag = 1
    BY DEF InitThrows, OneInitialiser
  <1>2. OnceTypeOK' /\ CompletesOnce'
    BY <1>1 DEF InitThrows, OnceTypeOK, CompletesOnce
  <1>3. OneInitialiser' /\ ReturnedMeansDone'
    BY <1>1 DEF InitThrows, OnceTypeOK, OneInitialiser, ReturnedMeansDone
  <1> QED
    BY <1>2, <1>3

\* The inductive invariant holds in every reachable state.
THEOREM OnceInvariant == OnceSpec => []OnceIInv
  <1>1. ASSUME OnceIInv, NEW t \in Tasks, Call(t) PROVE OnceIInv'
    BY <1>1, LoopTopStep DEF Call
  <1>2. ASSUME OnceIInv, NEW t \in Tasks, SpinResume(t) PROVE OnceIInv'
    BY <1>2, LoopTopStep DEF SpinResume, OnceIInv, OnceTypeOK
  <1>3. OnceIInv /\ UNCHANGED onceVars => OnceIInv'
    BY DEF onceVars, OnceIInv, OnceTypeOK, OneInitialiser, CompletesOnce, ReturnedMeansDone
  <1>4. OnceIInv /\ [OnceNext]_onceVars => OnceIInv'
    BY <1>1, <1>2, <1>3, InitReturnsStep, InitThrowsStep DEF OnceNext
  <1> QED
    BY OnceInitIInv, <1>4, PTL DEF OnceSpec

\* The init routine of a flag runs to its end at most once.
THEOREM OnceCompletes == OnceSpec => []CompletesOnce
  BY OnceInvariant, PTL DEF OnceIInv

\* No call returns before the init routine has run to its end, also not one
\* that spun while another task's attempt failed.
THEOREM OnceReturnedMeansDone == OnceSpec => []ReturnedMeansDone
  BY OnceInvariant, PTL DEF OnceIInv
==============================================================================
