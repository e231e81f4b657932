--------------------------- MODULE ThreadLifecycle ---------------------------
(***************************************************************************)
(* std::thread over Circle tasks (libs/libcxx-threading/src/thread.cpp):   *)
(* __libcpp_thread_create, _join, _detach, _get_id, CLibCXXTask and the    *)
(* JoinHandle the std::thread object and the task share.                   *)
(*                                                                         *)
(* The scheduler (Circle's) deletes a terminated task at some later        *)
(* switch, and a task that waits in WaitForTermination() is made ready by  *)
(* the termination; which of the two happens first is open.  The address   *)
(* of a deleted task is free for the next one.                             *)
(***************************************************************************)
EXTENDS Integers, FiniteSets

CONSTANTS Threads,  \* the std::thread objects of a run, one creation each
          Addrs,    \* the addresses the allocator has for CLibCXXTask objects
          Null      \* the null address

ASSUME AddrsAssumption == Null \notin Addrs

VARIABLES
    opaque,    \* opaque[t]: __opaque of t points to its JoinHandle
    handle,    \* handle[t]: the fields of the JoinHandle of t
    frees,     \* frees[t]: how often the JoinHandle of t was deleted
    task,      \* task[t]: the CLibCXXTask of t: "none" before the creation,
               \*   "alive", "ended" after termination, "deleted"
    addr,      \* addr[t]: the address of that task while it exists
    joiner     \* joiner[t]: "none", "waiting" in WaitForTermination(), "done"

vars == <<opaque, handle, frees, task, addr, joiner>>

NoHandle == [task |-> Null, id |-> Null, detached |-> FALSE, joined |-> FALSE]

\* The task object exists: it can still run its destructor.
Exists(t) == task[t] \in {"alive", "ended"}

Init ==
    /\ opaque = [t \in Threads |-> FALSE]
    /\ handle = [t \in Threads |-> NoHandle]
    /\ frees = [t \in Threads |-> 0]
    /\ task = [t \in Threads |-> "none"]
    /\ addr = [t \in Threads |-> Null]
    /\ joiner = [t \in Threads |-> "none"]

DeleteHandle(t) == frees' = [frees EXCEPT ![t] = @ + 1]

\* __libcpp_thread_create: the handle first, then the task at a free address.
Create(t, a) ==
    /\ task[t] = "none"
    /\ \A u \in Threads : addr[u] # a
    /\ task' = [task EXCEPT ![t] = "alive"]
    /\ addr' = [addr EXCEPT ![t] = a]
    /\ handle' = [handle EXCEPT ![t] = [NoHandle EXCEPT !.task = a, !.id = a]]
    /\ opaque' = [opaque EXCEPT ![t] = TRUE]
    /\ UNCHANGED <<frees, joiner>>

\* CLibCXXTask::Run returns: the task terminates.
Finish(t) ==
    /\ task[t] = "alive"
    /\ task' = [task EXCEPT ![t] = "ended"]
    /\ UNCHANGED <<opaque, handle, frees, addr, joiner>>

\* Variant with a mistake: a joined handle is not deleted.
ReapIgnoresJoined(t) ==
    /\ task[t] = "ended"
    /\ task' = [task EXCEPT ![t] = "deleted"]
    /\ addr' = [addr EXCEPT ![t] = Null]
    /\ handle' = [handle EXCEPT ![t].task = Null]
    /\ IF handle[t].detached THEN DeleteHandle(t) ELSE UNCHANGED frees
    /\ UNCHANGED <<opaque, joiner>>

\* The scheduler deletes the terminated task: ~CLibCXXTask.
Reap(t) ==
    /\ task[t] = "ended"
    /\ task' = [task EXCEPT ![t] = "deleted"]
    /\ addr' = [addr EXCEPT ![t] = Null]
    /\ handle' = [handle EXCEPT ![t].task = Null]
    /\ IF handle[t].detached \/ handle[t].joined
       THEN DeleteHandle(t)
       ELSE UNCHANGED frees
    /\ UNCHANGED <<opaque, joiner>>

\* __libcpp_thread_join on a task that is gone: the caller deletes the handle.
JoinGone(t) ==
    /\ opaque[t] /\ joiner[t] = "none"
    /\ handle[t].task = Null
    /\ DeleteHandle(t)
    /\ opaque' = [opaque EXCEPT ![t] = FALSE]
    /\ joiner' = [joiner EXCEPT ![t] = "done"]
    /\ UNCHANGED <<handle, task, addr>>

\* Variant with a mistake: the caller deletes the handle as well.
JoinWaitDeletes(t) ==
    /\ opaque[t] /\ joiner[t] = "none"
    /\ handle[t].task # Null
    /\ handle' = [handle EXCEPT ![t].joined = TRUE]
    /\ joiner' = [joiner EXCEPT ![t] = "waiting"]
    /\ DeleteHandle(t)
    /\ UNCHANGED <<opaque, task, addr>>

\* __libcpp_thread_join on a task that still exists: the caller leaves the
\* handle to the task's destructor and waits for the termination.
JoinWait(t) ==
    /\ opaque[t] /\ joiner[t] = "none"
    /\ handle[t].task # Null
    /\ handle' = [handle EXCEPT ![t].joined = TRUE]
    /\ joiner' = [joiner EXCEPT ![t] = "waiting"]
    /\ UNCHANGED <<opaque, frees, task, addr>>

\* WaitForTermination() returns, before or after the task was deleted; the
\* caller touches only the std::thread object from here on.
JoinReturn(t) ==
    /\ joiner[t] = "waiting"
    /\ task[t] \in {"ended", "deleted"}
    /\ opaque' = [opaque EXCEPT ![t] = FALSE]
    /\ joiner' = [joiner EXCEPT ![t] = "done"]
    /\ UNCHANGED <<handle, frees, task, addr>>

\* Variant with a mistake: the handle is deleted while the task exists.
DetachDeletes(t) ==
    /\ opaque[t] /\ joiner[t] = "none"
    /\ handle' = [handle EXCEPT ![t].detached = TRUE]
    /\ DeleteHandle(t)
    /\ opaque' = [opaque EXCEPT ![t] = FALSE]
    /\ UNCHANGED <<task, addr, joiner>>

\* __libcpp_thread_detach.
Detach(t) ==
    /\ opaque[t] /\ joiner[t] = "none"
    /\ handle' = [handle EXCEPT ![t].detached = TRUE]
    /\ IF handle[t].task = Null THEN DeleteHandle(t) ELSE UNCHANGED frees
    /\ opaque' = [opaque EXCEPT ![t] = FALSE]
    /\ UNCHANGED <<task, addr, joiner>>

\* __libcpp_thread_get_id.
ThreadId(t) == handle[t].id

Next == \E t \in Threads :
    \/ \E a \in Addrs : Create(t, a)
    \/ Finish(t) \/ Reap(t)
    \/ JoinGone(t) \/ JoinWait(t) \/ JoinReturn(t)
    \/ Detach(t)

Spec == Init /\ [][Next]_vars

\* The scheduler runs ready tasks and deletes terminated ones; the functions
\* the threads run are assumed to return.
FairSpec ==
    /\ Spec
    /\ \A t \in Threads : WF_vars(Finish(t)) /\ WF_vars(Reap(t)) /\ WF_vars(JoinReturn(t))
------------------------------------------------------------------------------
TypeOK ==
    /\ opaque \in [Threads -> BOOLEAN]
    /\ handle \in [Threads -> [task : Addrs \cup {Null}, id : Addrs \cup {Null},
                               detached : BOOLEAN, joined : BOOLEAN]]
    /\ frees \in [Threads -> Nat]
    /\ task \in [Threads -> {"none", "alive", "ended", "deleted"}]
    /\ addr \in [Threads -> Addrs \cup {Null}]
    /\ joiner \in [Threads -> {"none", "waiting", "done"}]

\* The handle is deleted at most once, whichever of the joining or detaching
\* task and the scheduler comes first.
NoDoubleFree == \A t \in Threads : frees[t] <= 1

\* Whoever may still touch the handle (the destructor of an existing task, a
\* join or a detach that has not begun) finds it allocated.
NoUseAfterFree ==
    \A t \in Threads :
        Exists(t) \/ (opaque[t] /\ joiner[t] = "none") => frees[t] = 0

\* The handle is not leaked: once the task is deleted and the thread object
\* joined or detached, it has been deleted.
NoLeak ==
    \A t \in Threads :
        task[t] = "deleted" /\ (~opaque[t] \/ joiner[t] # "none") => frees[t] = 1

\* A live handle whose task pointer is set points to the existing task.
HandlePointsToTask ==
    \A t \in Threads : handle[t].task = addr[t] /\ (handle[t].task # Null <=> Exists(t))

\* join returns only after the function of the thread has returned.
JoinedThreadEnded ==
    \A t \in Threads : joiner[t] = "done" => task[t] \in {"ended", "deleted"}

\* Who deletes the handle (thread.cpp:97-102): the destructor of the task, when
\* the thread object has given the handle up by then, else the caller of join
\* or detach.  While the task exists, "given up" is what the two flags say.
HandleOwnership ==
    \A t \in Threads :
        LET givenUp == ~opaque[t] \/ joiner[t] # "none"
        IN  /\ Exists(t) => (givenUp <=> handle[t].detached \/ handle[t].joined)
            /\ frees[t] = IF task[t] = "deleted" /\ givenUp THEN 1 ELSE 0
            /\ task[t] = "none" => ~opaque[t] /\ joiner[t] = "none"

\* A join that was called returns, and the handle of a thread that was joined
\* or detached is deleted in the end.
JoinReturns ==
    \A t \in Threads : joiner[t] = "waiting" ~> (joiner[t] = "done" /\ frees[t] = 1)

\* __external_threading:109 says of the thread id "CTask* cast to uintptr_t -
\* unique per task": two std::thread objects that can both still be joined
\* have different ids.
IdsUnique ==
    \A t, u \in Threads : t # u /\ opaque[t] /\ opaque[u] => ThreadId(t) # ThreadId(u)
==============================================================================
