---------------------------- MODULE CondvarClient ----------------------------
(***************************************************************************)
(* The use the condition variable is made for: producers put items under   *)
(* the mutex and call notify_one or notify_all, with the mutex held or     *)
(* after unlocking it; consumers lock (or try to), wait while there is no  *)
(* item, take one and unlock.  tests/05-libcxx-concurrency/main.cpp does   *)
(* this with one thread on each side.                                      *)
(***************************************************************************)
EXTENDS Condvar

CONSTANTS Producers, Consumers,  \* the tasks
          MaxItems               \* how many items are produced in all

ASSUME ClientAssumption ==
    /\ Producers \cup Consumers = Tasks
    /\ Producers \cap Consumers = {} /\ Consumers # {}
    /\ MaxItems \in Nat

VARIABLES items,     \* items put and not yet taken
          produced,  \* items put so far
          put,       \* producers that have put their item and hold the mutex
          owes       \* producers that put an item and have not notified yet

itemVars == <<items, produced, put, owes>>
clientVars == <<vars, itemVars>>

ClientInit == Init /\ items = 0 /\ produced = 0 /\ put = {} /\ owes = {}

\* Producer: lock; put; then unlock and notify in either order.
PutLock(p) ==
    /\ produced < MaxItems /\ p \notin owes
    /\ Lock(p)
    /\ UNCHANGED itemVars

Put(p) ==
    /\ pc[p] = "holds" /\ p \notin put /\ produced < MaxItems
    /\ items' = items + 1
    /\ produced' = produced + 1
    /\ put' = put \cup {p}
    /\ owes' = owes \cup {p}
    /\ UNCHANGED vars

\* A producer that got the mutex after the last item was put just unlocks.
PutUnlock(p) ==
    /\ p \in put \/ produced = MaxItems
    /\ Unlock(p)
    /\ put' = put \ {p}
    /\ UNCHANGED <<items, produced, owes>>

PutNotify(p) ==
    /\ p \in owes
    /\ Signal(p) \/ Broadcast(p)
    /\ owes' = owes \ {p}
    /\ UNCHANGED <<items, produced, put>>

\* Consumer: lock; while (items == 0) wait; take; unlock.
TakeLock(c) == (Lock(c) \/ TryLock(c)) /\ UNCHANGED itemVars

TakeWait(c) ==
    /\ items = 0
    /\ Wait(c) \/ TimedWait(c)
    /\ UNCHANGED itemVars

Take(c) ==
    /\ items > 0
    /\ Unlock(c)
    /\ items' = items - 1
    /\ UNCHANGED <<produced, put, owes>>

Library(t) ==
    /\ LockResume(t) \/ WaitResume(t) \/ Timeout(t) \/ TimeoutResume(t)
    /\ UNCHANGED itemVars

Producer(p) == PutLock(p) \/ Put(p) \/ PutUnlock(p) \/ PutNotify(p)
Consumer(c) == TakeLock(c) \/ TakeWait(c) \/ Take(c)

ClientNext == \/ \E p \in Producers : Producer(p)
              \/ \E c \in Consumers : Consumer(c)
              \/ \E t \in Tasks : Library(t)

\* The scheduler runs every ready task; deadlines need not pass.
ClientSpec ==
    /\ ClientInit /\ [][ClientNext]_clientVars
    /\ \A p \in Producers : WF_clientVars(Producer(p))
    /\ \A c \in Consumers : WF_clientVars(Consumer(c))
    /\ \A t \in Tasks : WF_clientVars(Resumption(t) /\ UNCHANGED itemVars)
------------------------------------------------------------------------------
\* No lost wakeup: when every consumer waits for an item although there is
\* one, a token is on its way to a consumer or a producer is about to notify.
NoLostWakeup ==
    (items > 0 /\ Consumers \subseteq InWait) => (cv_sem > 0 \/ owes # {})

\* Every item that is put is taken in the end: neither the tokens that late
\* waiters take nor timeouts leave all consumers asleep with work to do.
ItemsAreTaken == []<>(items = 0)
==============================================================================
